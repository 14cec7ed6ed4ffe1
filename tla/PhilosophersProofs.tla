-------------------------- MODULE PhilosophersProofs --------------------------
(***************************************************************************)
(* The monitor of lab8/kern/sync/monitor.c and both philosophers' programs *)
(* of check_sync.c are safe for every number of philosophers and meals.    *)
(***************************************************************************)
EXTENDS Philosophers, SequenceTheorems, FiniteSetTheorems, TLAPS

\* Philosopher i is in the queue of semaphore x, in the semaphores f.
Waits(f, i, x) == \E k \in DOMAIN f[x].queue : f[x].queue[k] = i

\* The semaphores of the monitor: its one token is a value of one of them or
\* with a philosopher inside.
MonSems == {mtmutex, mtnext} \cup {cv(i) : i \in Phil}

SemaPcs == {"thinking", "take", "taken", "eating", "put", "quit"}
CondvarPcs == {"thinking", "mtake", "mtested", "mwait", "mwoken", "mtaken", "eating",
               "mput", "mputr", "mputl", "signal", "signalled", "quit"}
Inside == {"mtake", "mtested", "mwoken", "mtaken", "mput", "mputr", "mputl", "signalled"}

SemSpace == [Sems -> [value : Nat, queue : Seq(Phil)]]

TypeOK ==
  /\ phase \in {"sema", "condvar", "done"}
  /\ sem \in SemSpace
  /\ state \in [Phil -> {"THINKING", "HUNGRY", "EATING"}]
  /\ next_count \in Int
  /\ count \in [Phil -> Int]
  /\ iter \in [Phil -> Nat]
  /\ pc \in [Phil -> SemaPcs \cup CondvarPcs]
  /\ ret \in [Phil -> {"none", "mputr", "mputl", "mtested"}]

\* Nobody is queued twice.
QueuesDistinct(f) ==
  \A x \in Sems : \A j, k \in 1..Len(f[x].queue) : f[x].queue[j] = f[x].queue[k] => j = k

\* The semaphore whose token philosopher i needs to be where its pc says.
Needs(i, x) ==
  \/ phase = "sema" /\ pc[i] \in {"take", "put"} /\ x = mutex
  \/ phase = "sema" /\ pc[i] = "eating" /\ x = s(i)
  \/ phase = "condvar" /\ pc[i] \in {"mtake", "mput"} /\ x = mtmutex
  \/ phase = "condvar" /\ pc[i] = "mwoken" /\ x = cv(i)
  \/ phase = "condvar" /\ pc[i] = "signalled" /\ x = mtnext

WaitsRight == \A i \in Phil : \A x \in Sems : Waits(sem, i, x) => Needs(i, x)

\* mutex is held by at most one philosopher, and is not free then.
InMutex(i) == pc[i] \in {"take", "put"} /\ ~Asleep(i)
MutexHeld ==
  /\ sem[mutex].value <= 1
  /\ sem[mutex].value > 0 => \A i \in Phil : ~InMutex(i)
  /\ \A i, j \in Phil : InMutex(i) /\ InMutex(j) => i = j

\* The state of a philosopher of the first kind, and the token in its s[i].
SemaState(i) ==
  \/ pc[i] \in {"thinking", "take", "quit"} /\ state[i] = "THINKING" /\ sem[s(i)].value = 0
  \/ pc[i] = "taken" /\ state[i] = "HUNGRY" /\ sem[s(i)].value = 0
  \/ pc[i] = "taken" /\ state[i] = "EATING" /\ sem[s(i)].value = 1
  \/ pc[i] = "eating" /\ Asleep(i) /\ state[i] = "HUNGRY" /\ sem[s(i)].value = 0
  \/ pc[i] = "eating" /\ ~Asleep(i) /\ state[i] = "EATING" /\ sem[s(i)].value = 0
  \/ pc[i] = "put" /\ state[i] = "EATING" /\ sem[s(i)].value = 0

SemaInv ==
  phase = "sema" =>
    /\ MutexHeld
    /\ \A i \in Phil : SemaState(i)
    /\ \A x \in MonSems : sem[x].value = 0
    /\ next_count = 0
    /\ \A i \in Phil : count[i] = 0

\* The state of one of the second kind, its condition variable, and where it
\* goes on after a signal.
CondvarState(i) ==
  /\ \/ pc[i] \in {"thinking", "mtake", "mputr", "mputl", "signal", "signalled", "quit"} /\ state[i] = "THINKING"
        /\ sem[cv(i)].value = 0
     \/ pc[i] = "mtested" /\ state[i] # "THINKING" /\ sem[cv(i)].value = 0
     \/ pc[i] = "mwait" /\ state[i] = "HUNGRY" /\ sem[cv(i)].value = 0
     \/ pc[i] = "mwait" /\ state[i] = "EATING" /\ sem[cv(i)].value = 1
     \/ pc[i] = "mwoken" /\ Asleep(i) /\ state[i] = "HUNGRY" /\ sem[cv(i)].value = 0
     \/ pc[i] = "mwoken" /\ ~Asleep(i) /\ state[i] = "EATING" /\ sem[cv(i)].value = 0
     \/ pc[i] \in {"mtaken", "eating", "mput"} /\ state[i] = "EATING" /\ sem[cv(i)].value = 0
  /\ count[i] = IF pc[i] \in {"mwait", "mwoken"} THEN 1 ELSE 0
  /\ pc[i] \in {"signal", "signalled"} => ret[i] \in {"mputr", "mputl"}

\* The monitor is with at most one philosopher inside, or in the value of at
\* most one of its semaphores, never both.
IsActive(i) == pc[i] \in Inside /\ ~Asleep(i)
MonitorHeld ==
  /\ \A i, j \in Phil : IsActive(i) /\ IsActive(j) => i = j
  /\ \A x, y \in MonSems : sem[x].value > 0 /\ sem[y].value > 0 => x = y
  /\ \A x \in MonSems : sem[x].value > 0 => \A i \in Phil : ~IsActive(i)
  /\ \A x \in MonSems : sem[x].value <= 1

Signallers == {i \in Phil : pc[i] \in {"signal", "signalled"}}

CondvarInv ==
  phase # "sema" =>
    /\ MonitorHeld
    /\ \A i \in Phil : CondvarState(i)
    /\ next_count = Cardinality(Signallers)

\* No two neighbours eat, in st.
Apart(st) == \A i \in Phil : st[i] = "EATING" => st[RIGHT(i)] # "EATING"

Phases ==
  /\ phase = "sema" => \A i \in Phil : pc[i] \in SemaPcs
  /\ phase = "condvar" => \A i \in Phil : pc[i] \in CondvarPcs
  /\ phase = "done" => \A i \in Phil : pc[i] = "quit"

IInv ==
  /\ TypeOK
  /\ QueuesDistinct(sem)
  /\ WaitsRight
  /\ Phases
  /\ Apart(state)
  /\ SemaInv
  /\ CondvarInv

-----------------------------------------------------------------------------
\* The table is round.
LEMMA Neighbours ==
  ASSUME NEW i \in Phil
  PROVE  /\ LEFT(i) \in Phil /\ RIGHT(i) \in Phil
         /\ LEFT(i) # i /\ RIGHT(i) # i /\ LEFT(i) # RIGHT(i)
         /\ RIGHT(LEFT(i)) = i /\ LEFT(RIGHT(i)) = i
<1>1. N \in Nat /\ N >= 3 /\ i \in 0..(N - 1) BY NAssumption DEF Phil
<1>2. ASSUME NEW a \in 0..(2 * N - 1) PROVE a % N = IF a < N THEN a ELSE a - N BY <1>1
<1>3. LEFT(i) = IF i = 0 THEN N - 1 ELSE i - 1
  <2>1. i - 1 + N \in 0..(2 * N - 1) BY <1>1
  <2>2. QED BY <1>1, <1>2, <2>1 DEF LEFT
<1>4. RIGHT(i) = IF i = N - 1 THEN 0 ELSE i + 1
  <2>1. i + 1 \in 0..(2 * N - 1) BY <1>1
  <2>2. QED BY <1>1, <1>2, <2>1 DEF RIGHT
<1>5. RIGHT(LEFT(i)) = i
  <2>1. LEFT(i) + 1 \in 0..(2 * N - 1) BY <1>1, <1>3
  <2>2. QED BY <1>1, <1>2, <1>3, <2>1 DEF RIGHT
<1>6. LEFT(RIGHT(i)) = i
  <2>1. RIGHT(i) - 1 + N \in 0..(2 * N - 1) BY <1>1, <1>4
  <2>2. QED BY <1>1, <1>2, <1>4, <2>1 DEF LEFT
<1>7. QED BY <1>1, <1>3, <1>4, <1>5, <1>6 DEF Phil

LEMMA EatApart ==
  ASSUME NEW st \in [Phil -> {"THINKING", "HUNGRY", "EATING"}], Apart(st),
         NEW j \in Phil, MayEat(st, j)
  PROVE  Apart([st EXCEPT ![j] = "EATING"])
<1> DEFINE u == [st EXCEPT ![j] = "EATING"]
<1> SUFFICES ASSUME NEW k \in Phil, u[k] = "EATING" PROVE u[RIGHT(k)] # "EATING"
  BY DEF Apart
<1>1. /\ LEFT(j) \in Phil /\ RIGHT(j) \in Phil /\ RIGHT(j) # j /\ RIGHT(k) \in Phil
      /\ LEFT(RIGHT(k)) = k
  BY Neighbours
<1>2. st[LEFT(j)] # "EATING" /\ st[RIGHT(j)] # "EATING" BY DEF MayEat
<1>3. CASE k = j BY <1>1, <1>2, <1>3
<1>4. CASE k # j
  <2>1. st[k] = "EATING" BY <1>4
  <2>2. RIGHT(k) # j BY <2>1, <1>1, <1>2
  <2>3. QED BY <2>1, <2>2, <1>1 DEF Apart
<1>5. QED BY <1>3, <1>4

LEMMA NotEatApart ==
  ASSUME NEW st \in [Phil -> {"THINKING", "HUNGRY", "EATING"}], Apart(st),
         NEW j \in Phil, NEW w \in {"THINKING", "HUNGRY"}
  PROVE  Apart([st EXCEPT ![j] = w])
<1>1. \A k \in Phil : RIGHT(k) \in Phil BY Neighbours
<1>2. QED BY <1>1 DEF Apart

-----------------------------------------------------------------------------
\* The semaphores are different objects.
LEMMA SemsApart ==
  /\ mutex \in Sems /\ mtmutex \in Sems /\ mtnext \in Sems
  /\ \A i \in Phil : s(i) \in Sems /\ cv(i) \in Sems /\ cv(i) \in MonSems /\ s(i) \notin MonSems
  /\ mtmutex \in MonSems /\ mtnext \in MonSems /\ mutex \notin MonSems /\ MonSems \subseteq Sems
  /\ mutex # mtmutex /\ mutex # mtnext /\ mtmutex # mtnext
  /\ \A i \in Phil : s(i) # mutex /\ s(i) # mtmutex /\ s(i) # mtnext
  /\ \A i \in Phil : cv(i) # mutex /\ cv(i) # mtmutex /\ cv(i) # mtnext
  /\ \A i, j \in Phil : s(i) # cv(j) /\ (s(i) = s(j) => i = j) /\ (cv(i) = cv(j) => i = j)
  BY DEF Sems, MonSems, mutex, mtmutex, mtnext, s, cv

\* A philosopher needs one token at a time.
LEMMA NeedsOne ==
  ASSUME NEW i \in Phil, NEW x, NEW y, Needs(i, x), Needs(i, y)
  PROVE  x = y
  BY DEF Needs

\* i sleeps on one of the semaphores f.
SleepsIn(f, i) == \E x \in Sems : Waits(f, i, x)

LEMMA AsleepIs ==
  /\ \A i \in Phil : Asleep(i) <=> SleepsIn(sem, i)
  /\ \A i \in Phil : Asleep(i)' <=> SleepsIn(sem', i)
  BY DEF Asleep, SleepsIn, Waits

\* The semaphores f are well formed, and everybody waits where it should.
SemsOK(f) ==
  /\ f \in SemSpace
  /\ QueuesDistinct(f)
  /\ \A i \in Phil : \A x \in Sems : Waits(f, i, x) => Needs(i, x)

\* up() on one semaphore: either nobody needs it, or one of its sleepers wakes.
LEMMA UpIs ==
  ASSUME NEW f, SemsOK(f), NEW x \in Sems
  PROVE  /\ SemsOK(up(f, x))
         /\ \A y \in Sems : y # x => up(f, x)[y].value = f[y].value
         /\ \/ /\ up(f, x)[x].value = f[x].value + 1
               /\ \A j \in Phil : SleepsIn(up(f, x), j) <=> SleepsIn(f, j)
               /\ \A j \in Phil : Needs(j, x) => ~SleepsIn(f, j)
            \/ \E h \in Phil :
                 /\ Needs(h, x) /\ SleepsIn(f, h)
                 /\ up(f, x)[x].value = f[x].value
                 /\ \A j \in Phil : SleepsIn(up(f, x), j) <=> SleepsIn(f, j) /\ j # h
<1> DEFINE g == up(f, x)
<1> DEFINE q == f[x].queue
<1>1. f \in SemSpace /\ f[x].value \in Nat /\ q \in Seq(Phil) /\ f[x] \in [value : Nat, queue : Seq(Phil)]
  BY DEF SemsOK, SemSpace
<1>2. ASSUME NEW j \in Phil, Needs(j, x), SleepsIn(f, j) PROVE Waits(f, j, x)
  <2>1. PICK y \in Sems : Waits(f, j, y) BY <1>2 DEF SleepsIn
  <2>2. y = x BY <2>1, <1>2, NeedsOne DEF SemsOK
  <2>3. QED BY <2>1, <2>2
<1>3. CASE q = <<>>
  <2>1. g = [f EXCEPT ![x].value = @ + 1] BY <1>3 DEF up
  <2>2. /\ g \in SemSpace /\ g[x].value = f[x].value + 1
        /\ \A y \in Sems : y # x => g[y] = f[y]
        /\ \A y \in Sems : g[y].queue = f[y].queue
    BY <2>1, <1>1 DEF SemSpace
  <2> HIDE DEF g
  <2>3. \A j \in Phil : \A y \in Sems : Waits(g, j, y) <=> Waits(f, j, y) BY <2>2 DEF Waits
  <2>4. QueuesDistinct(g) BY <2>2 DEF SemsOK, QueuesDistinct
  <2>5. SemsOK(g) BY <2>2, <2>3, <2>4 DEF SemsOK
  <2>6. \A j \in Phil : SleepsIn(g, j) <=> SleepsIn(f, j) BY <2>3 DEF SleepsIn
  <2>7. \A j \in Phil : ~Waits(f, j, x) BY <1>3 DEF Waits
  <2>8. QED BY <2>2, <2>5, <2>6, <2>7, <1>2 DEF g
<1>4. CASE q # <<>>
  <2> DEFINE n == Len(q)
  <2> DEFINE h == q[1]
  <2> DEFINE t == Tail(q)
  <2>1. g = [f EXCEPT ![x].queue = Tail(@)] BY <1>4 DEF up
  <2>2. /\ n \in Nat /\ n >= 1 /\ DOMAIN q = 1..n /\ h \in Phil
        /\ t \in Seq(Phil) /\ Len(t) = n - 1 /\ DOMAIN t = 1..(n - 1)
        /\ \A k \in 1..(n - 1) : t[k] = q[k + 1]
    BY <1>1, <1>4
  <2>3. /\ g \in SemSpace /\ g[x].value = f[x].value /\ g[x].queue = t
        /\ \A y \in Sems : y # x => g[y] = f[y]
    BY <2>1, <2>2, <1>1 DEF SemSpace
  <2>4. \A j, k \in 1..n : q[j] = q[k] => j = k BY DEF SemsOK, QueuesDistinct
  <2> HIDE DEF g, n, h, t, q
  <2>5. \A j \in Phil : Waits(f, j, x) <=> \E k \in 1..n : q[k] = j BY <2>2 DEF Waits, q
  <2>6. \A j \in Phil : Waits(g, j, x) <=> \E k \in 1..(n - 1) : t[k] = j
    BY <2>2, <2>3 DEF Waits
  <2>7. ASSUME NEW j \in Phil PROVE Waits(g, j, x) <=> Waits(f, j, x) /\ j # h
    <3>1. ASSUME NEW k \in 1..(n - 1), t[k] = j PROVE Waits(f, j, x) /\ j # h
      <4>1. k + 1 \in 1..n /\ 1 \in 1..n /\ k + 1 # 1 /\ q[k + 1] = j BY <3>1, <2>2
      <4>2. j # h BY <4>1, <2>4 DEF h
      <4>3. QED BY <4>1, <4>2, <2>5
    <3>2. ASSUME NEW k \in 1..n, q[k] = j, j # h PROVE Waits(g, j, x)
      <4>1. k # 1 BY <3>2 DEF h
      <4>2. k - 1 \in 1..(n - 1) /\ (k - 1) + 1 = k BY <4>1, <2>2
      <4>3. t[k - 1] = j BY <4>2, <3>2, <2>2
      <4>4. QED BY <4>2, <4>3, <2>6
    <3>3. QED BY <3>1, <3>2, <2>5, <2>6
  <2>8. Waits(f, h, x)
    <3>1. 1 \in 1..n BY <2>2
    <3>2. QED BY <3>1, <2>2, <2>5 DEF h
  <2>9. \A j \in Phil : \A y \in Sems : y # x => (Waits(g, j, y) <=> Waits(f, j, y))
    BY <2>3 DEF Waits
  <2>10. QueuesDistinct(g)
    <3> SUFFICES ASSUME NEW y \in Sems, NEW j \in 1..Len(g[y].queue), NEW k \in 1..Len(g[y].queue),
                        g[y].queue[j] = g[y].queue[k]
                 PROVE  j = k
      BY DEF QueuesDistinct
    <3>1. CASE y # x BY <3>1, <2>3 DEF SemsOK, QueuesDistinct
    <3>2. CASE y = x
      <4>1. j \in 1..(n - 1) /\ k \in 1..(n - 1) /\ t[j] = t[k] BY <3>2, <2>2, <2>3
      <4>2. j + 1 \in 1..n /\ k + 1 \in 1..n /\ q[j + 1] = q[k + 1] BY <4>1, <2>2
      <4>3. j + 1 = k + 1 BY <4>2, <2>4
      <4>4. QED BY <4>1, <4>3, <2>2
    <3>3. QED BY <3>1, <3>2
  <2>11. SemsOK(g) BY <2>3, <2>7, <2>9, <2>10 DEF SemsOK
  <2>12. Needs(h, x) /\ SleepsIn(f, h) BY <2>2, <2>8 DEF SemsOK, SleepsIn
  <2>13. ASSUME NEW j \in Phil PROVE SleepsIn(g, j) <=> SleepsIn(f, j) /\ j # h
    <3>1. CASE j = h
      <4>1. ASSUME NEW y \in Sems, Waits(g, h, y) PROVE FALSE
        <5>1. y # x BY <4>1, <2>2, <2>7
        <5>2. Waits(f, h, y) BY <4>1, <5>1, <2>2, <2>9
        <5>3. Needs(h, y) BY <5>2, <2>2 DEF SemsOK
        <5>4. QED BY <5>1, <5>3, <2>2, <2>12, NeedsOne
      <4>2. QED BY <4>1, <3>1 DEF SleepsIn
    <3>2. CASE j # h BY <3>2, <2>7, <2>9 DEF SleepsIn
    <3>3. QED BY <3>1, <3>2
  <2>14. QED BY <2>2, <2>3, <2>11, <2>12, <2>13 DEF g
<1>5. QED BY <1>3, <1>4

\* down(): the caller has the token, or is queued behind the others.
LEMMA DownIs ==
  ASSUME IInv, NEW i \in Phil, ~Asleep(i), NEW x \in Sems, NEW l, down(i, x, l), Needs(i, x)'
  PROVE  /\ sem' \in SemSpace /\ QueuesDistinct(sem') /\ WaitsRight'
         /\ \A y \in Sems : y # x => sem'[y].value = sem[y].value
         /\ \/ /\ sem[x].value > 0 /\ sem'[x].value = sem[x].value - 1
               /\ \A j \in Phil : Asleep(j)' <=> Asleep(j)
            \/ /\ sem[x].value = 0 /\ sem'[x].value = 0
               /\ \A j \in Phil : Asleep(j)' <=> Asleep(j) \/ j = i
<1> DEFINE q == sem[x].queue
<1>1. sem \in SemSpace /\ sem[x].value \in Nat /\ q \in Seq(Phil) /\ sem[x] \in [value : Nat, queue : Seq(Phil)]
  BY DEF IInv, TypeOK, SemSpace
<1>2. pc' = [pc EXCEPT ![i] = l] /\ phase' = phase /\ pc \in [Phil -> SemaPcs \cup CondvarPcs]
  BY DEF down, Goto, IInv, TypeOK
<1>3. \A y \in Sems : ~Waits(sem, i, y) BY AsleepIs DEF SleepsIn
<1>4. ASSUME NEW j \in Phil, j # i, NEW y \in Sems, Waits(sem, j, y) PROVE Needs(j, y)'
  <2>1. Needs(j, y) BY <1>4 DEF IInv, WaitsRight
  <2>2. QED BY <2>1, <1>2, <1>4 DEF Needs, mutex, mtmutex, mtnext, s, cv
<1>5. CASE sem[x].value > 0
  <2>1. sem' = [sem EXCEPT ![x].value = @ - 1] BY <1>5 DEF down
  <2>2. /\ sem' \in SemSpace /\ sem'[x].value = sem[x].value - 1
        /\ \A y \in Sems : y # x => sem'[y] = sem[y]
        /\ \A y \in Sems : sem'[y].queue = sem[y].queue
    BY <2>1, <1>1, <1>5 DEF SemSpace
  <2>3. \A j \in Phil : \A y \in Sems : Waits(sem', j, y) <=> Waits(sem, j, y)
    BY <2>2 DEF Waits
  <2>4. QueuesDistinct(sem') BY <2>2 DEF IInv, QueuesDistinct
  <2>5. WaitsRight' BY <2>3, <1>3, <1>4 DEF WaitsRight
  <2>6. \A j \in Phil : Asleep(j)' <=> Asleep(j) BY <2>3, AsleepIs DEF SleepsIn
  <2>7. QED BY <2>2, <2>4, <2>5, <2>6, <1>5
<1>6. CASE sem[x].value = 0
  <2> DEFINE n == Len(q)
  <2> DEFINE t == Append(q, i)
  <2>1. sem' = [sem EXCEPT ![x].queue = Append(@, i)] BY <1>6 DEF down
  <2>2. /\ n \in Nat /\ DOMAIN q = 1..n
        /\ t \in Seq(Phil) /\ Len(t) = n + 1 /\ DOMAIN t = 1..(n + 1)
        /\ t[n + 1] = i /\ \A k \in 1..n : t[k] = q[k]
    BY <1>1
  <2>3. /\ sem' \in SemSpace /\ sem'[x].value = 0 /\ sem'[x].queue = t
        /\ \A y \in Sems : y # x => sem'[y] = sem[y]
    BY <2>1, <2>2, <1>1, <1>6 DEF SemSpace
  <2>4. \A j, k \in 1..n : q[j] = q[k] => j = k BY DEF IInv, QueuesDistinct
  <2>5. \A k \in 1..n : q[k] # i BY <2>2, <1>3 DEF Waits
  <2> HIDE DEF n, t, q
  <2>6. \A j \in Phil : Waits(sem, j, x) <=> \E k \in 1..n : q[k] = j BY <2>2 DEF Waits, q
  <2>7. \A j \in Phil : Waits(sem', j, x) <=> \E k \in 1..(n + 1) : t[k] = j
    BY <2>2, <2>3 DEF Waits
  <2>8. ASSUME NEW j \in Phil PROVE Waits(sem', j, x) <=> Waits(sem, j, x) \/ j = i
    <3>1. ASSUME NEW k \in 1..(n + 1), t[k] = j PROVE Waits(sem, j, x) \/ j = i
      <4>1. CASE k = n + 1 BY <4>1, <3>1, <2>2
      <4>2. CASE k \in 1..n BY <4>2, <3>1, <2>2, <2>6
      <4>3. QED BY <4>1, <4>2, <2>2
    <3>2. ASSUME NEW k \in 1..n, q[k] = j PROVE Waits(sem', j, x)
      <4>1. k \in 1..(n + 1) /\ t[k] = j BY <3>2, <2>2
      <4>2. QED BY <4>1, <2>7
    <3>3. ASSUME j = i PROVE Waits(sem', j, x)
      <4>1. n + 1 \in 1..(n + 1) BY <2>2
      <4>2. QED BY <4>1, <3>3, <2>2, <2>7
    <3>4. QED BY <3>1, <3>2, <3>3, <2>6, <2>7
  <2>9. \A j \in Phil : \A y \in Sems : y # x => (Waits(sem', j, y) <=> Waits(sem, j, y))
    BY <2>3 DEF Waits
  <2>10. QueuesDistinct(sem')
    <3> SUFFICES ASSUME NEW y \in Sems,
                        NEW j \in 1..Len(sem'[y].queue), NEW k \in 1..Len(sem'[y].queue),
                        sem'[y].queue[j] = sem'[y].queue[k]
                 PROVE  j = k
      BY DEF QueuesDistinct
    <3>1. CASE y # x BY <3>1, <2>3 DEF IInv, QueuesDistinct
    <3>2. CASE y = x
      <4>1. j \in 1..(n + 1) /\ k \in 1..(n + 1) /\ t[j] = t[k] BY <3>2, <2>2, <2>3
      <4>2. CASE j = n + 1 BY <4>1, <4>2, <2>2, <2>5
      <4>3. CASE k = n + 1 BY <4>1, <4>3, <2>2, <2>5
      <4>4. CASE j # n + 1 /\ k # n + 1
        <5>1. j \in 1..n /\ k \in 1..n BY <4>1, <4>4, <2>2
        <5>2. QED BY <5>1, <4>1, <2>2, <2>4
      <4>5. QED BY <4>2, <4>3, <4>4
    <3>3. QED BY <3>1, <3>2
  <2>11. WaitsRight'
    <3> SUFFICES ASSUME NEW j \in Phil, NEW y \in Sems, Waits(sem', j, y) PROVE Needs(j, y)'
      BY DEF WaitsRight
    <3>1. CASE j # i BY <3>1, <2>8, <2>9, <1>4
    <3>2. CASE j = i BY <3>2, <2>8, <2>9, <1>3
    <3>3. QED BY <3>1, <3>2
  <2>12. \A j \in Phil : Asleep(j)' <=> Asleep(j) \/ j = i
    BY <2>8, <2>9, AsleepIs DEF SleepsIn
  <2>13. QED BY <2>3, <2>10, <2>11, <2>12, <1>6
<1>7. QED BY <1>1, <1>5, <1>6

\* The philosopher that runs goes on; what was right for the others stays so.
LEMMA StillRight ==
  ASSUME IInv, SemsOK(sem'), NEW i \in Phil, ~SleepsIn(sem', i), phase' = phase,
         NEW l, pc' = [pc EXCEPT ![i] = l]
  PROVE  /\ QueuesDistinct(sem') /\ sem' \in SemSpace /\ WaitsRight'
         /\ \A j \in Phil : Asleep(j)' <=> SleepsIn(sem', j)
<1>1. ASSUME NEW j \in Phil, NEW x \in Sems, Waits(sem', j, x) PROVE Needs(j, x)'
  <2>1. j # i BY <1>1 DEF SleepsIn
  <2>2. Needs(j, x) BY <1>1 DEF SemsOK
  <2>3. pc'[j] = pc[j] BY <2>1 DEF IInv, TypeOK
  <2>4. QED BY <2>2, <2>3 DEF Needs, mutex, mtmutex, mtnext, s, cv
<1>2. QED BY <1>1, AsleepIs DEF SemsOK, WaitsRight

LEMMA SemsOKNow == IInv => SemsOK(sem)
  BY DEF IInv, TypeOK, WaitsRight, SemsOK

-----------------------------------------------------------------------------
\* The steps that are a down().
LEMMA take_sema_enter_keeps ==
  ASSUME IInv, NEW i \in Phil, take_sema_enter(i)
  PROVE  IInv'
<1>1. /\ phase = "sema" /\ pc[i] = "thinking" /\ ~Asleep(i) /\ pc' = [pc EXCEPT ![i] = "take"]
      /\ down(i, mutex, "take")
      /\ UNCHANGED <<phase, state, next_count, count, iter, ret>>
  BY DEF take_sema_enter, At, down, Goto, IInv, TypeOK, Phases, SemaPcs, CondvarPcs
<1>2. pc \in [Phil -> SemaPcs \cup CondvarPcs] BY DEF IInv, TypeOK
<1>3. Needs(i, mutex)' BY <1>1, <1>2 DEF Needs, mutex, mtmutex, mtnext, s, cv
<1>4. /\ sem' \in SemSpace /\ QueuesDistinct(sem') /\ WaitsRight'
      /\ \A y \in Sems : y # mutex => sem'[y].value = sem[y].value
      /\ \/ /\ sem[mutex].value > 0 /\ sem'[mutex].value = sem[mutex].value - 1
            /\ \A j \in Phil : Asleep(j)' <=> Asleep(j)
         \/ /\ sem[mutex].value = 0 /\ sem'[mutex].value = 0
            /\ \A j \in Phil : Asleep(j)' <=> Asleep(j) \/ j = i
  BY <1>1, <1>3, SemsApart, DownIs
<1>5. TypeOK' BY <1>1, <1>4 DEF IInv, TypeOK, SemaPcs, CondvarPcs
<1>6. Phases' BY <1>1, <1>2 DEF IInv, Phases, SemaPcs, CondvarPcs
<1>7. Apart(state)' BY <1>1 DEF IInv, Apart
<1>8. SemaInv'
  <2>1. SemaInv BY DEF IInv
  <2>2. MutexHeld'
    <3>1. MutexHeld BY <1>1, <2>1 DEF SemaInv
    <3>2. \A j \in Phil : InMutex(j)' => InMutex(j) \/ (j = i /\ mutex = mutex /\ sem[mutex].value > 0)
      BY <1>1, <1>2, <1>4 DEF InMutex
    <3>3. sem'[mutex].value \in Nat /\ sem[mutex].value \in Nat
      BY <1>4, SemsApart DEF IInv, TypeOK, SemSpace
    <3>4. /\ sem'[mutex].value <= 1
          /\ sem'[mutex].value > 0 => \A j \in Phil : ~InMutex(j)'
          /\ \A j, k \in Phil : InMutex(j)' /\ InMutex(k)' => j = k
      BY <1>4, <3>1, <3>2, <3>3, SemsApart DEF MutexHeld
    <3>5. mutex' = mutex BY DEF mutex
    <3>6. QED BY <3>4, <3>5 DEF MutexHeld
  <2>3. ASSUME NEW j \in Phil PROVE SemaState(j)'
    <3>1. SemaState(j) /\ SemaState(i) BY <1>1, <2>1 DEF SemaInv
    <3>2. CASE j = i BY <1>1, <1>2, <1>4, <3>1, <3>2, SemsApart DEF SemaState, s
    <3>3. CASE j # i
      <4>1. sem'[s(j)].value = sem[s(j)].value /\ pc'[j] = pc[j] /\ (Asleep(j)' <=> Asleep(j))
        BY <1>1, <1>2, <1>4, <3>3, SemsApart
      <4>2. QED BY <4>1, <3>1, <1>1 DEF SemaState, s
    <3>4. QED BY <3>2, <3>3
  <2>4. \A y \in MonSems : sem'[y].value = 0 BY <1>1, <1>4, <2>1, SemsApart DEF SemaInv
  <2>5. (\A y \in MonSems : sem[y].value = 0)' BY <2>4 DEF MonSems, mtmutex, mtnext, cv
  <2>6. QED BY <1>1, <2>1, <2>2, <2>3, <2>5 DEF SemaInv
<1>9. CondvarInv' BY <1>1 DEF CondvarInv
<1>10. QED BY <1>4, <1>5, <1>6, <1>7, <1>8, <1>9 DEF IInv

LEMMA take_sema_wait_keeps ==
  ASSUME IInv, NEW i \in Phil, take_sema_wait(i)
  PROVE  IInv'
<1>1. /\ phase = "sema" /\ pc[i] = "taken" /\ ~Asleep(i) /\ pc' = [pc EXCEPT ![i] = "eating"]
      /\ down(i, s(i), "eating")
      /\ UNCHANGED <<phase, state, next_count, count, iter, ret>>
  BY DEF take_sema_wait, At, down, Goto, IInv, TypeOK, Phases, SemaPcs, CondvarPcs
<1>2. pc \in [Phil -> SemaPcs \cup CondvarPcs] BY DEF IInv, TypeOK
<1>3. Needs(i, s(i))' BY <1>1, <1>2 DEF Needs, mutex, mtmutex, mtnext, s, cv
<1>4. /\ sem' \in SemSpace /\ QueuesDistinct(sem') /\ WaitsRight'
      /\ \A y \in Sems : y # s(i) => sem'[y].value = sem[y].value
      /\ \/ /\ sem[s(i)].value > 0 /\ sem'[s(i)].value = sem[s(i)].value - 1
            /\ \A j \in Phil : Asleep(j)' <=> Asleep(j)
         \/ /\ sem[s(i)].value = 0 /\ sem'[s(i)].value = 0
            /\ \A j \in Phil : Asleep(j)' <=> Asleep(j) \/ j = i
  BY <1>1, <1>3, SemsApart, DownIs
<1>5. TypeOK' BY <1>1, <1>4 DEF IInv, TypeOK, SemaPcs, CondvarPcs
<1>6. Phases' BY <1>1, <1>2 DEF IInv, Phases, SemaPcs, CondvarPcs
<1>7. Apart(state)' BY <1>1 DEF IInv, Apart
<1>8. SemaInv'
  <2>1. SemaInv BY DEF IInv
  <2>2. MutexHeld'
    <3>1. MutexHeld BY <1>1, <2>1 DEF SemaInv
    <3>2. \A j \in Phil : InMutex(j)' => InMutex(j) \/ (j = i /\ s(i) = mutex /\ sem[mutex].value > 0)
      BY <1>1, <1>2, <1>4 DEF InMutex
    <3>3. sem'[mutex].value \in Nat /\ sem[mutex].value \in Nat
      BY <1>4, SemsApart DEF IInv, TypeOK, SemSpace
    <3>4. /\ sem'[mutex].value <= 1
          /\ sem'[mutex].value > 0 => \A j \in Phil : ~InMutex(j)'
          /\ \A j, k \in Phil : InMutex(j)' /\ InMutex(k)' => j = k
      BY <1>4, <3>1, <3>2, <3>3, SemsApart DEF MutexHeld
    <3>5. mutex' = mutex BY DEF mutex
    <3>6. QED BY <3>4, <3>5 DEF MutexHeld
  <2>3. ASSUME NEW j \in Phil PROVE SemaState(j)'
    <3>1. SemaState(j) /\ SemaState(i) BY <1>1, <2>1 DEF SemaInv
    <3>2. CASE j = i BY <1>1, <1>2, <1>4, <3>1, <3>2, SemsApart DEF SemaState, s
    <3>3. CASE j # i
      <4>1. sem'[s(j)].value = sem[s(j)].value /\ pc'[j] = pc[j] /\ (Asleep(j)' <=> Asleep(j))
        BY <1>1, <1>2, <1>4, <3>3, SemsApart
      <4>2. QED BY <4>1, <3>1, <1>1 DEF SemaState, s
    <3>4. QED BY <3>2, <3>3
  <2>4. \A y \in MonSems : sem'[y].value = 0 BY <1>1, <1>4, <2>1, SemsApart DEF SemaInv
  <2>5. (\A y \in MonSems : sem[y].value = 0)' BY <2>4 DEF MonSems, mtmutex, mtnext, cv
  <2>6. QED BY <1>1, <2>1, <2>2, <2>3, <2>5 DEF SemaInv
<1>9. CondvarInv' BY <1>1 DEF CondvarInv
<1>10. QED BY <1>4, <1>5, <1>6, <1>7, <1>8, <1>9 DEF IInv

LEMMA put_sema_enter_keeps ==
  ASSUME IInv, NEW i \in Phil, put_sema_enter(i)
  PROVE  IInv'
<1>1. /\ phase = "sema" /\ pc[i] = "eating" /\ ~Asleep(i) /\ pc' = [pc EXCEPT ![i] = "put"]
      /\ down(i, mutex, "put")
      /\ UNCHANGED <<phase, state, next_count, count, iter, ret>>
  BY DEF put_sema_enter, At, down, Goto, IInv, TypeOK, Phases, SemaPcs, CondvarPcs
<1>2. pc \in [Phil -> SemaPcs \cup CondvarPcs] BY DEF IInv, TypeOK
<1>3. Needs(i, mutex)' BY <1>1, <1>2 DEF Needs, mutex, mtmutex, mtnext, s, cv
<1>4. /\ sem' \in SemSpace /\ QueuesDistinct(sem') /\ WaitsRight'
      /\ \A y \in Sems : y # mutex => sem'[y].value = sem[y].value
      /\ \/ /\ sem[mutex].value > 0 /\ sem'[mutex].value = sem[mutex].value - 1
            /\ \A j \in Phil : Asleep(j)' <=> Asleep(j)
         \/ /\ sem[mutex].value = 0 /\ sem'[mutex].value = 0
            /\ \A j \in Phil : Asleep(j)' <=> Asleep(j) \/ j = i
  BY <1>1, <1>3, SemsApart, DownIs
<1>5. TypeOK' BY <1>1, <1>4 DEF IInv, TypeOK, SemaPcs, CondvarPcs
<1>6. Phases' BY <1>1, <1>2 DEF IInv, Phases, SemaPcs, CondvarPcs
<1>7. Apart(state)' BY <1>1 DEF IInv, Apart
<1>8. SemaInv'
  <2>1. SemaInv BY DEF IInv
  <2>2. MutexHeld'
    <3>1. MutexHeld BY <1>1, <2>1 DEF SemaInv
    <3>2. \A j \in Phil : InMutex(j)' => InMutex(j) \/ (j = i /\ mutex = mutex /\ sem[mutex].value > 0)
      BY <1>1, <1>2, <1>4 DEF InMutex
    <3>3. sem'[mutex].value \in Nat /\ sem[mutex].value \in Nat
      BY <1>4, SemsApart DEF IInv, TypeOK, SemSpace
    <3>4. /\ sem'[mutex].value <= 1
          /\ sem'[mutex].value > 0 => \A j \in Phil : ~InMutex(j)'
          /\ \A j, k \in Phil : InMutex(j)' /\ InMutex(k)' => j = k
      BY <1>4, <3>1, <3>2, <3>3, SemsApart DEF MutexHeld
    <3>5. mutex' = mutex BY DEF mutex
    <3>6. QED BY <3>4, <3>5 DEF MutexHeld
  <2>3. ASSUME NEW j \in Phil PROVE SemaState(j)'
    <3>1. SemaState(j) /\ SemaState(i) BY <1>1, <2>1 DEF SemaInv
    <3>2. CASE j = i BY <1>1, <1>2, <1>4, <3>1, <3>2, SemsApart DEF SemaState, s
    <3>3. CASE j # i
      <4>1. sem'[s(j)].value = sem[s(j)].value /\ pc'[j] = pc[j] /\ (Asleep(j)' <=> Asleep(j))
        BY <1>1, <1>2, <1>4, <3>3, SemsApart
      <4>2. QED BY <4>1, <3>1, <1>1 DEF SemaState, s
    <3>4. QED BY <3>2, <3>3
  <2>4. \A y \in MonSems : sem'[y].value = 0 BY <1>1, <1>4, <2>1, SemsApart DEF SemaInv
  <2>5. (\A y \in MonSems : sem[y].value = 0)' BY <2>4 DEF MonSems, mtmutex, mtnext, cv
  <2>6. QED BY <1>1, <2>1, <2>2, <2>3, <2>5 DEF SemaInv
<1>9. CondvarInv' BY <1>1 DEF CondvarInv
<1>10. QED BY <1>4, <1>5, <1>6, <1>7, <1>8, <1>9 DEF IInv

LEMMA take_condvar_enter_keeps ==
  ASSUME IInv, NEW i \in Phil, take_condvar_enter(i)
  PROVE  IInv'
<1>1. /\ phase = "condvar" /\ pc[i] = "thinking" /\ ~Asleep(i) /\ pc' = [pc EXCEPT ![i] = "mtake"]
      /\ down(i, mtmutex, "mtake")
      /\ UNCHANGED <<phase, state, next_count, count, iter, ret>>
  BY DEF take_condvar_enter, At, down, Goto, IInv, TypeOK, Phases, SemaPcs, CondvarPcs
<1>2. pc \in [Phil -> SemaPcs \cup CondvarPcs] BY DEF IInv, TypeOK
<1>3. Needs(i, mtmutex)' BY <1>1, <1>2 DEF Needs, mutex, mtmutex, mtnext, s, cv
<1>4. /\ sem' \in SemSpace /\ QueuesDistinct(sem') /\ WaitsRight'
      /\ \A y \in Sems : y # mtmutex => sem'[y].value = sem[y].value
      /\ \/ /\ sem[mtmutex].value > 0 /\ sem'[mtmutex].value = sem[mtmutex].value - 1
            /\ \A j \in Phil : Asleep(j)' <=> Asleep(j)
         \/ /\ sem[mtmutex].value = 0 /\ sem'[mtmutex].value = 0
            /\ \A j \in Phil : Asleep(j)' <=> Asleep(j) \/ j = i
  BY <1>1, <1>3, SemsApart, DownIs
<1>5. TypeOK' BY <1>1, <1>4 DEF IInv, TypeOK, SemaPcs, CondvarPcs
<1>6. Phases' BY <1>1, <1>2 DEF IInv, Phases, SemaPcs, CondvarPcs
<1>7. Apart(state)' BY <1>1 DEF IInv, Apart
<1>8. SemaInv' BY <1>1 DEF SemaInv
<1>9. CondvarInv'
  <2>1. MonitorHeld /\ (\A j \in Phil : CondvarState(j)) /\ next_count = Cardinality(Signallers)
    BY <1>1 DEF IInv, CondvarInv
  <2>2. ASSUME NEW j \in Phil PROVE CondvarState(j)'
    <3>1. CondvarState(j) /\ CondvarState(i) BY <2>1
    <3>2. CASE j = i
      <4>1. /\ pc'[i] = "mtake" /\ state' = state /\ count' = count /\ ret' = ret
            /\ sem'[cv(i)].value = IF mtmutex = cv(i) /\ sem[cv(i)].value > 0 THEN sem[cv(i)].value - 1 ELSE sem[cv(i)].value
            /\ Asleep(i)' <=> sem[mtmutex].value = 0
        BY <1>1, <1>2, <1>4, SemsApart
      <4>2. cv(i)' = cv(i) BY DEF cv
      <4>3. QED BY <1>1, <3>1, <3>2, <4>1, <4>2, SemsApart DEF CondvarState
    <3>3. CASE j # i
      <4>1. sem'[cv(j)].value = sem[cv(j)].value /\ pc'[j] = pc[j] /\ (Asleep(j)' <=> Asleep(j))
        BY <1>1, <1>2, <1>4, <3>3, SemsApart
      <4>2. QED BY <4>1, <3>1, <1>1 DEF CondvarState, cv
    <3>4. QED BY <3>2, <3>3
  <2>3. \A j \in Phil : IsActive(j)' => IsActive(j) \/ (j = i /\ sem[mtmutex].value > 0)
    BY <1>1, <1>2, <1>4 DEF IsActive, Inside
  <2>4. MonitorHeld'
    <3>a. mtmutex \in MonSems /\ MonSems \subseteq Sems BY SemsApart
    <3>b. \A y \in MonSems : sem[y].value \in Nat /\ sem'[y].value \in Nat
      BY <1>4, <3>a DEF IInv, TypeOK, SemSpace
    <3>c. \A y \in MonSems : /\ sem'[y].value > 0 => sem[y].value > 0
                             /\ sem'[y].value <= sem[y].value
      BY <1>4, <3>a, <3>b
    <3>d. sem'[mtmutex].value = 0 BY <1>4, <2>1, <3>a, <3>b DEF MonitorHeld
    <3>1. /\ \A j, k \in Phil : IsActive(j)' /\ IsActive(k)' => j = k
          /\ \A y, z \in MonSems : sem'[y].value > 0 /\ sem'[z].value > 0 => y = z
          /\ \A y \in MonSems : sem'[y].value <= 1
      BY <2>1, <2>3, <3>a, <3>b, <3>c DEF MonitorHeld
    <3>e. ASSUME NEW y \in MonSems, sem'[y].value > 0, NEW j \in Phil PROVE ~IsActive(j)'
      <4>1. sem[y].value > 0 /\ y # mtmutex BY <3>b, <3>c, <3>d, <3>e
      <4>2. ~IsActive(j) /\ ~(sem[mtmutex].value > 0) BY <4>1, <2>1, <3>a DEF MonitorHeld
      <4>3. QED BY <4>2, <2>3
    <3>2. MonSems' = MonSems BY DEF MonSems, mtmutex, mtnext, cv
    <3>3. QED BY <3>1, <3>2, <3>e DEF MonitorHeld
  <2>5. Signallers' = Signallers BY <1>1, <1>2 DEF Signallers
  <2>6. QED BY <1>1, <2>1, <2>2, <2>4, <2>5 DEF CondvarInv
<1>10. QED BY <1>4, <1>5, <1>6, <1>7, <1>8, <1>9 DEF IInv

LEMMA cond_wait_down_keeps ==
  ASSUME IInv, NEW i \in Phil, cond_wait_down(i)
  PROVE  IInv'
<1>1. /\ phase = "condvar" /\ pc[i] = "mwait" /\ ~Asleep(i) /\ pc' = [pc EXCEPT ![i] = "mwoken"]
      /\ down(i, cv(i), "mwoken")
      /\ UNCHANGED <<phase, state, next_count, count, iter, ret>>
  BY DEF cond_wait_down, At, down, Goto, IInv, TypeOK, Phases, SemaPcs, CondvarPcs
<1>2. pc \in [Phil -> SemaPcs \cup CondvarPcs] BY DEF IInv, TypeOK
<1>3. Needs(i, cv(i))' BY <1>1, <1>2 DEF Needs, mutex, mtmutex, mtnext, s, cv
<1>4. /\ sem' \in SemSpace /\ QueuesDistinct(sem') /\ WaitsRight'
      /\ \A y \in Sems : y # cv(i) => sem'[y].value = sem[y].value
      /\ \/ /\ sem[cv(i)].value > 0 /\ sem'[cv(i)].value = sem[cv(i)].value - 1
            /\ \A j \in Phil : Asleep(j)' <=> Asleep(j)
         \/ /\ sem[cv(i)].value = 0 /\ sem'[cv(i)].value = 0
            /\ \A j \in Phil : Asleep(j)' <=> Asleep(j) \/ j = i
  BY <1>1, <1>3, SemsApart, DownIs
<1>5. TypeOK' BY <1>1, <1>4 DEF IInv, TypeOK, SemaPcs, CondvarPcs
<1>6. Phases' BY <1>1, <1>2 DEF IInv, Phases, SemaPcs, CondvarPcs
<1>7. Apart(state)' BY <1>1 DEF IInv, Apart
<1>8. SemaInv' BY <1>1 DEF SemaInv
<1>9. CondvarInv'
  <2>1. MonitorHeld /\ (\A j \in Phil : CondvarState(j)) /\ next_count = Cardinality(Signallers)
    BY <1>1 DEF IInv, CondvarInv
  <2>2. ASSUME NEW j \in Phil PROVE CondvarState(j)'
    <3>1. CondvarState(j) /\ CondvarState(i) BY <2>1
    <3>2. CASE j = i
      <4>1. /\ pc'[i] = "mwoken" /\ state' = state /\ count' = count /\ ret' = ret
            /\ sem'[cv(i)].value = IF cv(i) = cv(i) /\ sem[cv(i)].value > 0 THEN sem[cv(i)].value - 1 ELSE sem[cv(i)].value
            /\ Asleep(i)' <=> sem[cv(i)].value = 0
        BY <1>1, <1>2, <1>4, SemsApart
      <4>2. cv(i)' = cv(i) BY DEF cv
      <4>3. QED BY <1>1, <3>1, <3>2, <4>1, <4>2, SemsApart DEF CondvarState
    <3>3. CASE j # i
      <4>1. sem'[cv(j)].value = sem[cv(j)].value /\ pc'[j] = pc[j] /\ (Asleep(j)' <=> Asleep(j))
        BY <1>1, <1>2, <1>4, <3>3, SemsApart
      <4>2. QED BY <4>1, <3>1, <1>1 DEF CondvarState, cv
    <3>4. QED BY <3>2, <3>3
  <2>3. \A j \in Phil : IsActive(j)' => IsActive(j) \/ (j = i /\ sem[cv(i)].value > 0)
    BY <1>1, <1>2, <1>4 DEF IsActive, Inside
  <2>4. MonitorHeld'
    <3>a. cv(i) \in MonSems /\ MonSems \subseteq Sems BY SemsApart
    <3>b. \A y \in MonSems : sem[y].value \in Nat /\ sem'[y].value \in Nat
      BY <1>4, <3>a DEF IInv, TypeOK, SemSpace
    <3>c. \A y \in MonSems : /\ sem'[y].value > 0 => sem[y].value > 0
                             /\ sem'[y].value <= sem[y].value
      BY <1>4, <3>a, <3>b
    <3>d. sem'[cv(i)].value = 0 BY <1>4, <2>1, <3>a, <3>b DEF MonitorHeld
    <3>1. /\ \A j, k \in Phil : IsActive(j)' /\ IsActive(k)' => j = k
          /\ \A y, z \in MonSems : sem'[y].value > 0 /\ sem'[z].value > 0 => y = z
          /\ \A y \in MonSems : sem'[y].value <= 1
      BY <2>1, <2>3, <3>a, <3>b, <3>c DEF MonitorHeld
    <3>e. ASSUME NEW y \in MonSems, sem'[y].value > 0, NEW j \in Phil PROVE ~IsActive(j)'
      <4>1. sem[y].value > 0 /\ y # cv(i) BY <3>b, <3>c, <3>d, <3>e
      <4>2. ~IsActive(j) /\ ~(sem[cv(i)].value > 0) BY <4>1, <2>1, <3>a DEF MonitorHeld
      <4>3. QED BY <4>2, <2>3
    <3>2. MonSems' = MonSems BY DEF MonSems, mtmutex, mtnext, cv
    <3>3. QED BY <3>1, <3>2, <3>e DEF MonitorHeld
  <2>5. Signallers' = Signallers BY <1>1, <1>2 DEF Signallers
  <2>6. QED BY <1>1, <2>1, <2>2, <2>4, <2>5 DEF CondvarInv
<1>10. QED BY <1>4, <1>5, <1>6, <1>7, <1>8, <1>9 DEF IInv

LEMMA put_condvar_enter_keeps ==
  ASSUME IInv, NEW i \in Phil, put_condvar_enter(i)
  PROVE  IInv'
<1>1. /\ phase = "condvar" /\ pc[i] = "eating" /\ ~Asleep(i) /\ pc' = [pc EXCEPT ![i] = "mput"]
      /\ down(i, mtmutex, "mput")
      /\ UNCHANGED <<phase, state, next_count, count, iter, ret>>
  BY DEF put_condvar_enter, At, down, Goto, IInv, TypeOK, Phases, SemaPcs, CondvarPcs
<1>2. pc \in [Phil -> SemaPcs \cup CondvarPcs] BY DEF IInv, TypeOK
<1>3. Needs(i, mtmutex)' BY <1>1, <1>2 DEF Needs, mutex, mtmutex, mtnext, s, cv
<1>4. /\ sem' \in SemSpace /\ QueuesDistinct(sem') /\ WaitsRight'
      /\ \A y \in Sems : y # mtmutex => sem'[y].value = sem[y].value
      /\ \/ /\ sem[mtmutex].value > 0 /\ sem'[mtmutex].value = sem[mtmutex].value - 1
            /\ \A j \in Phil : Asleep(j)' <=> Asleep(j)
         \/ /\ sem[mtmutex].value = 0 /\ sem'[mtmutex].value = 0
            /\ \A j \in Phil : Asleep(j)' <=> Asleep(j) \/ j = i
  BY <1>1, <1>3, SemsApart, DownIs
<1>5. TypeOK' BY <1>1, <1>4 DEF IInv, TypeOK, SemaPcs, CondvarPcs
<1>6. Phases' BY <1>1, <1>2 DEF IInv, Phases, SemaPcs, CondvarPcs
<1>7. Apart(state)' BY <1>1 DEF IInv, Apart
<1>8. SemaInv' BY <1>1 DEF SemaInv
<1>9. CondvarInv'
  <2>1. MonitorHeld /\ (\A j \in Phil : CondvarState(j)) /\ next_count = Cardinality(Signallers)
    BY <1>1 DEF IInv, CondvarInv
  <2>2. ASSUME NEW j \in Phil PROVE CondvarState(j)'
    <3>1. CondvarState(j) /\ CondvarState(i) BY <2>1
    <3>2. CASE j = i
      <4>1. /\ pc'[i] = "mput" /\ state' = state /\ count' = count /\ ret' = ret
            /\ sem'[cv(i)].value = IF mtmutex = cv(i) /\ sem[cv(i)].value > 0 THEN sem[cv(i)].value - 1 ELSE sem[cv(i)].value
            /\ Asleep(i)' <=> sem[mtmutex].value = 0
        BY <1>1, <1>2, <1>4, SemsApart
      <4>2. cv(i)' = cv(i) BY DEF cv
      <4>3. QED BY <1>1, <3>1, <3>2, <4>1, <4>2, SemsApart DEF CondvarState
    <3>3. CASE j # i
      <4>1. sem'[cv(j)].value = sem[cv(j)].value /\ pc'[j] = pc[j] /\ (Asleep(j)' <=> Asleep(j))
        BY <1>1, <1>2, <1>4, <3>3, SemsApart
      <4>2. QED BY <4>1, <3>1, <1>1 DEF CondvarState, cv
    <3>4. QED BY <3>2, <3>3
  <2>3. \A j \in Phil : IsActive(j)' => IsActive(j) \/ (j = i /\ sem[mtmutex].value > 0)
    BY <1>1, <1>2, <1>4 DEF IsActive, Inside
  <2>4. MonitorHeld'
    <3>a. mtmutex \in MonSems /\ MonSems \subseteq Sems BY SemsApart
    <3>b. \A y \in MonSems : sem[y].value \in Nat /\ sem'[y].value \in Nat
      BY <1>4, <3>a DEF IInv, TypeOK, SemSpace
    <3>c. \A y \in MonSems : /\ sem'[y].value > 0 => sem[y].value > 0
                             /\ sem'[y].value <= sem[y].value
      BY <1>4, <3>a, <3>b
    <3>d. sem'[mtmutex].value = 0 BY <1>4, <2>1, <3>a, <3>b DEF MonitorHeld
    <3>1. /\ \A j, k \in Phil : IsActive(j)' /\ IsActive(k)' => j = k
          /\ \A y, z \in MonSems : sem'[y].value > 0 /\ sem'[z].value > 0 => y = z
          /\ \A y \in MonSems : sem'[y].value <= 1
      BY <2>1, <2>3, <3>a, <3>b, <3>c DEF MonitorHeld
    <3>e. ASSUME NEW y \in MonSems, sem'[y].value > 0, NEW j \in Phil PROVE ~IsActive(j)'
      <4>1. sem[y].value > 0 /\ y # mtmutex BY <3>b, <3>c, <3>d, <3>e
      <4>2. ~IsActive(j) /\ ~(sem[mtmutex].value > 0) BY <4>1, <2>1, <3>a DEF MonitorHeld
      <4>3. QED BY <4>2, <2>3
    <3>2. MonSems' = MonSems BY DEF MonSems, mtmutex, mtnext, cv
    <3>3. QED BY <3>1, <3>2, <3>e DEF MonitorHeld
  <2>5. Signallers' = Signallers BY <1>1, <1>2 DEF Signallers
  <2>6. QED BY <1>1, <2>1, <2>2, <2>4, <2>5 DEF CondvarInv
<1>10. QED BY <1>4, <1>5, <1>6, <1>7, <1>8, <1>9 DEF IInv

LEMMA cond_signal_wait_keeps ==
  ASSUME IInv, NEW i \in Phil, cond_signal_wait(i)
  PROVE  IInv'
<1>1. /\ phase = "condvar" /\ pc[i] = "signal" /\ ~Asleep(i) /\ pc' = [pc EXCEPT ![i] = "signalled"]
      /\ down(i, mtnext, "signalled")
      /\ UNCHANGED <<phase, state, next_count, count, iter, ret>>
  BY DEF cond_signal_wait, At, down, Goto, IInv, TypeOK, Phases, SemaPcs, CondvarPcs
<1>2. pc \in [Phil -> SemaPcs \cup CondvarPcs] BY DEF IInv, TypeOK
<1>3. Needs(i, mtnext)' BY <1>1, <1>2 DEF Needs, mutex, mtmutex, mtnext, s, cv
<1>4. /\ sem' \in SemSpace /\ QueuesDistinct(sem') /\ WaitsRight'
      /\ \A y \in Sems : y # mtnext => sem'[y].value = sem[y].value
      /\ \/ /\ sem[mtnext].value > 0 /\ sem'[mtnext].value = sem[mtnext].value - 1
            /\ \A j \in Phil : Asleep(j)' <=> Asleep(j)
         \/ /\ sem[mtnext].value = 0 /\ sem'[mtnext].value = 0
            /\ \A j \in Phil : Asleep(j)' <=> Asleep(j) \/ j = i
  BY <1>1, <1>3, SemsApart, DownIs
<1>5. TypeOK' BY <1>1, <1>4 DEF IInv, TypeOK, SemaPcs, CondvarPcs
<1>6. Phases' BY <1>1, <1>2 DEF IInv, Phases, SemaPcs, CondvarPcs
<1>7. Apart(state)' BY <1>1 DEF IInv, Apart
<1>8. SemaInv' BY <1>1 DEF SemaInv
<1>9. CondvarInv'
  <2>1. MonitorHeld /\ (\A j \in Phil : CondvarState(j)) /\ next_count = Cardinality(Signallers)
    BY <1>1 DEF IInv, CondvarInv
  <2>2. ASSUME NEW j \in Phil PROVE CondvarState(j)'
    <3>1. CondvarState(j) /\ CondvarState(i) BY <2>1
    <3>2. CASE j = i
      <4>1. /\ pc'[i] = "signalled" /\ state' = state /\ count' = count /\ ret' = ret
            /\ sem'[cv(i)].value = IF mtnext = cv(i) /\ sem[cv(i)].value > 0 THEN sem[cv(i)].value - 1 ELSE sem[cv(i)].value
            /\ Asleep(i)' <=> sem[mtnext].value = 0
        BY <1>1, <1>2, <1>4, SemsApart
      <4>2. cv(i)' = cv(i) BY DEF cv
      <4>3. QED BY <1>1, <3>1, <3>2, <4>1, <4>2, SemsApart DEF CondvarState
    <3>3. CASE j # i
      <4>1. sem'[cv(j)].value = sem[cv(j)].value /\ pc'[j] = pc[j] /\ (Asleep(j)' <=> Asleep(j))
        BY <1>1, <1>2, <1>4, <3>3, SemsApart
      <4>2. QED BY <4>1, <3>1, <1>1 DEF CondvarState, cv
    <3>4. QED BY <3>2, <3>3
  <2>3. \A j \in Phil : IsActive(j)' => IsActive(j) \/ (j = i /\ sem[mtnext].value > 0)
    BY <1>1, <1>2, <1>4 DEF IsActive, Inside
  <2>4. MonitorHeld'
    <3>a. mtnext \in MonSems /\ MonSems \subseteq Sems BY SemsApart
    <3>b. \A y \in MonSems : sem[y].value \in Nat /\ sem'[y].value \in Nat
      BY <1>4, <3>a DEF IInv, TypeOK, SemSpace
    <3>c. \A y \in MonSems : /\ sem'[y].value > 0 => sem[y].value > 0
                             /\ sem'[y].value <= sem[y].value
      BY <1>4, <3>a, <3>b
    <3>d. sem'[mtnext].value = 0 BY <1>4, <2>1, <3>a, <3>b DEF MonitorHeld
    <3>1. /\ \A j, k \in Phil : IsActive(j)' /\ IsActive(k)' => j = k
          /\ \A y, z \in MonSems : sem'[y].value > 0 /\ sem'[z].value > 0 => y = z
          /\ \A y \in MonSems : sem'[y].value <= 1
      BY <2>1, <2>3, <3>a, <3>b, <3>c DEF MonitorHeld
    <3>e. ASSUME NEW y \in MonSems, sem'[y].value > 0, NEW j \in Phil PROVE ~IsActive(j)'
      <4>1. sem[y].value > 0 /\ y # mtnext BY <3>b, <3>c, <3>d, <3>e
      <4>2. ~IsActive(j) /\ ~(sem[mtnext].value > 0) BY <4>1, <2>1, <3>a DEF MonitorHeld
      <4>3. QED BY <4>2, <2>3
    <3>2. MonSems' = MonSems BY DEF MonSems, mtmutex, mtnext, cv
    <3>3. QED BY <3>1, <3>2, <3>e DEF MonitorHeld
  <2>5. Signallers' = Signallers BY <1>1, <1>2 DEF Signallers
  <2>6. QED BY <1>1, <2>1, <2>2, <2>4, <2>5 DEF CondvarInv
<1>10. QED BY <1>4, <1>5, <1>6, <1>7, <1>8, <1>9 DEF IInv

-----------------------------------------------------------------------------
\* up(mutex) by the philosopher that holds it, after other semaphores changed.
LEMMA MutexUp ==
  ASSUME IInv, phase = "sema", NEW i \in Phil, InMutex(i), NEW f, SemsOK(f), sem' = up(f, mutex),
         f[mutex].value = sem[mutex].value,
         \A j \in Phil : pc[j] # "eating" => (SleepsIn(f, j) <=> Asleep(j)),
         NEW l, l \notin {"take", "put"}, pc' = [pc EXCEPT ![i] = l], phase' = phase
  PROVE  /\ sem' \in SemSpace /\ QueuesDistinct(sem') /\ WaitsRight' /\ MutexHeld'
         /\ \A y \in Sems : y # mutex => sem'[y].value = f[y].value
         /\ \A j \in Phil : pc[j] = "eating" => (Asleep(j)' <=> SleepsIn(f, j))
<1>1. pc \in [Phil -> SemaPcs \cup CondvarPcs] BY DEF IInv, TypeOK
<1>2. MutexHeld BY DEF IInv, SemaInv
<1>3. pc[i] \in {"take", "put"} /\ ~Asleep(i) BY DEF InMutex
<1>4. /\ SemsOK(sem')
      /\ \A y \in Sems : y # mutex => sem'[y].value = f[y].value
      /\ \/ /\ sem'[mutex].value = f[mutex].value + 1
            /\ \A j \in Phil : SleepsIn(sem', j) <=> SleepsIn(f, j)
            /\ \A j \in Phil : Needs(j, mutex) => ~SleepsIn(f, j)
         \/ \E h \in Phil :
              /\ Needs(h, mutex) /\ SleepsIn(f, h)
              /\ sem'[mutex].value = f[mutex].value
              /\ \A j \in Phil : SleepsIn(sem', j) <=> SleepsIn(f, j) /\ j # h
  <2>1. mutex \in Sems BY SemsApart
  <2>2. QED BY <2>1, UpIs
<1>5. ~SleepsIn(sem', i) BY <1>3, <1>4
<1>6. /\ QueuesDistinct(sem') /\ sem' \in SemSpace /\ WaitsRight'
      /\ \A j \in Phil : Asleep(j)' <=> SleepsIn(sem', j)
  BY <1>4, <1>5, StillRight
<1>7. sem[mutex].value = 0 BY <1>2, SemsApart DEF MutexHeld, IInv, TypeOK, SemSpace
<1>8. mutex' = mutex BY DEF mutex
<1>9. \A j \in Phil : Needs(j, mutex) <=> pc[j] \in {"take", "put"}
  BY SemsApart DEF Needs
<1>10. CASE /\ sem'[mutex].value = f[mutex].value + 1
            /\ \A j \in Phil : SleepsIn(sem', j) <=> SleepsIn(f, j)
            /\ \A j \in Phil : Needs(j, mutex) => ~SleepsIn(f, j)
  <2>1. \A j \in Phil : InMutex(j)' => InMutex(j) /\ j # i
    BY <1>1, <1>6, <1>10 DEF InMutex
  <2>2. \A j \in Phil : ~InMutex(j)' BY <2>1, <1>2 DEF MutexHeld
  <2>3. sem'[mutex].value = 1 BY <1>7, <1>10
  <2>4. MutexHeld' BY <2>2, <2>3, <1>8 DEF MutexHeld
  <2>5. QED BY <2>4, <1>4, <1>6, <1>10
<1>11. CASE \E h \in Phil :
              /\ Needs(h, mutex) /\ SleepsIn(f, h)
              /\ sem'[mutex].value = f[mutex].value
              /\ \A j \in Phil : SleepsIn(sem', j) <=> SleepsIn(f, j) /\ j # h
  <2>1. PICK h \in Phil :
          /\ Needs(h, mutex) /\ SleepsIn(f, h)
          /\ sem'[mutex].value = f[mutex].value
          /\ \A j \in Phil : SleepsIn(sem', j) <=> SleepsIn(f, j) /\ j # h
    BY <1>11
  <2>2. ASSUME NEW j \in Phil, InMutex(j)' PROVE j = h
    <3>1. j # i /\ pc[j] \in {"take", "put"} BY <2>2, <1>1 DEF InMutex
    <3>2. CASE InMutex(j) BY <3>1, <3>2, <1>2 DEF MutexHeld
    <3>3. CASE Asleep(j)
      <4>1. SleepsIn(f, j) /\ ~SleepsIn(sem', j) BY <3>1, <3>3, <2>2, <1>6 DEF InMutex
      <4>2. QED BY <4>1, <2>1
    <3>4. QED BY <3>1, <3>2, <3>3 DEF InMutex
  <2>3. sem'[mutex].value = 0 BY <2>1, <1>7
  <2>4. MutexHeld' BY <2>2, <2>3, <1>8 DEF MutexHeld
  <2>5. \A j \in Phil : pc[j] = "eating" => j # h BY <2>1, <1>9
  <2>6. QED BY <2>1, <2>4, <2>5, <1>4, <1>6
<1>12. QED BY <1>4, <1>10, <1>11

\* phi_test_sema serves a hungry philosopher: the token waits for it, or it wakes.
LEMMA Serve ==
  ASSUME IInv, phase = "sema", NEW f, SemsOK(f), NEW j \in Phil, state[j] = "HUNGRY",
         f[s(j)].value = sem[s(j)].value, SleepsIn(f, j) <=> Asleep(j)
  PROVE  /\ SemsOK(up(f, s(j)))
         /\ \A y \in Sems : y # s(j) => up(f, s(j))[y].value = f[y].value
         /\ \A k \in Phil : k # j => (SleepsIn(up(f, s(j)), k) <=> SleepsIn(f, k))
         /\ \/ pc[j] = "taken" /\ up(f, s(j))[s(j)].value = 1
            \/ /\ pc[j] = "eating" /\ up(f, s(j))[s(j)].value = 0
               /\ ~SleepsIn(up(f, s(j)), j)
<1> DEFINE g == up(f, s(j))
<1>1. /\ SemsOK(g)
      /\ \A y \in Sems : y # s(j) => g[y].value = f[y].value
      /\ \/ /\ g[s(j)].value = f[s(j)].value + 1
            /\ \A k \in Phil : SleepsIn(g, k) <=> SleepsIn(f, k)
            /\ \A k \in Phil : Needs(k, s(j)) => ~SleepsIn(f, k)
         \/ \E h \in Phil :
              /\ Needs(h, s(j)) /\ SleepsIn(f, h)
              /\ g[s(j)].value = f[s(j)].value
              /\ \A k \in Phil : SleepsIn(g, k) <=> SleepsIn(f, k) /\ k # h
  <2>1. s(j) \in Sems BY SemsApart
  <2>2. QED BY <2>1, UpIs
<1> HIDE DEF g
<1>2. \A k \in Phil : Needs(k, s(j)) <=> k = j /\ pc[j] = "eating" BY SemsApart DEF Needs
<1>3. /\ sem[s(j)].value = 0
      /\ pc[j] = "taken" \/ (pc[j] = "eating" /\ Asleep(j))
  BY DEF IInv, SemaInv, SemaState
<1>4. QED BY <1>1, <1>2, <1>3 DEF g

LEMMA take_sema_keeps ==
  ASSUME IInv, NEW i \in Phil, take_sema(i)
  PROVE  IInv'
<1> DEFINE st == [state EXCEPT ![i] = "HUNGRY"]
<1> DEFINE ok == MayEat(st, i)
<1> DEFINE f == IF ok THEN up(sem, s(i)) ELSE sem
<1>1. /\ phase = "sema" /\ pc[i] = "take" /\ ~Asleep(i) /\ pc' = [pc EXCEPT ![i] = "taken"]
      /\ state' = (IF ok THEN [st EXCEPT ![i] = "EATING"] ELSE st)
      /\ sem' = up(f, mutex)
      /\ UNCHANGED <<phase, next_count, count, iter, ret>>
  BY DEF take_sema, At, Goto, IInv, TypeOK, Phases, CondvarPcs
<1>2. /\ pc \in [Phil -> SemaPcs \cup CondvarPcs]
      /\ state \in [Phil -> {"THINKING", "HUNGRY", "EATING"}]
  BY DEF IInv, TypeOK
<1>3. SemaInv /\ SemaState(i) /\ SemsOK(sem) /\ Apart(state) BY <1>1, SemsOKNow DEF IInv, SemaInv
<1>4. Apart(state)'
  <2>1. st \in [Phil -> {"THINKING", "HUNGRY", "EATING"}] /\ Apart(st) BY <1>2, <1>3, NotEatApart
  <2> HIDE DEF st
  <2>2. Apart(state') BY <2>1, <1>1, EatApart
  <2>3. QED BY <2>2 DEF Apart
<1>5. state'[i] = (IF ok THEN "EATING" ELSE "HUNGRY") /\ \A j \in Phil : j # i => state'[j] = state[j]
  BY <1>1, <1>2
<1>6. state' \in [Phil -> {"THINKING", "HUNGRY", "EATING"}] BY <1>1, <1>2
<1> HIDE DEF ok, st
<1>7. /\ SemsOK(f)
      /\ \A y \in Sems : y # s(i) => f[y].value = sem[y].value
      /\ f[s(i)].value = IF ok THEN 1 ELSE 0
      /\ \A j \in Phil : SleepsIn(f, j) <=> Asleep(j)
  <2>1. sem[s(i)].value = 0 BY <1>1, <1>3 DEF SemaState
  <2>2. CASE ~ok BY <1>3, <2>1, <2>2, AsleepIs
  <2>3. CASE ok
    <3>1. f = up(sem, s(i)) BY <2>3
    <3>2. /\ SemsOK(f)
          /\ \A y \in Sems : y # s(i) => f[y].value = sem[y].value
          /\ \/ /\ f[s(i)].value = sem[s(i)].value + 1
                /\ \A k \in Phil : SleepsIn(f, k) <=> SleepsIn(sem, k)
             \/ \E h \in Phil : Needs(h, s(i))
      <4> HIDE DEF f
      <4>1. QED BY <3>1, <1>3, SemsApart, UpIs
    <3>3. \A h \in Phil : ~Needs(h, s(i)) BY <1>1, SemsApart DEF Needs
    <3> HIDE DEF f
    <3>4. QED BY <3>2, <3>3, <2>1, <2>3, AsleepIs
  <2>4. QED BY <2>2, <2>3
<1> HIDE DEF f
<1>8. /\ sem' \in SemSpace /\ QueuesDistinct(sem') /\ WaitsRight' /\ MutexHeld'
      /\ \A y \in Sems : y # mutex => sem'[y].value = f[y].value
      /\ \A j \in Phil : pc[j] = "eating" => (Asleep(j)' <=> Asleep(j))
  <2>1. InMutex(i) /\ f[mutex].value = sem[mutex].value BY <1>1, <1>7, SemsApart DEF InMutex
  <2>2. QED BY <1>1, <1>7, <2>1, MutexUp
<1>9. TypeOK' BY <1>1, <1>6, <1>8 DEF IInv, TypeOK, SemaPcs
<1>10. Phases' BY <1>1, <1>2 DEF IInv, Phases, SemaPcs
<1>11. ASSUME NEW j \in Phil PROVE SemaState(j)'
  <2>1. sem'[s(j)].value = f[s(j)].value /\ s(j)' = s(j) BY <1>8, SemsApart DEF s
  <2>2. CASE j = i BY <2>1, <2>2, <1>1, <1>2, <1>5, <1>7 DEF SemaState
  <2>3. CASE j # i
    <3>1. SemaState(j) BY <1>1, <1>3 DEF SemaInv
    <3>2. sem'[s(j)].value = sem[s(j)].value /\ pc'[j] = pc[j] /\ state'[j] = state[j]
      BY <2>1, <2>3, <1>1, <1>2, <1>5, <1>7, SemsApart
    <3>3. QED BY <2>1, <3>1, <3>2, <1>8 DEF SemaState
  <2>4. QED BY <2>2, <2>3
<1>12. SemaInv'
  <2>1. \A y \in MonSems : sem'[y].value = 0 BY <1>1, <1>3, <1>7, <1>8, SemsApart DEF SemaInv
  <2>2. MonSems' = MonSems BY DEF MonSems, mtmutex, mtnext, cv
  <2>3. QED BY <1>1, <1>3, <1>8, <1>11, <2>1, <2>2 DEF SemaInv
<1>13. CondvarInv' BY <1>1 DEF CondvarInv
<1>14. QED BY <1>4, <1>8, <1>9, <1>10, <1>12, <1>13 DEF IInv

LEMMA put_sema_keeps ==
  ASSUME IInv, NEW i \in Phil, put_sema(i)
  PROVE  IInv'
<1> DEFINE L == LEFT(i)
<1> DEFINE R == RIGHT(i)
<1> DEFINE st0 == [state EXCEPT ![i] = "THINKING"]
<1> DEFINE l == MayEat(st0, L)
<1> DEFINE st1 == IF l THEN [st0 EXCEPT ![L] = "EATING"] ELSE st0
<1> DEFINE r == MayEat(st1, R)
<1> DEFINE f == IF l THEN up(sem, s(L)) ELSE sem
<1> DEFINE g == IF r THEN up(f, s(R)) ELSE f
<1>1. /\ phase = "sema" /\ pc[i] = "put" /\ ~Asleep(i) /\ pc' = [pc EXCEPT ![i] = AfterMeal(i)]
      /\ state' = (IF r THEN [st1 EXCEPT ![R] = "EATING"] ELSE st1)
      /\ sem' = up(g, mutex) /\ iter' = [iter EXCEPT ![i] = @ + 1]
      /\ UNCHANGED <<phase, next_count, count, ret>>
  BY DEF put_sema, At, Goto, IInv, TypeOK, Phases, CondvarPcs
<1>2. /\ pc \in [Phil -> SemaPcs \cup CondvarPcs]
      /\ state \in [Phil -> {"THINKING", "HUNGRY", "EATING"}]
      /\ iter \in [Phil -> Nat]
  BY DEF IInv, TypeOK
<1>3. SemaInv /\ SemaState(i) /\ SemsOK(sem) /\ Apart(state) BY <1>1, SemsOKNow DEF IInv, SemaInv
<1>4. L \in Phil /\ R \in Phil /\ L # i /\ R # i /\ L # R BY Neighbours
<1>5. AfterMeal(i) \in {"thinking", "quit"} BY DEF AfterMeal
<1> HIDE DEF L, R
<1>6. /\ st0 \in [Phil -> {"THINKING", "HUNGRY", "EATING"}] /\ Apart(st0)
      /\ st0[i] = "THINKING" /\ \A j \in Phil : j # i => st0[j] = state[j]
  BY <1>2, <1>3, NotEatApart
<1> HIDE DEF st0
<1>7. /\ st1 \in [Phil -> {"THINKING", "HUNGRY", "EATING"}] /\ Apart(st1)
      /\ l => state[L] = "HUNGRY"
      /\ st1[L] = (IF l THEN "EATING" ELSE st0[L]) /\ \A j \in Phil : j # L => st1[j] = st0[j]
  BY <1>4, <1>6, EatApart DEF MayEat
<1> HIDE DEF st1, l
<1>8. /\ state' \in [Phil -> {"THINKING", "HUNGRY", "EATING"}] /\ Apart(state')
      /\ r => state[R] = "HUNGRY"
      /\ state'[i] = "THINKING"
      /\ state'[L] = (IF l THEN "EATING" ELSE state[L])
      /\ state'[R] = (IF r THEN "EATING" ELSE state[R])
      /\ \A j \in Phil : j \notin {i, L, R} => state'[j] = state[j]
  BY <1>1, <1>4, <1>6, <1>7, EatApart DEF MayEat
<1> HIDE DEF r
<1>9. Apart(state)' BY <1>8 DEF Apart
<1> DEFINE Served(e, j) == \/ pc[j] = "taken" /\ e[s(j)].value = 1
                           \/ pc[j] = "eating" /\ e[s(j)].value = 0 /\ ~SleepsIn(e, j)
<1> DEFINE Same(e, j) == e[s(j)].value = sem[s(j)].value /\ (SleepsIn(e, j) <=> Asleep(j))
<1>10. /\ SemsOK(f)
       /\ \A y \in Sems : y # s(L) => f[y].value = sem[y].value
       /\ \A j \in Phil : j # L => Same(f, j)
       /\ IF l THEN Served(f, L) ELSE Same(f, L)
  <2>1. \A j \in Phil : Same(sem, j) BY AsleepIs
  <2>2. CASE ~l
    <3>1. f = sem BY <2>2
    <3> HIDE DEF f
    <3>2. QED BY <3>1, <2>1, <2>2, <1>3, <1>4
  <2>3. CASE l
    <3>1. f = up(sem, s(L)) BY <2>3
    <3>2. /\ SemsOK(f)
          /\ \A y \in Sems : y # s(L) => f[y].value = sem[y].value
          /\ \A k \in Phil : k # L => (SleepsIn(f, k) <=> SleepsIn(sem, k))
          /\ Served(f, L)
      <4> HIDE DEF f
      <4>1. QED BY <3>1, <2>1, <2>3, <1>1, <1>3, <1>4, <1>7, Serve
    <3> HIDE DEF f
    <3>3. QED BY <3>2, <2>1, <2>3, <1>4, SemsApart
  <2>4. QED BY <2>2, <2>3
<1> HIDE DEF f
<1>11. /\ SemsOK(g)
       /\ \A y \in Sems : y # s(L) /\ y # s(R) => g[y].value = sem[y].value
       /\ \A j \in Phil : j # L /\ j # R => Same(g, j)
       /\ IF l THEN Served(g, L) ELSE Same(g, L)
       /\ IF r THEN Served(g, R) ELSE Same(g, R)
  <2>1. CASE ~r BY <2>1, <1>4, <1>10
  <2>2. CASE r
    <3>1. g = up(f, s(R)) BY <2>2
    <3>2. Same(f, R) /\ state[R] = "HUNGRY" BY <2>2, <1>4, <1>8, <1>10
    <3>3. /\ SemsOK(g)
          /\ \A y \in Sems : y # s(R) => g[y].value = f[y].value
          /\ \A k \in Phil : k # R => (SleepsIn(g, k) <=> SleepsIn(f, k))
          /\ Served(g, R)
      <4> HIDE DEF g
      <4>1. QED BY <3>1, <3>2, <1>1, <1>4, <1>10, Serve
    <3> HIDE DEF g
    <3>4. \A j \in Phil : j # R => s(j) \in Sems /\ s(j) # s(R) BY <1>4, SemsApart
    <3>5. QED BY <3>3, <3>4, <2>2, <1>4, <1>10
  <2>3. QED BY <2>1, <2>2
<1> HIDE DEF g
<1>12. \A j \in Phil : pc[j] # "eating" => (SleepsIn(g, j) <=> Asleep(j))
  <2>1. \A j \in Phil : pc[j] = "taken" => ~SleepsIn(g, j) /\ ~Asleep(j)
    <3>1. ASSUME NEW j \in Phil, NEW e, SemsOK(e), pc[j] = "taken" PROVE ~SleepsIn(e, j)
      BY <3>1 DEF SleepsIn, SemsOK, Needs
    <3>2. QED BY <3>1, <1>3, <1>11, AsleepIs
  <2>2. QED BY <2>1, <1>4, <1>11
<1>13. /\ sem' \in SemSpace /\ QueuesDistinct(sem') /\ WaitsRight' /\ MutexHeld'
       /\ \A y \in Sems : y # mutex => sem'[y].value = g[y].value
       /\ \A j \in Phil : pc[j] = "eating" => (Asleep(j)' <=> SleepsIn(g, j))
  <2>1. InMutex(i) /\ g[mutex].value = sem[mutex].value BY <1>1, <1>4, <1>11, SemsApart DEF InMutex
  <2>2. AfterMeal(i) \notin {"take", "put"} BY <1>5
  <2>3. QED BY <1>1, <1>11, <1>12, <2>1, <2>2, MutexUp
<1>14. TypeOK'
  <2>1. iter' \in [Phil -> Nat] BY <1>1, <1>2
  <2>2. pc' \in [Phil -> SemaPcs \cup CondvarPcs] BY <1>1, <1>2, <1>5 DEF SemaPcs
  <2>3. QED BY <2>1, <2>2, <1>1, <1>8, <1>13 DEF IInv, TypeOK
<1>15. Phases' BY <1>1, <1>2, <1>5 DEF IInv, Phases, SemaPcs
<1>16. ASSUME NEW j \in Phil PROVE SemaState(j)'
  <2>1. sem'[s(j)].value = g[s(j)].value /\ s(j)' = s(j) BY <1>13, SemsApart DEF s
  <2>2. SemaState(j) BY <1>1, <1>3 DEF SemaInv
  <2>3. CASE j = i
    <3>1. sem'[s(i)].value = 0 BY <2>1, <2>3, <1>1, <1>3, <1>4, <1>11 DEF SemaState
    <3>2. pc'[i] \in {"thinking", "quit"} BY <1>1, <1>2, <1>5
    <3>3. QED BY <2>1, <2>3, <3>1, <3>2, <1>8 DEF SemaState
  <2>4. CASE j # i
    <3>1. pc'[j] = pc[j] BY <2>4, <1>1, <1>2
    <3>2. CASE Same(g, j) /\ state'[j] = state[j]
      BY <2>1, <2>2, <3>1, <3>2, <1>13 DEF SemaState
    <3>3. CASE Served(g, j) /\ state'[j] = "EATING"
      BY <2>1, <3>1, <3>3, <1>13 DEF SemaState
    <3>4. QED BY <2>4, <3>2, <3>3, <1>4, <1>8, <1>11
  <2>5. QED BY <2>3, <2>4
<1>17. SemaInv'
  <2>1. \A y \in MonSems : sem'[y].value = 0 BY <1>1, <1>3, <1>4, <1>11, <1>13, SemsApart DEF SemaInv
  <2>2. MonSems' = MonSems BY DEF MonSems, mtmutex, mtnext, cv
  <2>3. QED BY <1>1, <1>3, <1>13, <1>16, <2>1, <2>2 DEF SemaInv
<1>18. CondvarInv' BY <1>1 DEF CondvarInv
<1>19. QED BY <1>9, <1>13, <1>14, <1>15, <1>17, <1>18 DEF IInv

-----------------------------------------------------------------------------
\* up() of a semaphore of the monitor by the one that is inside, who is not
\* active afterwards: the monitor is handed over, or its token is kept.
LEMMA MonitorUp ==
  ASSUME IInv, phase = "condvar", NEW i \in Phil, IsActive(i), NEW x \in MonSems,
         sem' = up(sem, x), NEW l, l \notin Inside, pc' = [pc EXCEPT ![i] = l], phase' = phase
  PROVE  /\ sem' \in SemSpace /\ QueuesDistinct(sem') /\ WaitsRight' /\ MonitorHeld'
         /\ sem[x].value = 0 /\ ~Asleep(i)'
         /\ \A y \in Sems : y # x => sem'[y].value = sem[y].value
         /\ \/ /\ sem'[x].value = 1
               /\ \A j \in Phil : Asleep(j)' <=> Asleep(j)
               /\ \A j \in Phil : Needs(j, x) => ~Asleep(j)
            \/ \E h \in Phil :
                 /\ Needs(h, x) /\ Asleep(h)
                 /\ sem'[x].value = 0
                 /\ \A j \in Phil : Asleep(j)' <=> Asleep(j) /\ j # h
<1>1. pc \in [Phil -> SemaPcs \cup CondvarPcs] BY DEF IInv, TypeOK
<1>2. MonitorHeld /\ SemsOK(sem) BY SemsOKNow DEF IInv, CondvarInv
<1>3. pc[i] \in Inside /\ ~Asleep(i) BY DEF IsActive
<1>4. x \in Sems /\ MonSems \subseteq Sems BY SemsApart
<1>5. /\ SemsOK(sem')
      /\ \A y \in Sems : y # x => sem'[y].value = sem[y].value
      /\ \/ /\ sem'[x].value = sem[x].value + 1
            /\ \A j \in Phil : SleepsIn(sem', j) <=> SleepsIn(sem, j)
            /\ \A j \in Phil : Needs(j, x) => ~SleepsIn(sem, j)
         \/ \E h \in Phil :
              /\ Needs(h, x) /\ SleepsIn(sem, h)
              /\ sem'[x].value = sem[x].value
              /\ \A j \in Phil : SleepsIn(sem', j) <=> SleepsIn(sem, j) /\ j # h
  BY <1>2, <1>4, UpIs
<1>6. ~SleepsIn(sem', i) BY <1>3, <1>5, AsleepIs
<1>7. /\ QueuesDistinct(sem') /\ sem' \in SemSpace /\ WaitsRight'
      /\ \A j \in Phil : Asleep(j)' <=> SleepsIn(sem', j)
  BY <1>5, <1>6, StillRight
<1>8. \A y \in MonSems : sem[y].value = 0
  <2>1. \A y \in MonSems : sem[y].value \in Nat BY <1>4 DEF IInv, TypeOK, SemSpace
  <2>2. QED BY <2>1, <1>2 DEF MonitorHeld
<1>9. MonSems' = MonSems BY DEF MonSems, mtmutex, mtnext, cv
<1>10. \A y \in MonSems : y # x => sem'[y].value = 0 BY <1>4, <1>5, <1>8
<1>11. CASE /\ sem'[x].value = sem[x].value + 1
            /\ \A j \in Phil : SleepsIn(sem', j) <=> SleepsIn(sem, j)
            /\ \A j \in Phil : Needs(j, x) => ~SleepsIn(sem, j)
  <2>1. \A j \in Phil : IsActive(j)' => IsActive(j) /\ j # i
    BY <1>1, <1>7, <1>11, AsleepIs DEF IsActive, Inside
  <2>2. \A j \in Phil : ~IsActive(j)' BY <2>1, <1>2 DEF MonitorHeld
  <2>3. sem'[x].value = 1 BY <1>8, <1>11
  <2>4. \A y \in MonSems : sem'[y].value > 0 => y = x BY <1>10
  <2>5. \A y \in MonSems : sem'[y].value <= 1 BY <2>3, <1>10
  <2>6. MonitorHeld' BY <2>2, <2>4, <2>5, <1>9 DEF MonitorHeld
  <2>7. QED BY <2>3, <2>6, <1>5, <1>6, <1>7, <1>8, <1>11, AsleepIs
<1>12. CASE \E h \in Phil :
              /\ Needs(h, x) /\ SleepsIn(sem, h)
              /\ sem'[x].value = sem[x].value
              /\ \A j \in Phil : SleepsIn(sem', j) <=> SleepsIn(sem, j) /\ j # h
  <2>1. PICK h \in Phil :
          /\ Needs(h, x) /\ SleepsIn(sem, h)
          /\ sem'[x].value = sem[x].value
          /\ \A j \in Phil : SleepsIn(sem', j) <=> SleepsIn(sem, j) /\ j # h
    BY <1>12
  <2>2. ASSUME NEW j \in Phil, IsActive(j)' PROVE j = h
    <3>1. j # i /\ pc[j] \in Inside BY <2>2, <1>1 DEF IsActive, Inside
    <3>2. CASE IsActive(j) BY <3>1, <3>2, <1>2 DEF MonitorHeld
    <3>3. CASE Asleep(j)
      <4>1. SleepsIn(sem, j) /\ ~SleepsIn(sem', j) BY <3>3, <2>2, <1>7, AsleepIs DEF IsActive
      <4>2. QED BY <4>1, <2>1
    <3>4. QED BY <3>1, <3>2, <3>3 DEF IsActive
  <2>3. \A y \in MonSems : sem'[y].value = 0 BY <2>1, <1>8, <1>10
  <2>4. MonitorHeld' BY <2>2, <2>3, <1>9 DEF MonitorHeld
  <2>5. sem'[x].value = 0 BY <2>3
  <2>6. \E k \in Phil :
          /\ Needs(k, x) /\ Asleep(k)
          /\ sem'[x].value = 0
          /\ \A j \in Phil : Asleep(j)' <=> Asleep(j) /\ j # k
    BY <2>1, <2>5, <1>7, AsleepIs
  <2>7. QED BY <2>4, <2>6, <1>5, <1>6, <1>7, <1>8, AsleepIs
<1>13. QED BY <1>5, <1>11, <1>12

\* Leaving the monitor, in cond_wait or at the end of a routine.
LEMMA LeaveIs ==
  ASSUME IInv, phase = "condvar", NEW i \in Phil, IsActive(i), sem' = LeaveMonitor,
         NEW l, l \notin Inside, pc' = [pc EXCEPT ![i] = l], phase' = phase
  PROVE  /\ sem' \in SemSpace /\ QueuesDistinct(sem') /\ WaitsRight' /\ MonitorHeld'
         /\ ~Asleep(i)'
         /\ \A j \in Phil : sem'[cv(j)].value = sem[cv(j)].value
         /\ \A j \in Phil : pc[j] = "mwoken" => (Asleep(j)' <=> Asleep(j))
<1>1. PICK x \in {mtmutex, mtnext} : sem' = up(sem, x) BY DEF LeaveMonitor
<1>2. x \in MonSems /\ \A j \in Phil : cv(j) # x /\ cv(j) \in Sems BY SemsApart
<1>3. \A h \in Phil : Needs(h, x) => pc[h] # "mwoken" BY <1>2, SemsApart DEF Needs
<1>4. /\ sem' \in SemSpace /\ QueuesDistinct(sem') /\ WaitsRight' /\ MonitorHeld'
      /\ ~Asleep(i)'
      /\ \A y \in Sems : y # x => sem'[y].value = sem[y].value
      /\ \/ \A j \in Phil : Asleep(j)' <=> Asleep(j)
         \/ \E h \in Phil : Needs(h, x) /\ \A j \in Phil : Asleep(j)' <=> Asleep(j) /\ j # h
  BY <1>1, <1>2, MonitorUp
<1>5. QED BY <1>2, <1>3, <1>4

LEMMA cond_wait_keeps ==
  ASSUME IInv, NEW i \in Phil, cond_wait(i)
  PROVE  IInv'
<1>1. /\ phase = "condvar" /\ pc[i] = "mtested" /\ ~Asleep(i) /\ pc' = [pc EXCEPT ![i] = "mwait"]
      /\ state[i] = "HUNGRY" /\ sem' = LeaveMonitor /\ count' = [count EXCEPT ![i] = @ + 1]
      /\ UNCHANGED <<phase, state, next_count, iter, ret>>
  BY DEF cond_wait, At, Goto, IInv, TypeOK, Phases, SemaPcs
<1>2. /\ pc \in [Phil -> SemaPcs \cup CondvarPcs] /\ count \in [Phil -> Int]
  BY DEF IInv, TypeOK
<1>3. IsActive(i) /\ "mwait" \notin Inside BY <1>1 DEF IsActive, Inside
<1>4. /\ sem' \in SemSpace /\ QueuesDistinct(sem') /\ WaitsRight' /\ MonitorHeld'
      /\ ~Asleep(i)'
      /\ \A j \in Phil : sem'[cv(j)].value = sem[cv(j)].value
      /\ \A j \in Phil : pc[j] = "mwoken" => (Asleep(j)' <=> Asleep(j))
  BY <1>1, <1>3, LeaveIs
<1>5. TypeOK' BY <1>1, <1>2, <1>4 DEF IInv, TypeOK, CondvarPcs
<1>6. Phases' BY <1>1, <1>2 DEF IInv, Phases, CondvarPcs
<1>7. Apart(state)' BY <1>1 DEF IInv, Apart
<1>8. SemaInv' BY <1>1 DEF SemaInv
<1>9. (\A j \in Phil : CondvarState(j)) /\ next_count = Cardinality(Signallers)
  BY <1>1 DEF IInv, CondvarInv
<1>10. ASSUME NEW j \in Phil PROVE CondvarState(j)'
  <2>1. CondvarState(j) /\ cv(j)' = cv(j) BY <1>9 DEF cv
  <2>2. CASE j = i BY <1>1, <1>2, <1>4, <2>1, <2>2 DEF CondvarState
  <2>3. CASE j # i
    <3>1. pc'[j] = pc[j] /\ count'[j] = count[j] BY <2>3, <1>1, <1>2
    <3>2. QED BY <3>1, <2>1, <1>1, <1>4 DEF CondvarState
  <2>4. QED BY <2>2, <2>3
<1>11. Signallers' = Signallers BY <1>1, <1>2 DEF Signallers
<1>12. CondvarInv' BY <1>1, <1>4, <1>9, <1>10, <1>11 DEF CondvarInv
<1>13. QED BY <1>4, <1>5, <1>6, <1>7, <1>8, <1>12 DEF IInv

LEMMA take_condvar_leave_keeps ==
  ASSUME IInv, NEW i \in Phil, take_condvar_leave(i)
  PROVE  IInv'
<1>1. /\ phase = "condvar" /\ ~Asleep(i) /\ pc' = [pc EXCEPT ![i] = "eating"]
      /\ pc[i] = "mtaken" \/ (pc[i] = "mtested" /\ state[i] # "HUNGRY")
      /\ sem' = LeaveMonitor
      /\ UNCHANGED <<phase, state, next_count, count, iter, ret>>
  BY DEF take_condvar_leave, At, Goto, IInv, TypeOK, Phases, SemaPcs
<1>2. pc \in [Phil -> SemaPcs \cup CondvarPcs] BY DEF IInv, TypeOK
<1>3. IsActive(i) /\ "eating" \notin Inside BY <1>1 DEF IsActive, Inside
<1>4. /\ sem' \in SemSpace /\ QueuesDistinct(sem') /\ WaitsRight' /\ MonitorHeld'
      /\ ~Asleep(i)'
      /\ \A j \in Phil : sem'[cv(j)].value = sem[cv(j)].value
      /\ \A j \in Phil : pc[j] = "mwoken" => (Asleep(j)' <=> Asleep(j))
  BY <1>1, <1>3, LeaveIs
<1>5. TypeOK' BY <1>1, <1>2, <1>4 DEF IInv, TypeOK, CondvarPcs
<1>6. Phases' BY <1>1, <1>2 DEF IInv, Phases, CondvarPcs
<1>7. Apart(state)' BY <1>1 DEF IInv, Apart
<1>8. SemaInv' BY <1>1 DEF SemaInv
<1>9. (\A j \in Phil : CondvarState(j)) /\ next_count = Cardinality(Signallers)
  BY <1>1 DEF IInv, CondvarInv
<1>10. ASSUME NEW j \in Phil PROVE CondvarState(j)'
  <2>1. CondvarState(j) /\ cv(j)' = cv(j) BY <1>9 DEF cv
  <2>2. state[j] \in {"THINKING", "HUNGRY", "EATING"} BY DEF IInv, TypeOK
  <2>3. CASE j = i BY <1>1, <1>2, <1>4, <2>1, <2>2, <2>3 DEF CondvarState
  <2>4. CASE j # i
    <3>1. pc'[j] = pc[j] BY <2>4, <1>1, <1>2
    <3>2. QED BY <3>1, <2>1, <1>1, <1>4 DEF CondvarState
  <2>5. QED BY <2>3, <2>4
<1>11. Signallers' = Signallers BY <1>1, <1>2 DEF Signallers
<1>12. CondvarInv' BY <1>1, <1>4, <1>9, <1>10, <1>11 DEF CondvarInv
<1>13. QED BY <1>4, <1>5, <1>6, <1>7, <1>8, <1>12 DEF IInv

LEMMA put_condvar_leave_keeps ==
  ASSUME IInv, NEW i \in Phil, put_condvar_leave(i)
  PROVE  IInv'
<1>1. /\ phase = "condvar" /\ pc[i] = "mputl" /\ ~Asleep(i) /\ pc' = [pc EXCEPT ![i] = AfterMeal(i)]
      /\ sem' = LeaveMonitor /\ iter' = [iter EXCEPT ![i] = @ + 1]
      /\ UNCHANGED <<phase, state, next_count, count, ret>>
  BY DEF put_condvar_leave, At, Goto, IInv, TypeOK, Phases, SemaPcs
<1>2. pc \in [Phil -> SemaPcs \cup CondvarPcs] /\ iter \in [Phil -> Nat] BY DEF IInv, TypeOK
<1>3. AfterMeal(i) \in {"thinking", "quit"} BY DEF AfterMeal
<1>4. IsActive(i) /\ AfterMeal(i) \notin Inside BY <1>1, <1>3 DEF IsActive, Inside
<1>5. /\ sem' \in SemSpace /\ QueuesDistinct(sem') /\ WaitsRight' /\ MonitorHeld'
      /\ ~Asleep(i)'
      /\ \A j \in Phil : sem'[cv(j)].value = sem[cv(j)].value
      /\ \A j \in Phil : pc[j] = "mwoken" => (Asleep(j)' <=> Asleep(j))
  BY <1>1, <1>4, LeaveIs
<1>6. TypeOK' BY <1>1, <1>2, <1>3, <1>5 DEF IInv, TypeOK, CondvarPcs
<1>7. Phases' BY <1>1, <1>2, <1>3 DEF IInv, Phases, CondvarPcs
<1>8. Apart(state)' BY <1>1 DEF IInv, Apart
<1>9. SemaInv' BY <1>1 DEF SemaInv
<1>10. (\A j \in Phil : CondvarState(j)) /\ next_count = Cardinality(Signallers)
  BY <1>1 DEF IInv, CondvarInv
<1>11. ASSUME NEW j \in Phil PROVE CondvarState(j)'
  <2>1. CondvarState(j) /\ cv(j)' = cv(j) BY <1>10 DEF cv
  <2>2. CASE j = i BY <1>1, <1>2, <1>3, <1>5, <2>1, <2>2 DEF CondvarState
  <2>3. CASE j # i
    <3>1. pc'[j] = pc[j] BY <2>3, <1>1, <1>2
    <3>2. QED BY <3>1, <2>1, <1>1, <1>5 DEF CondvarState
  <2>4. QED BY <2>2, <2>3
<1>12. Signallers' = Signallers BY <1>1, <1>2, <1>3 DEF Signallers
<1>13. CondvarInv' BY <1>1, <1>5, <1>10, <1>11, <1>12 DEF CondvarInv
<1>14. QED BY <1>5, <1>6, <1>7, <1>8, <1>9, <1>13 DEF IInv

-----------------------------------------------------------------------------
LEMMA SignallersFinite == IsFiniteSet(Signallers)
<1>1. IsFiniteSet(Phil) BY NAssumption, FS_Interval DEF Phil
<1>2. Signallers \subseteq Phil BY DEF Signallers
<1>3. QED BY <1>1, <1>2, FS_Subset

\* A step inside the monitor by the one that is active, which stays so.
LEMMA StaysInside ==
  ASSUME IInv, phase = "condvar", NEW i \in Phil, IsActive(i), sem' = sem,
         NEW l \in Inside, pc' = [pc EXCEPT ![i] = l], phase' = phase
  PROVE  /\ sem' \in SemSpace /\ QueuesDistinct(sem') /\ WaitsRight' /\ MonitorHeld'
         /\ \A j \in Phil : Asleep(j)' <=> Asleep(j)
         /\ \A j \in Phil : sem'[cv(j)].value = sem[cv(j)].value
<1>1. SemsOK(sem') /\ ~SleepsIn(sem', i) BY SemsOKNow, AsleepIs DEF IsActive
<1>2. /\ QueuesDistinct(sem') /\ sem' \in SemSpace /\ WaitsRight'
      /\ \A j \in Phil : Asleep(j)' <=> Asleep(j)
  BY <1>1, StillRight, AsleepIs
<1>3. MonitorHeld BY DEF IInv, CondvarInv
<1>4. \A j \in Phil : IsActive(j)' => IsActive(j)
  BY <1>2 DEF IsActive, Inside, IInv, TypeOK
<1>5. MonSems' = MonSems BY DEF MonSems, mtmutex, mtnext, cv
<1>6. MonitorHeld' BY <1>3, <1>4, <1>5 DEF MonitorHeld
<1>7. QED BY <1>2, <1>6

LEMMA take_condvar_keeps ==
  ASSUME IInv, NEW i \in Phil, take_condvar(i)
  PROVE  IInv'
<1> DEFINE st == [state EXCEPT ![i] = "HUNGRY"]
<1>1. /\ phase = "condvar" /\ pc[i] = "mtake" /\ ~Asleep(i)
      /\ phi_test_condvar(i, i, st, "mtested")
      /\ UNCHANGED <<phase, count, iter>>
  BY DEF take_condvar, At, IInv, TypeOK, Phases, SemaPcs
<1>2. /\ pc \in [Phil -> SemaPcs \cup CondvarPcs]
      /\ state \in [Phil -> {"THINKING", "HUNGRY", "EATING"}]
  BY DEF IInv, TypeOK
<1>3. (\A j \in Phil : CondvarState(j)) /\ next_count = Cardinality(Signallers)
  BY <1>1 DEF IInv, CondvarInv
<1>4. count[i] = 0 /\ sem[cv(i)].value = 0 BY <1>1, <1>3 DEF CondvarState
<1>5. /\ pc' = [pc EXCEPT ![i] = "mtested"] /\ sem' = sem /\ next_count' = next_count /\ ret' = ret
      /\ state' = IF MayEat(st, i) THEN [st EXCEPT ![i] = "EATING"] ELSE st
  BY <1>1, <1>4 DEF phi_test_condvar, Goto
<1>6. Apart(state) BY DEF IInv
<1>7. st \in [Phil -> {"THINKING", "HUNGRY", "EATING"}] /\ Apart(st) BY <1>2, <1>6, NotEatApart
<1>8. /\ state' \in [Phil -> {"THINKING", "HUNGRY", "EATING"}]
      /\ state'[i] \in {"HUNGRY", "EATING"}
      /\ \A j \in Phil : j # i => state'[j] = state[j]
  BY <1>2, <1>5
<1>9. Apart(state)'
  <2> HIDE DEF st
  <2>1. Apart(state') BY <1>5, <1>7, EatApart
  <2>2. QED BY <2>1 DEF Apart
<1>10. IsActive(i) /\ "mtested" \in Inside BY <1>1 DEF IsActive, Inside
<1>12. /\ sem' \in SemSpace /\ QueuesDistinct(sem') /\ WaitsRight' /\ MonitorHeld'
       /\ \A j \in Phil : Asleep(j)' <=> Asleep(j)
       /\ \A j \in Phil : sem'[cv(j)].value = sem[cv(j)].value
  BY <1>1, <1>5, <1>10, StaysInside
<1>13. TypeOK' BY <1>1, <1>2, <1>5, <1>8, <1>12 DEF IInv, TypeOK, CondvarPcs
<1>14. Phases' BY <1>1, <1>2, <1>5 DEF IInv, Phases, CondvarPcs
<1>15. SemaInv' BY <1>1 DEF SemaInv
<1>16. ASSUME NEW j \in Phil PROVE CondvarState(j)'
  <2>1. CondvarState(j) /\ cv(j)' = cv(j) BY <1>3 DEF cv
  <2>2. CASE j = i BY <1>1, <1>2, <1>4, <1>5, <1>8, <1>12, <2>1, <2>2 DEF CondvarState
  <2>3. CASE j # i
    <3>1. pc'[j] = pc[j] /\ state'[j] = state[j] BY <2>3, <1>5, <1>2, <1>8
    <3>2. QED BY <3>1, <2>1, <1>1, <1>5, <1>12 DEF CondvarState
  <2>4. QED BY <2>2, <2>3
<1>17. Signallers' = Signallers BY <1>1, <1>2, <1>5 DEF Signallers
<1>18. CondvarInv' BY <1>1, <1>3, <1>5, <1>12, <1>16, <1>17 DEF CondvarInv
<1>19. QED BY <1>9, <1>12, <1>13, <1>14, <1>15, <1>18 DEF IInv

\* up() of a condition variable in cond_signal.
LEMMA SignalIs ==
  ASSUME IInv, phase = "condvar", NEW i \in Phil, IsActive(i), NEW j \in Phil,
         sem' = up(sem, cv(j)), pc' = [pc EXCEPT ![i] = "signal"], phase' = phase
  PROVE  /\ sem' \in SemSpace /\ QueuesDistinct(sem') /\ WaitsRight' /\ MonitorHeld'
         /\ ~Asleep(i)'
         /\ \A y \in Sems : y # cv(j) => sem'[y].value = sem[y].value
         /\ \/ /\ sem'[cv(j)].value = 1
               /\ \A k \in Phil : Asleep(k)' <=> Asleep(k)
               /\ \A k \in Phil : Needs(k, cv(j)) => ~Asleep(k)
            \/ \E h \in Phil :
                 /\ Needs(h, cv(j)) /\ Asleep(h)
                 /\ sem'[cv(j)].value = 0
                 /\ \A k \in Phil : Asleep(k)' <=> Asleep(k) /\ k # h
<1>1. cv(j) \in MonSems BY SemsApart
<1>2. "signal" \notin Inside BY DEF Inside
<1>3. QED BY <1>1, <1>2, MonitorUp

\* The test of a neighbour on the way out of a meal: if it is hungry and may eat
\* now, it waits in its condition variable and is signalled.
LEMMA TestNeighbour ==
  ASSUME IInv, phase = "condvar", NEW i \in Phil, pc[i] \in {"mput", "mputr"}, ~Asleep(i),
         NEW j \in Phil, j # i,
         NEW st \in [Phil -> {"THINKING", "HUNGRY", "EATING"}], Apart(st),
         st[i] = "THINKING", \A k \in Phil : k # i => st[k] = state[k],
         NEW l \in {"mputr", "mputl"}, phi_test_condvar(i, j, st, l),
         UNCHANGED <<phase, count, iter>>
  PROVE  IInv'
<1>1. /\ pc \in [Phil -> SemaPcs \cup CondvarPcs]
      /\ state \in [Phil -> {"THINKING", "HUNGRY", "EATING"}]
      /\ ret \in [Phil -> {"none", "mputr", "mputl", "mtested"}]
  BY DEF IInv, TypeOK
<1>2. MonitorHeld /\ (\A k \in Phil : CondvarState(k)) /\ next_count = Cardinality(Signallers)
  BY DEF IInv, CondvarInv
<1>3. IsActive(i) /\ sem[cv(i)].value = 0 /\ count[i] = 0 BY <1>2 DEF IsActive, Inside, CondvarState
<1>4. SemaInv' BY DEF SemaInv
<1>6. CASE ~MayEat(st, j)
  <2>1. /\ pc' = [pc EXCEPT ![i] = l] /\ sem' = sem /\ next_count' = next_count /\ ret' = ret
        /\ state' = st
    BY <1>6 DEF phi_test_condvar, Goto
  <2>2. Apart(state)' BY <2>1 DEF Apart
  <2>3. l \in Inside BY DEF Inside
  <2>4. /\ sem' \in SemSpace /\ QueuesDistinct(sem') /\ WaitsRight' /\ MonitorHeld'
        /\ \A k \in Phil : Asleep(k)' <=> Asleep(k)
        /\ \A k \in Phil : sem'[cv(k)].value = sem[cv(k)].value
    BY <2>1, <2>3, <1>3, StaysInside
  <2>5. TypeOK' BY <2>1, <2>4, <1>1 DEF IInv, TypeOK, CondvarPcs
  <2>6. Phases' BY <2>1, <1>1 DEF IInv, Phases, CondvarPcs
  <2>7. ASSUME NEW k \in Phil PROVE CondvarState(k)'
    <3>1. CondvarState(k) /\ cv(k)' = cv(k) BY <1>2 DEF cv
    <3>2. CASE k = i BY <3>2, <2>1, <2>4, <1>1, <1>3 DEF CondvarState
    <3>3. CASE k # i
      <4>1. pc'[k] = pc[k] /\ state'[k] = state[k] BY <3>3, <2>1, <1>1
      <4>2. QED BY <4>1, <3>1, <2>1, <2>4 DEF CondvarState
    <3>4. QED BY <3>2, <3>3
  <2>8. Signallers' = Signallers BY <2>1, <1>1 DEF Signallers
  <2>9. CondvarInv' BY <2>1, <2>4, <2>7, <2>8, <1>2 DEF CondvarInv
  <2>10. QED BY <2>2, <2>4, <2>5, <2>6, <2>9, <1>4 DEF IInv
<1>7. CASE MayEat(st, j)
  <2>1. state[j] = "HUNGRY" BY <1>7 DEF MayEat
  <2>2. pc[j] # "mtested"
    <3>1. ASSUME pc[j] = "mtested" PROVE IsActive(j)
      <4>1. \A x \in Sems : ~Needs(j, x) BY <3>1 DEF Needs
      <4>2. \A x \in Sems : ~Waits(sem, j, x) BY <4>1 DEF IInv, WaitsRight
      <4>3. ~Asleep(j) BY <4>2, AsleepIs DEF SleepsIn
      <4>4. QED BY <3>1, <4>3 DEF IsActive, Inside
    <3>2. QED BY <3>1, <1>2, <1>3 DEF MonitorHeld
  <2>3. count[j] = 1 /\ (pc[j] = "mwait" \/ (pc[j] = "mwoken" /\ Asleep(j)))
    BY <2>1, <2>2, <1>2 DEF CondvarState
  <2>4. /\ state' = [st EXCEPT ![j] = "EATING"] /\ next_count' = next_count + 1
        /\ sem' = up(sem, cv(j)) /\ ret' = [ret EXCEPT ![i] = l]
        /\ pc' = [pc EXCEPT ![i] = "signal"]
    BY <2>3, <1>7 DEF phi_test_condvar, Goto
  <2>5. Apart(state)'
    <3>1. Apart(state') BY <2>4, <1>7, EatApart
    <3>2. QED BY <3>1 DEF Apart
  <2>6. /\ state' \in [Phil -> {"THINKING", "HUNGRY", "EATING"}]
        /\ state'[i] = "THINKING" /\ state'[j] = "EATING"
        /\ \A k \in Phil : k # i /\ k # j => state'[k] = state[k]
    BY <2>4
  <2>8. /\ sem' \in SemSpace /\ QueuesDistinct(sem') /\ WaitsRight' /\ MonitorHeld'
        /\ ~Asleep(i)'
        /\ \A y \in Sems : y # cv(j) => sem'[y].value = sem[y].value
        /\ \/ /\ sem'[cv(j)].value = 1
              /\ \A k \in Phil : Asleep(k)' <=> Asleep(k)
              /\ \A k \in Phil : Needs(k, cv(j)) => ~Asleep(k)
           \/ \E h \in Phil :
                /\ Needs(h, cv(j)) /\ Asleep(h)
                /\ sem'[cv(j)].value = 0
                /\ \A k \in Phil : Asleep(k)' <=> Asleep(k) /\ k # h
    <3>1. sem' = up(sem, cv(j)) /\ phase' = phase /\ pc' = [pc EXCEPT ![i] = "signal"] BY <2>4
    <3>2. QED BY <3>1, <1>3, SignalIs
  <2>9. \A k \in Phil : Needs(k, cv(j)) <=> k = j /\ pc[j] = "mwoken" BY SemsApart DEF Needs
  <2>10. /\ \/ pc[j] = "mwait" /\ sem'[cv(j)].value = 1
            \/ pc[j] = "mwoken" /\ sem'[cv(j)].value = 0 /\ ~Asleep(j)'
         /\ \A k \in Phil : k # j => (Asleep(k)' <=> Asleep(k))
    BY <2>3, <2>8, <2>9
  <2>11. TypeOK' BY <2>4, <2>6, <2>8, <1>1 DEF IInv, TypeOK, CondvarPcs
  <2>12. Phases' BY <2>4, <1>1 DEF IInv, Phases, CondvarPcs
  <2>13. ASSUME NEW k \in Phil PROVE CondvarState(k)'
    <3>1. CondvarState(k) /\ cv(k)' = cv(k) BY <1>2 DEF cv
    <3>2. CASE k = i
      <4>1. sem'[cv(i)].value = 0 BY <2>8, <1>3, SemsApart
      <4>2. QED BY <3>1, <3>2, <4>1, <2>4, <2>6, <1>1, <1>3 DEF CondvarState
    <3>3. CASE k = j
      <4>1. pc'[j] = pc[j] /\ ret'[j] = ret[j] BY <2>4, <1>1
      <4>2. QED BY <3>1, <3>3, <4>1, <2>3, <2>6, <2>10 DEF CondvarState
    <3>4. CASE k # i /\ k # j
      <4>1. sem'[cv(k)].value = sem[cv(k)].value BY <3>4, <2>8, SemsApart
      <4>2. pc'[k] = pc[k] /\ state'[k] = state[k] /\ ret'[k] = ret[k] BY <3>4, <2>4, <2>6, <1>1
      <4>3. QED BY <4>1, <4>2, <3>1, <3>4, <2>10 DEF CondvarState
    <3>5. QED BY <3>2, <3>3, <3>4
  <2>14. Signallers' = Signallers \cup {i} /\ i \notin Signallers BY <2>4, <1>1 DEF Signallers
  <2>15. Cardinality(Signallers') = Cardinality(Signallers) + 1
    BY <2>14, SignallersFinite, FS_AddElement
  <2>16. CondvarInv' BY <2>4, <2>8, <2>13, <2>15, <1>2 DEF CondvarInv
  <2>17. QED BY <2>5, <2>8, <2>11, <2>12, <2>16, <1>4 DEF IInv
<1>8. QED BY <1>6, <1>7

LEMMA put_condvar_left_keeps ==
  ASSUME IInv, NEW i \in Phil, put_condvar_left(i)
  PROVE  IInv'
<1> DEFINE st == [state EXCEPT ![i] = "THINKING"]
<1>1. /\ phase = "condvar" /\ pc[i] = "mput" /\ ~Asleep(i)
      /\ phi_test_condvar(i, LEFT(i), st, "mputr")
      /\ UNCHANGED <<phase, count, iter>>
  BY DEF put_condvar_left, At, IInv, TypeOK, Phases, SemaPcs
<1>2. state \in [Phil -> {"THINKING", "HUNGRY", "EATING"}] /\ Apart(state) BY DEF IInv, TypeOK
<1>3. /\ st \in [Phil -> {"THINKING", "HUNGRY", "EATING"}] /\ Apart(st)
      /\ st[i] = "THINKING" /\ \A k \in Phil : k # i => st[k] = state[k]
  BY <1>2, NotEatApart
<1>4. LEFT(i) \in Phil /\ LEFT(i) # i BY Neighbours
<1> HIDE DEF st
<1>5. QED BY <1>1, <1>3, <1>4, TestNeighbour

LEMMA put_condvar_right_keeps ==
  ASSUME IInv, NEW i \in Phil, put_condvar_right(i)
  PROVE  IInv'
<1>1. /\ phase = "condvar" /\ pc[i] = "mputr" /\ ~Asleep(i)
      /\ phi_test_condvar(i, RIGHT(i), state, "mputl")
      /\ UNCHANGED <<phase, count, iter>>
  BY DEF put_condvar_right, At, IInv, TypeOK, Phases, SemaPcs
<1>2. state \in [Phil -> {"THINKING", "HUNGRY", "EATING"}] /\ Apart(state) BY DEF IInv, TypeOK
<1>3. state[i] = "THINKING" BY <1>1 DEF IInv, CondvarInv, CondvarState
<1>4. RIGHT(i) \in Phil /\ RIGHT(i) # i BY Neighbours
<1>5. QED BY <1>1, <1>2, <1>3, <1>4, TestNeighbour

LEMMA cond_signal_done_keeps ==
  ASSUME IInv, NEW i \in Phil, cond_signal_done(i)
  PROVE  IInv'
<1>1. /\ phase = "condvar" /\ pc[i] = "signalled" /\ ~Asleep(i)
      /\ next_count' = next_count - 1 /\ ret' = [ret EXCEPT ![i] = "none"]
      /\ pc' = [pc EXCEPT ![i] = ret[i]]
      /\ UNCHANGED <<phase, sem, state, count, iter>>
  BY DEF cond_signal_done, At, Goto, IInv, TypeOK, Phases, SemaPcs
<1>2. /\ pc \in [Phil -> SemaPcs \cup CondvarPcs]
      /\ ret \in [Phil -> {"none", "mputr", "mputl", "mtested"}]
  BY DEF IInv, TypeOK
<1>3. (\A j \in Phil : CondvarState(j)) /\ next_count = Cardinality(Signallers)
  BY <1>1 DEF IInv, CondvarInv
<1>4. ret[i] \in {"mputr", "mputl"} BY <1>1, <1>3 DEF CondvarState
<1>5. IsActive(i) /\ ret[i] \in Inside BY <1>1, <1>4 DEF IsActive, Inside
<1>7. /\ sem' \in SemSpace /\ QueuesDistinct(sem') /\ WaitsRight' /\ MonitorHeld'
      /\ \A j \in Phil : Asleep(j)' <=> Asleep(j)
      /\ \A j \in Phil : sem'[cv(j)].value = sem[cv(j)].value
  BY <1>1, <1>5, StaysInside
<1>8. TypeOK'
  <2>1. pc' \in [Phil -> SemaPcs \cup CondvarPcs] BY <1>1, <1>2, <1>4 DEF CondvarPcs
  <2>2. ret' \in [Phil -> {"none", "mputr", "mputl", "mtested"}] BY <1>1, <1>2
  <2>3. next_count' \in Int BY <1>1 DEF IInv, TypeOK
  <2>4. QED BY <2>1, <2>2, <2>3, <1>1 DEF IInv, TypeOK
<1>9. Phases' BY <1>1, <1>2, <1>4 DEF IInv, Phases, CondvarPcs
<1>10. Apart(state)' BY <1>1 DEF IInv, Apart
<1>11. SemaInv' BY <1>1 DEF SemaInv
<1>12. ASSUME NEW j \in Phil PROVE CondvarState(j)'
  <2>1. CondvarState(j) /\ cv(j)' = cv(j) BY <1>3 DEF cv
  <2>2. CASE j = i BY <1>1, <1>2, <1>4, <1>7, <2>1, <2>2 DEF CondvarState
  <2>3. CASE j # i
    <3>1. pc'[j] = pc[j] /\ ret'[j] = ret[j] BY <2>3, <1>1, <1>2
    <3>2. QED BY <3>1, <2>1, <1>1, <1>7 DEF CondvarState
  <2>4. QED BY <2>2, <2>3
<1>13. Signallers' = Signallers \ {i} /\ i \in Signallers BY <1>1, <1>2, <1>4 DEF Signallers
<1>14. Cardinality(Signallers') = Cardinality(Signallers) - 1
  BY <1>13, SignallersFinite, FS_RemoveElement
<1>15. CondvarInv' BY <1>1, <1>3, <1>7, <1>12, <1>14 DEF CondvarInv
<1>16. QED BY <1>7, <1>8, <1>9, <1>10, <1>11, <1>15 DEF IInv

LEMMA cond_wait_done_keeps ==
  ASSUME IInv, NEW i \in Phil, cond_wait_done(i)
  PROVE  IInv'
<1>1. /\ phase = "condvar" /\ pc[i] = "mwoken" /\ ~Asleep(i)
      /\ count' = [count EXCEPT ![i] = @ - 1] /\ pc' = [pc EXCEPT ![i] = "mtaken"]
      /\ UNCHANGED <<phase, sem, state, next_count, iter, ret>>
  BY DEF cond_wait_done, At, Goto, IInv, TypeOK, Phases, SemaPcs
<1>2. pc \in [Phil -> SemaPcs \cup CondvarPcs] /\ count \in [Phil -> Int] BY DEF IInv, TypeOK
<1>3. (\A j \in Phil : CondvarState(j)) /\ next_count = Cardinality(Signallers)
  BY <1>1 DEF IInv, CondvarInv
<1>4. IsActive(i) /\ "mtaken" \in Inside BY <1>1 DEF IsActive, Inside
<1>6. /\ sem' \in SemSpace /\ QueuesDistinct(sem') /\ WaitsRight' /\ MonitorHeld'
      /\ \A j \in Phil : Asleep(j)' <=> Asleep(j)
      /\ \A j \in Phil : sem'[cv(j)].value = sem[cv(j)].value
  BY <1>1, <1>4, StaysInside
<1>7. TypeOK' BY <1>1, <1>2 DEF IInv, TypeOK, CondvarPcs
<1>8. Phases' BY <1>1, <1>2 DEF IInv, Phases, CondvarPcs
<1>9. Apart(state)' BY <1>1 DEF IInv, Apart
<1>10. SemaInv' BY <1>1 DEF SemaInv
<1>11. ASSUME NEW j \in Phil PROVE CondvarState(j)'
  <2>1. CondvarState(j) /\ cv(j)' = cv(j) BY <1>3 DEF cv
  <2>2. CASE j = i BY <1>1, <1>2, <1>6, <2>1, <2>2 DEF CondvarState
  <2>3. CASE j # i
    <3>1. pc'[j] = pc[j] /\ count'[j] = count[j] BY <2>3, <1>1, <1>2
    <3>2. QED BY <3>1, <2>1, <1>1, <1>6 DEF CondvarState
  <2>4. QED BY <2>2, <2>3
<1>12. Signallers' = Signallers BY <1>1, <1>2 DEF Signallers
<1>13. CondvarInv' BY <1>1, <1>3, <1>6, <1>11, <1>12 DEF CondvarInv
<1>14. QED BY <1>6, <1>7, <1>8, <1>9, <1>10, <1>13 DEF IInv

-----------------------------------------------------------------------------
\* check_sync starts the philosophers of the second kind.
LEMMA check_sync_condvar_keeps ==
  ASSUME IInv, check_sync_condvar
  PROVE  IInv'
<1>1. /\ phase = "sema" /\ phase' = "condvar" /\ \A i \in Phil : pc[i] = "quit"
      /\ sem' = [sem EXCEPT ![mtmutex] = [value |-> 1, queue |-> <<>>]]
      /\ state' = [i \in Phil |-> "THINKING"] /\ iter' = [i \in Phil |-> 1]
      /\ pc' = [i \in Phil |-> "thinking"]
      /\ UNCHANGED <<next_count, count, ret>>
  BY DEF check_sync_condvar
<1>2. sem \in SemSpace /\ mtmutex \in Sems BY SemsApart DEF IInv, TypeOK
<1>3. /\ sem' \in SemSpace /\ sem'[mtmutex].value = 1 /\ sem'[mtmutex].queue = <<>>
      /\ \A x \in Sems : x # mtmutex => sem'[x] = sem[x]
  BY <1>1, <1>2 DEF SemSpace
<1>4. \A i \in Phil : \A x \in Sems : ~Waits(sem, i, x) BY <1>1 DEF IInv, WaitsRight, Needs
<1>5. \A i \in Phil : \A x \in Sems : ~Waits(sem', i, x)
  <2> SUFFICES ASSUME NEW i \in Phil, NEW x \in Sems PROVE ~Waits(sem', i, x) OBVIOUS
  <2>1. CASE x = mtmutex BY <2>1, <1>3 DEF Waits
  <2>2. CASE x # mtmutex BY <2>2, <1>3, <1>4 DEF Waits
  <2>3. QED BY <2>1, <2>2
<1>6. QueuesDistinct(sem')
  <2> SUFFICES ASSUME NEW x \in Sems, NEW j \in 1..Len(sem'[x].queue),
                      NEW k \in 1..Len(sem'[x].queue), sem'[x].queue[j] = sem'[x].queue[k]
               PROVE  j = k
    BY DEF QueuesDistinct
  <2>1. CASE x = mtmutex
    <3>1. Len(sem'[x].queue) = 0 BY <2>1, <1>3
    <3>2. QED BY <3>1
  <2>2. CASE x # mtmutex BY <2>2, <1>3 DEF IInv, QueuesDistinct
  <2>3. QED BY <2>1, <2>2
<1>7. WaitsRight' BY <1>5 DEF WaitsRight
<1>8. \A i \in Phil : ~Asleep(i)' BY <1>5, AsleepIs DEF SleepsIn
<1>9. TypeOK' BY <1>1, <1>3 DEF IInv, TypeOK, CondvarPcs
<1>10. Phases' BY <1>1 DEF Phases, CondvarPcs
<1>11. Apart(state)'
  <2>1. \A i \in Phil : RIGHT(i) \in Phil BY Neighbours
  <2>2. QED BY <2>1, <1>1 DEF Apart
<1>12. SemaInv' BY <1>1 DEF SemaInv
<1>13. SemaInv BY DEF IInv
<1>14. \A y \in MonSems : y # mtmutex => sem'[y].value = 0
  BY <1>1, <1>3, <1>13, SemsApart DEF SemaInv
<1>15. MonitorHeld'
  <2>1. MonSems' = MonSems BY DEF MonSems, mtmutex, mtnext, cv
  <2>2. \A i \in Phil : ~IsActive(i)' BY <1>1 DEF IsActive, Inside
  <2>3. \A y \in MonSems : sem'[y].value > 0 => y = mtmutex BY <1>14
  <2>4. \A y \in MonSems : sem'[y].value <= 1 BY <1>3, <1>14
  <2>5. QED BY <2>1, <2>2, <2>3, <2>4 DEF MonitorHeld
<1>16. ASSUME NEW i \in Phil PROVE CondvarState(i)'
  <2>1. sem'[cv(i)].value = 0 /\ cv(i)' = cv(i) BY <1>14, SemsApart DEF cv
  <2>2. count'[i] = 0 BY <1>1, <1>13 DEF SemaInv
  <2>3. QED BY <2>1, <2>2, <1>1 DEF CondvarState
<1>17. next_count' = Cardinality(Signallers')
  <2>1. Signallers' = {} BY <1>1 DEF Signallers
  <2>2. QED BY <2>1, <1>1, <1>13, FS_EmptySet DEF SemaInv
<1>18. CondvarInv' BY <1>15, <1>16, <1>17 DEF CondvarInv
<1>19. QED BY <1>3, <1>6, <1>7, <1>9, <1>10, <1>11, <1>12, <1>18 DEF IInv

\* A step that only ends check_sync, or does nothing.
LEMMA OthersKeep ==
  ASSUME IInv, phase' = phase \/ (phase = "condvar" /\ phase' = "done" /\ \A i \in Phil : pc[i] = "quit"),
         UNCHANGED <<sem, state, next_count, count, iter, pc, ret>>
  PROVE  IInv'
<1>1. TypeOK' BY DEF IInv, TypeOK
<1>2. QueuesDistinct(sem)' BY DEF IInv, QueuesDistinct
<1>3. WaitsRight'
  <2> SUFFICES ASSUME NEW i \in Phil, NEW x \in Sems, Waits(sem', i, x) PROVE Needs(i, x)'
    BY DEF WaitsRight
  <2>1. Waits(sem, i, x) OBVIOUS
  <2>2. Needs(i, x) BY <2>1 DEF IInv, WaitsRight
  <2>3. QED BY <2>2 DEF Needs, mutex, mtmutex, mtnext, s, cv
<1>4. Phases' BY DEF IInv, Phases
<1>5. Apart(state)' BY DEF IInv, Apart
<1>6. \A i \in Phil : Asleep(i)' <=> Asleep(i) BY AsleepIs
<1>7. SemaInv'
  <2>1. SUFFICES ASSUME phase' = "sema" PROVE SemaInv' BY DEF SemaInv
  <2>2. phase = "sema" BY <2>1
  <2>3. MutexHeld' BY <2>2, <1>6 DEF IInv, SemaInv, MutexHeld, InMutex, mutex
  <2>4. \A i \in Phil : SemaState(i)' BY <2>2, <1>6 DEF IInv, SemaInv, SemaState, s
  <2>5. MonSems' = MonSems BY DEF MonSems, mtmutex, mtnext, cv
  <2>6. QED BY <2>2, <2>3, <2>4, <2>5 DEF IInv, SemaInv
<1>8. CondvarInv'
  <2>1. SUFFICES ASSUME phase' # "sema" PROVE CondvarInv' BY DEF CondvarInv
  <2>2. phase # "sema" BY <2>1
  <2>3. MonSems' = MonSems BY DEF MonSems, mtmutex, mtnext, cv
  <2>4. MonitorHeld' BY <2>2, <2>3, <1>6 DEF IInv, CondvarInv, MonitorHeld, IsActive
  <2>5. \A i \in Phil : CondvarState(i)' BY <2>2, <1>6 DEF IInv, CondvarInv, CondvarState, cv
  <2>6. Signallers' = Signallers BY DEF Signallers
  <2>7. QED BY <2>2, <2>4, <2>5, <2>6 DEF IInv, CondvarInv
<1>9. QED BY <1>1, <1>2, <1>3, <1>4, <1>5, <1>7, <1>8 DEF IInv

-----------------------------------------------------------------------------
LEMMA InitIInv == Init => IInv
<1> SUFFICES ASSUME Init PROVE IInv OBVIOUS
<1> USE DEF Init
<1>1. sem \in SemSpace BY DEF SemSpace
<1>2. TypeOK BY <1>1 DEF TypeOK, SemaPcs
<1>3. \A x \in Sems : sem[x].queue = <<>> /\ sem[x].value = IF x = mutex THEN 1 ELSE 0 OBVIOUS
<1>4. QueuesDistinct(sem)
  <2>1. \A x \in Sems : Len(sem[x].queue) = 0 BY <1>3
  <2>2. QED BY <2>1 DEF QueuesDistinct
<1>5. \A i \in Phil : \A x \in Sems : ~Waits(sem, i, x) BY <1>3 DEF Waits
<1>6. WaitsRight BY <1>5 DEF WaitsRight
<1>7. Phases BY DEF Phases, SemaPcs
<1>8. Apart(state)
  <2>1. \A i \in Phil : RIGHT(i) \in Phil BY Neighbours
  <2>2. QED BY <2>1 DEF Apart
<1>9. SemaInv
  <2>1. MutexHeld BY <1>3, SemsApart DEF MutexHeld, InMutex
  <2>2. \A i \in Phil : SemaState(i) BY <1>3, SemsApart DEF SemaState
  <2>3. \A x \in MonSems : sem[x].value = 0 BY <1>3, SemsApart
  <2>4. QED BY <2>1, <2>2, <2>3 DEF SemaInv
<1>10. CondvarInv BY DEF CondvarInv
<1>11. QED BY <1>2, <1>4, <1>6, <1>7, <1>8, <1>9, <1>10 DEF IInv

LEMMA StepIInv == IInv /\ [Next]_vars => IInv'
<1> SUFFICES ASSUME IInv, [Next]_vars PROVE IInv' OBVIOUS
<1>1. ASSUME NEW i \in Phil, philosopher(i) PROVE IInv'
  <2>1. CASE \/ take_sema_enter(i) \/ take_sema(i) \/ take_sema_wait(i)
             \/ put_sema_enter(i) \/ put_sema(i)
    BY <2>1, take_sema_enter_keeps, take_sema_keeps, take_sema_wait_keeps,
       put_sema_enter_keeps, put_sema_keeps
  <2>2. CASE \/ take_condvar_enter(i) \/ take_condvar(i)
             \/ cond_wait(i) \/ cond_wait_down(i) \/ cond_wait_done(i)
             \/ take_condvar_leave(i)
    BY <2>2, take_condvar_enter_keeps, take_condvar_keeps, cond_wait_keeps,
       cond_wait_down_keeps, cond_wait_done_keeps, take_condvar_leave_keeps
  <2>3. CASE \/ put_condvar_enter(i) \/ put_condvar_left(i) \/ put_condvar_right(i)
             \/ put_condvar_leave(i) \/ cond_signal_wait(i) \/ cond_signal_done(i)
    BY <2>3, put_condvar_enter_keeps, put_condvar_left_keeps, put_condvar_right_keeps,
       put_condvar_leave_keeps, cond_signal_wait_keeps, cond_signal_done_keeps
  <2>4. QED BY <1>1, <2>1, <2>2, <2>3 DEF philosopher
<1>2. CASE check_sync_condvar BY <1>2, check_sync_condvar_keeps
<1>3. CASE check_sync_done BY <1>3, OthersKeep DEF check_sync_done
<1>4. CASE UNCHANGED vars BY <1>4, OthersKeep DEF vars
<1>5. QED BY <1>1, <1>2, <1>3, <1>4 DEF Next

\* The inductive invariant holds in every state.
THEOREM Invariance == Spec => []IInv
<1>1. QED BY InitIInv, StepIInv, PTL DEF Spec

\* No two neighbours of check_sync ever eat together, and who leaves
\* cond_wait or down() to eat has been given its forks, for every number of
\* philosophers and meals.
THEOREM ForksNeverShared == Spec => []ForksExclusive
<1>1. IInv => ForksExclusive
  <2> SUFFICES ASSUME IInv, NEW i \in Phil
               PROVE  /\ state[i] = "EATING" => state[RIGHT(i)] # "EATING"
                      /\ At(i, "eating") \/ At(i, "mwoken") \/ At(i, "mtaken") => state[i] = "EATING"
    BY DEF ForksExclusive
  <2>1. state[i] = "EATING" => state[RIGHT(i)] # "EATING" BY DEF IInv, Apart
  <2>2. ASSUME At(i, "eating") \/ At(i, "mwoken") \/ At(i, "mtaken") PROVE state[i] = "EATING"
    <3>1. ~Asleep(i) /\ pc[i] \in {"eating", "mwoken", "mtaken"} BY <2>2 DEF At
    <3>2. CASE phase = "sema"
      <4>1. SemaState(i) BY <3>2 DEF IInv, SemaInv
      <4>2. QED BY <4>1, <3>1 DEF SemaState
    <3>3. CASE phase # "sema"
      <4>1. CondvarState(i) BY <3>3 DEF IInv, CondvarInv
      <4>2. QED BY <4>1, <3>1 DEF CondvarState
    <3>4. QED BY <3>2, <3>3
  <2>3. QED BY <2>1, <2>2
<1>2. QED BY <1>1, Invariance, PTL

\* "Only one process at a time may be active in a monitor" (monitor.h), and
\* next_count and cv.count tell the truth about who waits.
THEOREM OneInTheMonitor == Spec => []MonitorExclusive
<1>1. IInv => MonitorExclusive
  <2> SUFFICES ASSUME IInv PROVE MonitorExclusive OBVIOUS
  <2>1. \A i, j \in Active : i = j
    <3>1. CASE phase = "sema"
      <4>1. Active = {} BY <3>1 DEF IInv, Phases, SemaPcs, Active
      <4>2. QED BY <4>1
    <3>2. CASE phase # "sema"
      <4>1. MonitorHeld BY <3>2 DEF IInv, CondvarInv
      <4>2. \A i \in Active : i \in Phil /\ IsActive(i) BY DEF Active, IsActive, Inside
      <4>3. QED BY <4>1, <4>2 DEF MonitorHeld
    <3>3. QED BY <3>1, <3>2
  <2>2. Cardinality(Active) <= 1
    <3>1. CASE Active = {} BY <3>1, FS_EmptySet
    <3>2. CASE Active # {}
      <4>1. PICK i \in Active : TRUE BY <3>2
      <4>2. Active = {i} BY <4>1, <2>1
      <4>3. QED BY <4>2, FS_Singleton
    <3>3. QED BY <3>1, <3>2
  <2>3. /\ next_count = Cardinality(Signallers)
        /\ \A i \in Phil : count[i] = IF pc[i] \in {"mwait", "mwoken"} THEN 1 ELSE 0
    <3>1. CASE phase = "sema"
      <4>1. \A i \in Phil : pc[i] \in SemaPcs BY <3>1 DEF IInv, Phases
      <4>2. Signallers = {} BY <4>1 DEF Signallers, SemaPcs
      <4>3. next_count = 0 /\ \A i \in Phil : count[i] = 0 BY <3>1 DEF IInv, SemaInv
      <4>4. \A i \in Phil : pc[i] \notin {"mwait", "mwoken"} BY <4>1 DEF SemaPcs
      <4>5. QED BY <4>2, <4>3, <4>4, FS_EmptySet
    <3>2. CASE phase # "sema" BY <3>2 DEF IInv, CondvarInv, CondvarState
    <3>3. QED BY <3>1, <3>2
  <2>4. QED BY <2>2, <2>3 DEF MonitorExclusive, Signallers
<1>2. QED BY <1>1, Invariance, PTL
=============================================================================
