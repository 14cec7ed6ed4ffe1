----------------------------- MODULE TickProofs -----------------------------
(***************************************************************************)
(* What each tick of the clock drives: the timer list and the console      *)
(* input.  Every sleeper is woken exactly on time, for any number of       *)
(* processes and any sleeping times, and the console input is correct for  *)
(* every number of readers and every size of the two rings.                *)
(***************************************************************************)
EXTENDS TimerList, Stdin, SequenceTheorems, WellFoundedInduction, TLAPS

-----------------------------------------------------------------------------
(***************************************************************************)
(* The timer list.                                                         *)
(***************************************************************************)
\* The elements of a concatenation.
LEMMA ConcatElements ==
  ASSUME NEW S, NEW a \in Seq(S), NEW b \in Seq(S)
  PROVE  /\ a \o b \in Seq(S)
         /\ Len(a \o b) = Len(a) + Len(b)
         /\ \A j \in 1..Len(a) : (a \o b)[j] = a[j]
         /\ \A j \in (Len(a) + 1)..(Len(a) + Len(b)) : (a \o b)[j] = b[j - Len(a)]
OBVIOUS

\* InsertAt puts e at place i and moves the rest up by one.
LEMMA InsertAtElements ==
  ASSUME NEW S, NEW s \in Seq(S), NEW e \in S, NEW i \in 1..(Len(s) + 1)
  PROVE  /\ InsertAt(s, i, e) \in Seq(S)
         /\ Len(InsertAt(s, i, e)) = Len(s) + 1
         /\ InsertAt(s, i, e)[i] = e
         /\ \A j \in 1..(i - 1) : InsertAt(s, i, e)[j] = s[j]
         /\ \A j \in (i + 1)..(Len(s) + 1) : InsertAt(s, i, e)[j] = s[j - 1]
<1> DEFINE a == SubSeq(s, 1, i - 1)
           b == SubSeq(s, i, Len(s))
           ae == a \o <<e>>
<1>1. a \in Seq(S) /\ Len(a) = i - 1 /\ \A j \in 1..(i - 1) : a[j] = s[j]
  OBVIOUS
<1>2. b \in Seq(S) /\ Len(b) = Len(s) - i + 1 /\ \A j \in 1..(Len(s) - i + 1) : b[j] = s[i + j - 1]
  OBVIOUS
<1>3. ae \in Seq(S) /\ Len(ae) = i /\ ae[i] = e /\ \A j \in 1..(i - 1) : ae[j] = s[j]
  BY <1>1
<1>4. InsertAt(s, i, e) = ae \o b
  BY DEF InsertAt
<1> HIDE DEF ae, b
<1>5. /\ ae \o b \in Seq(S)
      /\ Len(ae \o b) = Len(s) + 1
      /\ \A j \in 1..i : (ae \o b)[j] = ae[j]
      /\ \A j \in (i + 1)..(Len(s) + 1) : (ae \o b)[j] = b[j - i]
  BY <1>2, <1>3
<1>6. \A j \in (i + 1)..(Len(s) + 1) : (ae \o b)[j] = s[j - 1]
  BY <1>2, <1>5
<1>7. QED BY <1>3, <1>4, <1>5, <1>6

\* RemoveAt takes the element at place i out and moves the rest down by one.
LEMMA RemoveAtElements ==
  ASSUME NEW S, NEW s \in Seq(S), NEW i \in 1..Len(s)
  PROVE  /\ RemoveAt(s, i) \in Seq(S)
         /\ Len(RemoveAt(s, i)) = Len(s) - 1
         /\ \A j \in 1..(i - 1) : RemoveAt(s, i)[j] = s[j]
         /\ \A j \in i..(Len(s) - 1) : RemoveAt(s, i)[j] = s[j + 1]
<1> DEFINE a == SubSeq(s, 1, i - 1)
           b == SubSeq(s, i + 1, Len(s))
<1>1. a \in Seq(S) /\ Len(a) = i - 1 /\ \A j \in 1..(i - 1) : a[j] = s[j]
  OBVIOUS
<1>2. b \in Seq(S) /\ Len(b) = Len(s) - i /\ \A j \in 1..(Len(s) - i) : b[j] = s[i + j]
  OBVIOUS
<1>3. RemoveAt(s, i) = a \o b
  BY DEF RemoveAt
<1> HIDE DEF a, b
<1>4. /\ a \o b \in Seq(S)
      /\ Len(a \o b) = Len(a) + Len(b)
      /\ \A j \in 1..Len(a) : (a \o b)[j] = a[j]
      /\ \A j \in (Len(a) + 1)..(Len(a) + Len(b)) : (a \o b)[j] = b[j - Len(a)]
  BY <1>1, <1>2, ConcatElements
<1>5. Len(a \o b) = Len(s) - 1 BY <1>1, <1>2, <1>4
<1>6. \A j \in 1..(i - 1) : (a \o b)[j] = s[j] BY <1>1, <1>4
<1>7. ASSUME NEW j \in i..(Len(s) - 1) PROVE (a \o b)[j] = s[j + 1]
  <2>1. j \in (Len(a) + 1)..(Len(a) + Len(b)) /\ j - Len(a) = j - i + 1
    BY <1>1, <1>2
  <2>2. (a \o b)[j] = b[j - i + 1] BY <1>4, <2>1
  <2>3. j - i + 1 \in 1..(Len(s) - i) /\ i + (j - i + 1) = j + 1 OBVIOUS
  <2>4. QED BY <1>2, <2>2, <2>3
<1>8. QED BY <1>3, <1>4, <1>5, <1>6, <1>7

-----------------------------------------------------------------------------
(***************************************************************************)
(* OnTime says nothing of the states inside a loop and of the order of the *)
(* list, on which run_timer_list's stopping at the first timer that is not *)
(* due relies.  The inductive invariant adds that a timer is linked once,  *)
(* that the list is ordered by what is left, and what each loop has done   *)
(* so far.                                                                 *)
(***************************************************************************)
Before(i) == IF i = 1 THEN 0 ELSE due[timer_list[i - 1]]

LinkedOnce == \A i, j \in 1..Len(timer_list) : timer_list[i] = timer_list[j] => i = j

Ordered == \A i, j \in 1..Len(timer_list) : i < j => due[timer_list[i]] <= due[timer_list[j]]

\* add_timer: the timer to be linked still misses what comes before place le.
Adding ==
  pc = "add" =>
    /\ le \in 1..(Len(timer_list) + 1)
    /\ \E p \in Procs : new = {p} /\ ~Linked(p) /\ due[p] = expires[p] + Before(le) /\ due[p] > 0

\* run_timer_list: only timers that are due have been unlinked.
LinkedIfDue ==
  /\ \A p \in Procs : due[p] > 0 => Linked(p) \/ p \in new
  /\ pc # "run" => \A p \in Procs : Linked(p) => due[p] > 0

Differences == \A i \in 1..Len(timer_list) : due[timer_list[i]] = expires[timer_list[i]] + Before(i)

TimerIInv ==
  /\ TimerTypeOK
  /\ pc # "add" => new = {}
  /\ LinkedOnce
  /\ Ordered
  /\ Adding
  /\ LinkedIfDue
  /\ Differences

LEMMA InitTimerIInv == TimerInit => TimerIInv
BY DEF TimerInit, TimerIInv, TimerTypeOK, LinkedOnce, Ordered, Adding, LinkedIfDue, Differences, Linked

\* The list as a function, in the form the steps below use.
LEMMA ListType ==
  ASSUME TimerTypeOK
  PROVE  /\ Len(timer_list) \in Nat
         /\ \A i \in 1..Len(timer_list) : timer_list[i] \in Procs
         /\ timer_list = <<>> <=> Len(timer_list) = 0
BY DEF TimerTypeOK

LEMMA AddTimerIInv ==
  ASSUME TimerIInv, NEW p \in Procs, NEW n \in 1..MaxExpires, add_timer(p, n) PROVE TimerIInv'
<1> USE MaxExpiresAssumption DEF TimerIInv, add_timer
<1>0. /\ Len(timer_list) \in Nat
      /\ \A i \in 1..Len(timer_list) : timer_list[i] \in Procs /\ timer_list[i] # p
  BY ListType DEF Linked
<1>1. TimerTypeOK' BY DEF TimerTypeOK
<1>2. LinkedOnce' BY DEF LinkedOnce
<1>3. \A q \in Procs : q # p => due'[q] = due[q] /\ expires'[q] = expires[q]
  BY DEF TimerTypeOK
<1>4. due'[p] = n /\ expires'[p] = n BY DEF TimerTypeOK
<1>5. Ordered' BY <1>0, <1>3 DEF Ordered
<1>6. Adding'
  <2>1. ~Linked(p)' BY DEF Linked
  <2>2. Before(le)' = 0 BY DEF Before
  <2>3. QED BY <2>1, <2>2, <1>0, <1>4 DEF Adding
<1>7. LinkedIfDue'
  <2>1. \A q \in Procs : Linked(q)' <=> Linked(q) BY DEF Linked
  <2>2. QED BY <2>1, <1>3, <1>4 DEF LinkedIfDue
<1>8. Differences' BY <1>0, <1>3 DEF Differences, Before
<1>9. QED BY <1>1, <1>2, <1>5, <1>6, <1>7, <1>8

LEMMA AddPassIInv ==
  ASSUME TimerIInv, NEW p \in Procs, add_pass(p) PROVE TimerIInv'
<1> USE DEF TimerIInv, add_pass
<1>0. /\ Len(timer_list) \in Nat
      /\ \A i \in 1..Len(timer_list) : timer_list[i] \in Procs
      /\ le \in 1..Len(timer_list)
  BY ListType DEF TimerTypeOK
<1>01. /\ new = {p} /\ due[p] = expires[p] + Before(le) /\ due[p] > 0
       /\ ~Linked(p)
  BY DEF Adding
<1>02. \A i \in 1..Len(timer_list) : timer_list[i] # p BY <1>01 DEF Linked
<1>03. \A q \in Procs : q # p => expires'[q] = expires[q] BY DEF TimerTypeOK
<1>04. expires'[p] = expires[p] - expires[timer_list[le]] BY DEF TimerTypeOK
<1>1. TimerTypeOK' BY <1>0 DEF TimerTypeOK
<1>2. LinkedOnce' BY DEF LinkedOnce
<1>3. Ordered' BY DEF Ordered
<1>4. Adding'
  <2>1. ~Linked(p)' BY <1>01 DEF Linked
  <2>2. Before(le)' = due[timer_list[le]] BY <1>0 DEF Before
  <2>3. due[timer_list[le]] = expires[timer_list[le]] + Before(le) BY <1>0 DEF Differences
  <2>4. Before(le) \in Nat BY <1>0 DEF Before, TimerTypeOK
  <2>5. due'[p] = expires'[p] + due[timer_list[le]]
    BY <1>0, <1>01, <1>04, <2>3, <2>4 DEF TimerTypeOK
  <2>6. QED BY <2>1, <2>2, <2>5, <1>0, <1>01 DEF Adding, TimerTypeOK
<1>5. LinkedIfDue'
  <2>1. \A q \in Procs : Linked(q)' <=> Linked(q) BY DEF Linked
  <2>2. QED BY <2>1 DEF LinkedIfDue
<1>6. Differences' BY <1>0, <1>02, <1>03 DEF Differences, Before
<1>7. QED BY <1>1, <1>2, <1>3, <1>4, <1>5, <1>6

LEMMA AddLinkIInv ==
  ASSUME TimerIInv, NEW p \in Procs, add_link(p) PROVE TimerIInv'
<1> DEFINE n == Len(timer_list)
           old(j) == IF j < le THEN j ELSE j - 1 \* the former place of j # le
<1>0. /\ n \in Nat
      /\ \A i \in 1..n : timer_list[i] \in Procs
      /\ le \in 1..(n + 1)
      /\ new = {p} /\ due[p] = expires[p] + Before(le) /\ due[p] > 0 /\ ~Linked(p)
  BY ListType DEF TimerIInv, add_link, Adding
<1>1. \A i \in 1..n : timer_list[i] # p BY <1>0 DEF Linked
<1>2. /\ timer_list' \in Seq(Procs)
      /\ Len(timer_list') = n + 1
      /\ timer_list'[le] = p
      /\ \A j \in 1..(le - 1) : timer_list'[j] = timer_list[j]
      /\ \A j \in (le + 1)..(n + 1) : timer_list'[j] = timer_list[j - 1]
  <2>1. timer_list \in Seq(Procs) /\ timer_list' = InsertAt(timer_list, le, p)
    BY DEF TimerIInv, TimerTypeOK, add_link
  <2>2. /\ InsertAt(timer_list, le, p) \in Seq(Procs)
        /\ Len(InsertAt(timer_list, le, p)) = Len(timer_list) + 1
        /\ InsertAt(timer_list, le, p)[le] = p
        /\ \A j \in 1..(le - 1) : InsertAt(timer_list, le, p)[j] = timer_list[j]
        /\ \A j \in (le + 1)..(Len(timer_list) + 1) :
             InsertAt(timer_list, le, p)[j] = timer_list[j - 1]
    <3>1. timer_list \in Seq(Procs) /\ le \in 1..(Len(timer_list) + 1) /\ p \in Procs
      BY <1>0, <2>1
    <3>2. QED BY ONLY <3>1, InsertAtElements
  <2>3. QED BY <2>1, <2>2, Zenon
<1>3. ASSUME NEW j \in 1..(n + 1), j # le
      PROVE  old(j) \in 1..n /\ timer_list'[j] = timer_list[old(j)]
  <2>1. CASE j < le
    <3>1. j \in 1..(le - 1) BY <2>1, <1>0
    <3>2. QED BY <2>1, <3>1, <1>0, <1>2
  <2>2. CASE j > le
    <3>1. j \in (le + 1)..(n + 1) BY <2>2, <1>0
    <3>2. QED BY <2>2, <3>1, <1>0, <1>2
  <2>3. QED BY <2>1, <2>2, <1>3, <1>0
<1>4. \A i \in 1..n : \E j \in 1..(n + 1) : j # le /\ old(j) = i
  <2> SUFFICES ASSUME NEW i \in 1..n PROVE \E j \in 1..(n + 1) : j # le /\ old(j) = i
    OBVIOUS
  <2>1. CASE i < le BY <2>1, <1>0
  <2>2. CASE ~(i < le)
    <3>1. i + 1 \in 1..(n + 1) /\ i + 1 # le /\ old(i + 1) = i BY <2>2, <1>0
    <3>2. QED BY <3>1
  <2>3. QED BY <2>1, <2>2
<1>5. due' = due /\ pc' = "idle" /\ new' = {} /\ le' = le BY DEF add_link
<1>6. /\ \A i \in 1..n : i # le => expires'[timer_list[i]] = expires[timer_list[i]]
      /\ expires'[p] = expires[p]
      /\ le <= n => /\ expires'[timer_list[le]] = expires[timer_list[le]] - expires[p]
                    /\ expires[timer_list[le]] - expires[p] \in Nat \ {0}
      /\ expires' \in [Procs -> Nat]
  <2>1. CASE le <= n
    <3>1. /\ expires' = [expires EXCEPT ![timer_list[le]] = @ - expires[p]]
          /\ expires[p] < expires[timer_list[le]]
      BY <2>1 DEF add_link
    <3>2. \A i \in 1..n : i # le => timer_list[i] # timer_list[le]
      BY <1>0, <2>1 DEF TimerIInv, LinkedOnce
    <3>3. QED BY <1>0, <1>1, <2>1, <3>1, <3>2 DEF TimerIInv, TimerTypeOK
  <2>2. CASE ~(le <= n) BY <1>0, <2>2 DEF add_link, TimerIInv, TimerTypeOK
  <2>3. QED BY <2>1, <2>2
<1>7. TimerTypeOK' BY <1>2, <1>5, <1>6 DEF TimerIInv, TimerTypeOK
<1>8. LinkedOnce'
  <2> SUFFICES ASSUME NEW i \in 1..(n + 1), NEW j \in 1..(n + 1),
                      timer_list'[i] = timer_list'[j]
               PROVE  i = j
    BY <1>2 DEF LinkedOnce
  <2>1. CASE i = le \/ j = le BY <2>1, <1>1, <1>2, <1>3
  <2>2. CASE i # le /\ j # le
    <3>1. old(i) = old(j) BY <2>2, <1>3 DEF TimerIInv, LinkedOnce
    <3>2. QED BY <3>1, <2>2, <1>0
  <2>3. QED BY <2>1, <2>2
\* The new timer belongs where it is put.
<1>9. \A i \in 1..n : /\ i < le => due[timer_list[i]] <= due[p]
                      /\ i >= le => due[p] <= due[timer_list[i]]
  <2> SUFFICES ASSUME NEW i \in 1..n
               PROVE  /\ i < le => due[timer_list[i]] <= due[p]
                      /\ i >= le => due[p] <= due[timer_list[i]]
    OBVIOUS
  <2>0. Before(le) \in Nat BY <1>0 DEF Before, TimerIInv, TimerTypeOK
  <2>a. \A k \in 1..n : timer_list[k] \in Procs BY <1>0 DEF TimerIInv, TimerTypeOK
  <2>b. due[p] \in Nat /\ \A k \in 1..n : due[timer_list[k]] \in Nat
    BY <2>a DEF TimerIInv, TimerTypeOK
  <2>1. ASSUME i < le PROVE due[timer_list[i]] <= due[p]
    <3>1. le - 1 \in 1..n /\ Before(le) = due[timer_list[le - 1]]
      BY <2>1, <1>0 DEF Before
    <3>2. due[timer_list[i]] <= due[timer_list[le - 1]]
      <4>1. CASE i = le - 1 BY <4>1, <1>0 DEF TimerIInv, TimerTypeOK
      <4>2. CASE i # le - 1
        <5>1. i < le - 1 BY <2>1, <4>2, <1>0
        <5>2. QED BY <3>1, <5>1 DEF TimerIInv, Ordered
      <4>3. QED BY <4>1, <4>2
    <3>3. due[timer_list[le - 1]] <= due[p] BY <3>1, <2>0, <1>0 DEF TimerIInv, TimerTypeOK
    <3>4. QED BY <3>1, <3>2, <3>3, <2>b
  <2>2. ASSUME i >= le PROVE due[p] <= due[timer_list[i]]
    <3>1. le \in 1..n /\ le <= n BY <2>2, <1>0
    <3>2. due[timer_list[le]] = expires[timer_list[le]] + Before(le)
      BY <3>1 DEF TimerIInv, Differences
    <3>3. expires[p] < expires[timer_list[le]] BY <3>1 DEF add_link
    <3>4. due[p] <= due[timer_list[le]]
      BY <3>1, <3>2, <3>3, <2>0, <1>0 DEF TimerIInv, TimerTypeOK
    <3>5. due[timer_list[le]] <= due[timer_list[i]]
      BY <2>2, <3>1, <1>0 DEF TimerIInv, Ordered, TimerTypeOK
    <3>6. QED BY <3>1, <3>4, <3>5, <2>b
  <2>3. QED BY <2>1, <2>2
<1>10. Ordered'
  <2> SUFFICES ASSUME NEW i \in 1..(n + 1), NEW j \in 1..(n + 1), i < j
               PROVE  due[timer_list'[i]] <= due[timer_list'[j]]
    BY <1>2, <1>5 DEF Ordered
  <2>1. CASE i = le
    <3>1. j # le /\ old(j) >= le /\ old(j) \in 1..n BY <2>1, <1>0
    <3>2. QED BY <2>1, <3>1, <1>2, <1>3, <1>9
  <2>2. CASE j = le
    <3>1. i # le /\ old(i) < le /\ old(i) \in 1..n BY <2>2, <1>0
    <3>2. QED BY <2>2, <3>1, <1>2, <1>3, <1>9
  <2>3. CASE i # le /\ j # le
    <3>1. old(i) < old(j) BY <2>3, <1>0
    <3>2. QED BY <2>3, <3>1, <1>3 DEF TimerIInv, Ordered
  <2>4. QED BY <2>1, <2>2, <2>3
<1>11. Adding' BY <1>5 DEF Adding
<1>12. LinkedIfDue'
  <2>1. \A q \in Procs : Linked(q)' <=> Linked(q) \/ q = p
    <3> SUFFICES ASSUME NEW q \in Procs PROVE Linked(q)' <=> Linked(q) \/ q = p
      OBVIOUS
    <3>1. ASSUME Linked(q)' PROVE Linked(q) \/ q = p
      <4>1. PICK j \in 1..(n + 1) : timer_list'[j] = q BY <3>1, <1>2 DEF Linked
      <4>2. CASE j = le BY <4>1, <4>2, <1>2
      <4>3. CASE j # le
        <5>1. old(j) \in 1..n /\ timer_list[old(j)] = q BY <4>1, <4>3, <1>3
        <5>2. QED BY <5>1 DEF Linked
      <4>4. QED BY <4>2, <4>3
    <3>2. ASSUME Linked(q) PROVE Linked(q)'
      <4>1. PICK i \in 1..n : timer_list[i] = q BY <3>2 DEF Linked
      <4>2. PICK j \in 1..(n + 1) : j # le /\ old(j) = i BY <1>4
      <4>3. timer_list'[j] = q BY <4>1, <4>2, <1>3
      <4>4. QED BY <4>3, <1>2 DEF Linked
    <3>3. ASSUME q = p PROVE Linked(q)' BY <3>3, <1>0, <1>2 DEF Linked
    <3>4. QED BY <3>1, <3>2, <3>3
  <2>2. pc = "add" BY DEF add_link
  <2>3. QED BY <2>1, <2>2, <1>0, <1>5 DEF TimerIInv, LinkedIfDue
<1>13. Differences'
  <2> SUFFICES ASSUME NEW i \in 1..(n + 1)
               PROVE  due[timer_list'[i]] = expires'[timer_list'[i]] + Before(i)'
    BY <1>2, <1>5 DEF Differences
  <2>1. CASE i < le
    <3>1. /\ timer_list'[i] = timer_list[i] /\ i \in 1..n /\ i # le
          /\ Before(i)' = Before(i)
      BY <2>1, <1>0, <1>2, <1>5 DEF Before
    <3>2. QED BY <3>1, <1>6 DEF TimerIInv, Differences
  <2>2. CASE i = le
    <3>1. timer_list'[i] = p /\ Before(i)' = Before(le)
      BY <2>2, <1>0, <1>2, <1>5 DEF Before
    <3>2. QED BY <3>1, <1>0, <1>6
  <2>3. CASE i = le + 1
    <3>1. /\ timer_list'[i] = timer_list[le] /\ le \in 1..n
          /\ Before(i)' = due[p]
      BY <2>3, <1>0, <1>2, <1>5 DEF Before
    <3>2. due[timer_list[le]] = expires[timer_list[le]] + Before(le)
      BY <3>1 DEF TimerIInv, Differences
    <3>3. Before(le) \in Nat BY <1>0 DEF Before, TimerIInv, TimerTypeOK
    <3>4. expires'[timer_list[le]] = expires[timer_list[le]] - expires[p]
      BY <3>1, <1>6
    <3>5. QED BY <3>1, <3>2, <3>3, <3>4, <1>0 DEF TimerIInv, TimerTypeOK
  <2>4. CASE i > le + 1
    <3>1. /\ i - 1 \in 1..n /\ i - 1 # le /\ timer_list'[i] = timer_list[i - 1]
          /\ Before(i)' = Before(i - 1)
      BY <2>4, <1>0, <1>2, <1>5 DEF Before
    <3>2. QED BY <3>1, <1>6 DEF TimerIInv, Differences
  <2>5. QED BY <2>1, <2>2, <2>3, <2>4, <1>0
<1>14. QED BY <1>5, <1>7, <1>8, <1>10, <1>11, <1>12, <1>13 DEF TimerIInv

LEMMA DelTimerIInv ==
  ASSUME TimerIInv, NEW p \in Procs, del_timer(p) PROVE TimerIInv'
<1> DEFINE n == Len(timer_list)
<1>0. PICK k \in 1..n :
        /\ timer_list[k] = p
        /\ expires' = IF expires[p] # 0 /\ k < n
                      THEN [expires EXCEPT ![timer_list[k + 1]] = @ + expires[p]]
                      ELSE expires
        /\ timer_list' = RemoveAt(timer_list, k)
  BY DEF del_timer
<1>1. /\ n \in Nat
      /\ \A i \in 1..n : timer_list[i] \in Procs
      /\ \A i \in 1..n : timer_list[i] = p => i = k
  BY <1>0, ListType DEF TimerIInv, LinkedOnce
<1>2. /\ timer_list' \in Seq(Procs)
      /\ Len(timer_list') = n - 1
      /\ \A j \in 1..(k - 1) : timer_list'[j] = timer_list[j]
      /\ \A j \in k..(n - 1) : timer_list'[j] = timer_list[j + 1]
  <2>1. timer_list \in Seq(Procs) /\ k \in 1..Len(timer_list) BY <1>0 DEF TimerIInv, TimerTypeOK
  <2>2. /\ RemoveAt(timer_list, k) \in Seq(Procs)
        /\ Len(RemoveAt(timer_list, k)) = Len(timer_list) - 1
        /\ \A j \in 1..(k - 1) : RemoveAt(timer_list, k)[j] = timer_list[j]
        /\ \A j \in k..(Len(timer_list) - 1) : RemoveAt(timer_list, k)[j] = timer_list[j + 1]
    BY ONLY <2>1, RemoveAtElements
  <2>3. QED BY <1>0, <2>2, Zenon
<1> DEFINE old(j) == IF j < k THEN j ELSE j + 1
<1>3. ASSUME NEW j \in 1..(n - 1)
      PROVE  /\ old(j) \in 1..n /\ old(j) # k
             /\ timer_list'[j] = timer_list[old(j)]
  <2>1. CASE j < k
    <3>1. j \in 1..(k - 1) BY <2>1, <1>1
    <3>2. QED BY <2>1, <3>1, <1>1, <1>2
  <2>2. CASE ~(j < k)
    <3>1. j \in k..(n - 1) BY <2>2, <1>1
    <3>2. QED BY <2>2, <3>1, <1>1, <1>2
  <2>3. QED BY <2>1, <2>2
<1>4. /\ due'[p] = 0
      /\ \A q \in Procs : q # p => due'[q] = due[q]
      /\ pc' = "idle" /\ pc = "idle" /\ new' = {} /\ new = {} /\ le' = le
      /\ due' \in [Procs -> Nat]
  BY DEF del_timer, TimerIInv, TimerTypeOK
<1>5. /\ expires' \in [Procs -> Nat]
      /\ \A i \in 1..n : i # k + 1 => expires'[timer_list[i]] = expires[timer_list[i]]
      /\ k < n => expires'[timer_list[k + 1]] = expires[timer_list[k + 1]] + expires[p]
  <2>1. CASE expires[p] # 0 /\ k < n
    <3>1. expires' = [expires EXCEPT ![timer_list[k + 1]] = @ + expires[p]] BY <1>0, <2>1
    <3>2. k + 1 \in 1..n BY <2>1, <1>1
    <3>3. \A i \in 1..n : i # k + 1 => timer_list[i] # timer_list[k + 1]
      BY <3>2 DEF TimerIInv, LinkedOnce
    <3>4. QED BY <3>1, <3>2, <3>3, <1>1 DEF TimerIInv, TimerTypeOK
  <2>2. CASE ~(expires[p] # 0 /\ k < n)
    <3>1. expires' = expires BY <1>0, <2>2
    <3>2. k < n => k + 1 \in 1..n /\ expires[p] = 0 BY <2>2, <1>1
    <3>3. QED BY <3>1, <3>2, <1>1 DEF TimerIInv, TimerTypeOK
  <2>3. QED BY <2>1, <2>2
<1>6. TimerTypeOK' BY <1>2, <1>4, <1>5 DEF TimerIInv, TimerTypeOK
<1>7. LinkedOnce'
  <2> SUFFICES ASSUME NEW i \in 1..(n - 1), NEW j \in 1..(n - 1),
                      timer_list'[i] = timer_list'[j]
               PROVE  i = j
    BY <1>2 DEF LinkedOnce
  <2>1. old(i) = old(j) BY <1>3 DEF TimerIInv, LinkedOnce
  <2>2. QED BY <2>1, <1>1
\* Nothing changes for the other timers.
<1>8. \A j \in 1..(n - 1) : /\ timer_list'[j] \in Procs /\ timer_list'[j] # p
                            /\ due'[timer_list'[j]] = due[timer_list[old(j)]]
  BY <1>1, <1>3, <1>4
<1>9. Ordered'
  <2> SUFFICES ASSUME NEW i \in 1..(n - 1), NEW j \in 1..(n - 1), i < j
               PROVE  due'[timer_list'[i]] <= due'[timer_list'[j]]
    BY <1>2 DEF Ordered
  <2>1. old(i) < old(j) BY <1>1
  <2>2. due[timer_list[old(i)]] <= due[timer_list[old(j)]]
    BY <2>1, <1>3 DEF TimerIInv, Ordered
  <2>3. QED BY <2>2, <1>8
<1>10. Adding' BY <1>4 DEF Adding
<1>11. LinkedIfDue'
  <2>1. \A q \in Procs : Linked(q)' <=> Linked(q) /\ q # p
    <3> SUFFICES ASSUME NEW q \in Procs PROVE Linked(q)' <=> Linked(q) /\ q # p
      OBVIOUS
    <3>1. ASSUME Linked(q)' PROVE Linked(q) /\ q # p
      <4>1. PICK j \in 1..(n - 1) : timer_list'[j] = q BY <3>1, <1>2 DEF Linked
      <4>2. old(j) \in 1..n /\ timer_list[old(j)] = q /\ q # p BY <4>1, <1>3, <1>8
      <4>3. QED BY <4>2 DEF Linked
    <3>2. ASSUME Linked(q), q # p PROVE Linked(q)'
      <4>1. PICK i \in 1..n : timer_list[i] = q BY <3>2 DEF Linked
      <4>2. i # k BY <4>1, <3>2, <1>0
      <4>3. CASE i < k
        <5>1. i \in 1..(n - 1) /\ i \in 1..(k - 1) BY <4>3, <1>1
        <5>2. QED BY <5>1, <4>1, <1>2 DEF Linked
      <4>4. CASE i > k
        <5>1. i - 1 \in 1..(n - 1) /\ i - 1 \in k..(n - 1) /\ (i - 1) + 1 = i
          BY <4>4, <1>1
        <5>2. timer_list'[i - 1] = q BY <5>1, <4>1, <1>2
        <5>3. QED BY <5>1, <5>2, <1>2 DEF Linked
      <4>5. QED BY <4>2, <4>3, <4>4, <1>1
    <3>3. QED BY <3>1, <3>2
  <2>2. QED BY <2>1, <1>4 DEF TimerIInv, LinkedIfDue
<1>12. Differences'
  <2> SUFFICES ASSUME NEW j \in 1..(n - 1)
               PROVE  due'[timer_list'[j]] = expires'[timer_list'[j]] + Before(j)'
    BY <1>2 DEF Differences
  <2>1. due'[timer_list'[j]] = due[timer_list[old(j)]] BY <1>8
  <2>2. due[timer_list[old(j)]] = expires[timer_list[old(j)]] + Before(old(j))
    BY <1>3 DEF TimerIInv, Differences
  <2>3. CASE j < k
    <3>1. timer_list'[j] = timer_list[j] /\ j \in 1..n /\ j # k + 1
      BY <2>3, <1>1, <1>3
    <3>2. Before(j)' = Before(j)
      <4>1. CASE j = 1 BY <4>1 DEF Before
      <4>2. CASE j # 1
        <5>1. j - 1 \in 1..(n - 1) /\ j - 1 < k BY <4>2, <2>3, <1>1
        <5>2. due'[timer_list'[j - 1]] = due[timer_list[j - 1]] BY <5>1, <1>8
        <5>3. QED BY <4>2, <5>2 DEF Before
      <4>3. QED BY <4>1, <4>2
    <3>3. QED BY <2>1, <2>2, <2>3, <3>1, <3>2, <1>5
  <2>4. CASE j = k
    <3>1. /\ timer_list'[j] = timer_list[k + 1] /\ k < n /\ k + 1 \in 1..n
          /\ old(j) = k + 1
      BY <2>4, <1>1, <1>3
    <3>2. Before(k + 1) = due[p] BY <1>0, <1>1 DEF Before
    <3>3. due[p] = expires[p] + Before(k) BY <1>0 DEF TimerIInv, Differences
    <3>4. Before(j)' = Before(k) /\ Before(k) \in Nat
      <4>1. CASE k = 1 BY <4>1, <2>4 DEF Before
      <4>2. CASE k # 1
        <5>1. k - 1 \in 1..(n - 1) /\ k - 1 < k /\ k - 1 \in 1..n BY <4>2, <1>1
        <5>2. due'[timer_list'[k - 1]] = due[timer_list[k - 1]] BY <5>1, <1>8
        <5>3. due[timer_list[k - 1]] \in Nat BY <5>1, <1>1 DEF TimerIInv, TimerTypeOK
        <5>4. QED BY <4>2, <2>4, <5>2, <5>3 DEF Before
      <4>3. QED BY <4>1, <4>2
    <3>5. expires'[timer_list[k + 1]] = expires[timer_list[k + 1]] + expires[p]
      BY <3>1, <1>5
    <3>6. expires[p] \in Nat /\ expires[timer_list[k + 1]] \in Nat
      BY <3>1, <1>1 DEF TimerIInv, TimerTypeOK
    <3>7. QED BY <2>1, <2>2, <3>1, <3>2, <3>3, <3>4, <3>5, <3>6
  <2>5. CASE j > k
    <3>1. /\ timer_list'[j] = timer_list[j + 1] /\ old(j) = j + 1
          /\ j + 1 \in 1..n /\ j + 1 # k + 1
      BY <2>5, <1>1, <1>3
    <3>2. Before(j)' = Before(j + 1)
      <4>1. j - 1 \in 1..(n - 1) /\ j # 1 /\ j + 1 # 1 /\ old(j - 1) = j /\ (j + 1) - 1 = j
        BY <2>5, <1>1
      <4>2. due'[timer_list'[j - 1]] = due[timer_list[j]] BY <4>1, <1>8
      <4>3. QED BY <4>1, <4>2 DEF Before
    <3>3. QED BY <2>1, <2>2, <3>1, <3>2, <1>5
  <2>6. QED BY <2>3, <2>4, <2>5, <1>1
<1>13. QED BY <1>4, <1>6, <1>7, <1>9, <1>10, <1>11, <1>12 DEF TimerIInv

LEMMA RunIInv == ASSUME TimerIInv, run_timer_list PROVE TimerIInv'
<1> DEFINE n == Len(timer_list)
<1>1. /\ n \in Nat \ {0} /\ 1 \in 1..n
      /\ \A i \in 1..n : timer_list[i] \in Procs
  BY ListType DEF TimerIInv, run_timer_list
<1>2. /\ timer_list' = timer_list /\ le' = le /\ new' = new /\ new = {}
      /\ pc' = "run" /\ pc = "idle"
  BY DEF TimerIInv, run_timer_list
<1>3. \A i \in 1..n : due[timer_list[i]] \in Nat \ {0} /\ due'[timer_list[i]] = due[timer_list[i]] - 1
  <2>1. \A i \in 1..n : Linked(timer_list[i]) BY DEF Linked
  <2>2. \A i \in 1..n : due[timer_list[i]] > 0 BY <2>1, <1>1, <1>2 DEF TimerIInv, LinkedIfDue
  <2>3. QED BY <2>2, <1>1 DEF TimerIInv, TimerTypeOK, run_timer_list
<1>4. /\ expires[timer_list[1]] = due[timer_list[1]]
      /\ expires'[timer_list[1]] = expires[timer_list[1]] - 1
      /\ expires' \in [Procs -> Nat]
      /\ \A i \in 2..n : expires'[timer_list[i]] = expires[timer_list[i]]
  <2>1. expires[timer_list[1]] = due[timer_list[1]]
    <3>1. due[timer_list[1]] = expires[timer_list[1]] + Before(1) BY <1>1 DEF TimerIInv, Differences
    <3>2. QED BY <3>1, <1>1 DEF Before, TimerIInv, TimerTypeOK
  <2>2. \A i \in 2..n : timer_list[i] # timer_list[1] /\ timer_list[i] \in Procs
    BY <1>1 DEF TimerIInv, LinkedOnce
  <2>3. QED BY <2>1, <2>2, <1>1, <1>3 DEF TimerIInv, TimerTypeOK, run_timer_list
<1>5. due' \in [Procs -> Nat] BY DEF TimerIInv, TimerTypeOK, run_timer_list
<1>6. TimerTypeOK' BY <1>2, <1>4, <1>5 DEF TimerIInv, TimerTypeOK
<1>7. LinkedOnce' BY <1>2 DEF TimerIInv, LinkedOnce
<1>8. Ordered' BY <1>2, <1>3 DEF TimerIInv, Ordered
<1>9. Adding' BY <1>2 DEF Adding
<1>10. LinkedIfDue'
  <2>1. \A q \in Procs : Linked(q)' <=> Linked(q) BY <1>2 DEF Linked
  <2>2. \A q \in Procs : due'[q] > 0 => due[q] > 0 BY DEF run_timer_list, TimerIInv, TimerTypeOK
  <2>3. QED BY <2>1, <2>2, <1>2 DEF TimerIInv, LinkedIfDue
<1>11. Differences'
  <2> SUFFICES ASSUME NEW i \in 1..n
               PROVE  due'[timer_list[i]] = expires'[timer_list[i]] + Before(i)'
    BY <1>2 DEF Differences
  <2>1. CASE i = 1 BY <2>1, <1>3, <1>4 DEF Before
  <2>2. CASE i # 1
    <3>1. i \in 2..n /\ i - 1 \in 1..n BY <2>2, <1>1
    <3>2. Before(i)' = Before(i) - 1 /\ Before(i) \in Nat BY <2>2, <3>1, <1>2, <1>3 DEF Before
    <3>3. due[timer_list[i]] = expires[timer_list[i]] + Before(i) BY DEF TimerIInv, Differences
    <3>4. expires[timer_list[i]] \in Nat BY <1>1 DEF TimerIInv, TimerTypeOK
    <3>5. QED BY <3>1, <3>2, <3>3, <3>4, <1>3, <1>4
  <2>3. QED BY <2>1, <2>2
<1>12. QED BY <1>2, <1>6, <1>7, <1>8, <1>9, <1>10, <1>11 DEF TimerIInv

LEMMA ExpireIInv == ASSUME TimerIInv, run_expire PROVE TimerIInv'
<1> DEFINE n == Len(timer_list)
<1>1. /\ n \in Nat \ {0} /\ 1 \in 1..n
      /\ \A i \in 1..n : timer_list[i] \in Procs
  BY ListType DEF TimerIInv, run_expire
<1>2. /\ timer_list' \in Seq(Procs)
      /\ Len(timer_list') = n - 1
      /\ \A j \in 1..(n - 1) : timer_list'[j] = timer_list[j + 1]
  BY <1>1 DEF run_expire, TimerIInv, TimerTypeOK
<1>3. /\ expires' = expires /\ due' = due /\ le' = le /\ new' = new /\ new = {}
      /\ pc' = "run" /\ pc = "run"
  BY DEF TimerIInv, run_expire
<1>4. due[timer_list[1]] = 0
  <2>1. due[timer_list[1]] = expires[timer_list[1]] + Before(1) BY <1>1 DEF TimerIInv, Differences
  <2>2. QED BY <2>1, <1>1 DEF Before, run_expire
<1>5. \A j \in 1..(n - 1) : j + 1 \in 1..n BY <1>1
<1>6. TimerTypeOK' BY <1>2, <1>3 DEF TimerIInv, TimerTypeOK
<1>7. LinkedOnce'
  <2> SUFFICES ASSUME NEW i \in 1..(n - 1), NEW j \in 1..(n - 1),
                      timer_list'[i] = timer_list'[j]
               PROVE  i = j
    BY <1>2 DEF LinkedOnce
  <2>1. i + 1 = j + 1 BY <1>2, <1>5 DEF TimerIInv, LinkedOnce
  <2>2. QED BY <2>1
<1>8. Ordered'
  <2> SUFFICES ASSUME NEW i \in 1..(n - 1), NEW j \in 1..(n - 1), i < j
               PROVE  due[timer_list'[i]] <= due[timer_list'[j]]
    BY <1>2, <1>3 DEF Ordered
  <2>1. i + 1 < j + 1 OBVIOUS
  <2>2. QED BY <2>1, <1>2, <1>5 DEF TimerIInv, Ordered
<1>9. Adding' BY <1>3 DEF Adding
<1>10. LinkedIfDue'
  <2> SUFFICES ASSUME NEW q \in Procs, due[q] > 0 PROVE Linked(q)'
    BY <1>3 DEF LinkedIfDue
  <2>1. PICK i \in 1..n : timer_list[i] = q BY <1>3 DEF TimerIInv, LinkedIfDue, Linked
  <2>2. i # 1 BY <2>1, <1>4
  <2>3. i - 1 \in 1..(n - 1) /\ (i - 1) + 1 = i BY <2>2, <1>1
  <2>4. timer_list'[i - 1] = q BY <2>1, <2>3, <1>2
  <2>5. QED BY <2>3, <2>4, <1>2 DEF Linked
<1>11. Differences'
  <2> SUFFICES ASSUME NEW i \in 1..(n - 1)
               PROVE  due[timer_list'[i]] = expires[timer_list'[i]] + Before(i)'
    BY <1>2, <1>3 DEF Differences
  <2>1. due[timer_list[i + 1]] = expires[timer_list[i + 1]] + Before(i + 1)
    BY <1>5 DEF TimerIInv, Differences
  <2>2. Before(i + 1) = due[timer_list[i]] BY DEF Before
  <2>3. Before(i)' = due[timer_list[i]]
    <3>1. CASE i = 1 BY <3>1, <1>4 DEF Before
    <3>2. CASE i # 1
      <4>1. i - 1 \in 1..(n - 1) /\ (i - 1) + 1 = i BY <3>2, <1>1
      <4>2. timer_list'[i - 1] = timer_list[i] BY <4>1, <1>2
      <4>3. QED BY <3>2, <4>2, <1>3 DEF Before
    <3>3. QED BY <3>1, <3>2
  <2>4. QED BY <2>1, <2>2, <2>3, <1>2
<1>12. QED BY <1>3, <1>6, <1>7, <1>8, <1>9, <1>10, <1>11 DEF TimerIInv

\* The loop stops at the first timer that is not due; the order of the list
\* says that no later one is.
LEMMA RunEndIInv == ASSUME TimerIInv, run_end PROVE TimerIInv'
<1> DEFINE n == Len(timer_list)
<1>1. n \in Nat /\ \A i \in 1..n : timer_list[i] \in Procs
  BY ListType DEF TimerIInv
<1>2. /\ timer_list' = timer_list /\ expires' = expires /\ due' = due /\ le' = le
      /\ new' = new /\ new = {} /\ pc' = "idle"
  BY DEF TimerIInv, run_end
<1>3. TimerTypeOK' /\ LinkedOnce' /\ Ordered' /\ Adding' /\ Differences'
  BY <1>2 DEF TimerIInv, TimerTypeOK, LinkedOnce, Ordered, Adding, Differences, Before
<1>4. ASSUME NEW i \in 1..n PROVE due[timer_list[i]] > 0
  <2>1. 1 \in 1..n /\ timer_list # <<>> BY <1>1, ListType DEF TimerIInv
  <2>2. due[timer_list[1]] = expires[timer_list[1]] + Before(1) BY <2>1 DEF TimerIInv, Differences
  <2>3. due[timer_list[1]] > 0 BY <2>1, <2>2, <1>1 DEF Before, run_end, TimerIInv, TimerTypeOK
  <2>4. CASE i = 1 BY <2>3, <2>4
  <2>5. CASE i # 1
    <3>1. due[timer_list[1]] <= due[timer_list[i]] BY <2>1, <2>5, <1>1 DEF TimerIInv, Ordered
    <3>2. QED BY <2>1, <2>3, <3>1, <1>1 DEF TimerIInv, TimerTypeOK
  <2>6. QED BY <2>4, <2>5
<1>5. LinkedIfDue'
  <2>1. \A q \in Procs : Linked(q)' <=> Linked(q) BY <1>2 DEF Linked
  <2>2. \A q \in Procs : Linked(q) => due[q] > 0 BY <1>4 DEF Linked
  <2>3. QED BY <2>1, <2>2, <1>2 DEF TimerIInv, LinkedIfDue
<1>6. QED BY <1>2, <1>3, <1>5 DEF TimerIInv

LEMMA StepTimerIInv == TimerIInv /\ [TimerNext]_timervars => TimerIInv'
<1> SUFFICES ASSUME TimerIInv, [TimerNext]_timervars PROVE TimerIInv' OBVIOUS
<1>1. ASSUME NEW p \in Procs, NEW n \in 1..MaxExpires, add_timer(p, n) PROVE TimerIInv'
  BY <1>1, AddTimerIInv
<1>2. ASSUME NEW p \in Procs, add_pass(p) PROVE TimerIInv' BY <1>2, AddPassIInv
<1>3. ASSUME NEW p \in Procs, add_link(p) PROVE TimerIInv' BY <1>3, AddLinkIInv
<1>4. ASSUME NEW p \in Procs, del_timer(p) PROVE TimerIInv' BY <1>4, DelTimerIInv
<1>5. CASE run_timer_list BY <1>5, RunIInv
<1>6. CASE run_expire BY <1>6, ExpireIInv
<1>7. CASE run_end BY <1>7, RunEndIInv
<1>8. CASE UNCHANGED timervars
  BY <1>8 DEF timervars, TimerIInv, TimerTypeOK, LinkedOnce, Ordered, Adding, LinkedIfDue, Differences,
              Before, Linked
<1>9. QED BY <1>1, <1>2, <1>3, <1>4, <1>5, <1>6, <1>7, <1>8 DEF TimerNext

LEMMA TimerIInvImplies == TimerIInv => TimerTypeOK /\ HeadNotDue /\ DifferencesExact /\ OnTime
<1> SUFFICES ASSUME TimerIInv PROVE TimerTypeOK /\ HeadNotDue /\ DifferencesExact /\ OnTime OBVIOUS
<1>1. DifferencesExact BY DEF TimerIInv, Differences, Before, DifferencesExact
<1>2. OnTime BY DEF TimerIInv, OnTime, LinkedIfDue
<1>3. ASSUME pc = "idle", timer_list # <<>> PROVE expires[timer_list[1]] # 0
  <2>1. 1 \in 1..Len(timer_list) /\ timer_list[1] \in Procs BY <1>3, ListType DEF TimerIInv
  <2>2. due[timer_list[1]] > 0 BY <1>2, <1>3, <2>1 DEF OnTime, Linked
  <2>3. due[timer_list[1]] = expires[timer_list[1]] + 0 BY <1>1, <2>1 DEF DifferencesExact
  <2>4. QED BY <2>1, <2>2, <2>3 DEF TimerIInv, TimerTypeOK
<1>4. QED BY <1>1, <1>2, <1>3 DEF TimerIInv, HeadNotDue

\* Sleepers are woken exactly at the tick they asked for: the delta encoding of
\* add_timer, del_timer and run_timer_list is right for any number of timers,
\* added and deleted in any order.
THEOREM WokenOnTime == TimerSpec => []OnTime
BY InitTimerIInv, StepTimerIInv, TimerIInvImplies, PTL DEF TimerSpec

\* run_timer_list's assertion on the first timer never fails, and no expires
\* field is ever decremented below zero.
THEOREM HeadAssertion == TimerSpec => [](TimerTypeOK /\ HeadNotDue)
BY InitTimerIInv, StepTimerIInv, TimerIInvImplies, PTL DEF TimerSpec

\* The stored differences always are those of the ticks asked for.
THEOREM DifferencesAlways == TimerSpec => []DifferencesExact
BY InitTimerIInv, StepTimerIInv, TimerIInvImplies, PTL DEF TimerSpec

-----------------------------------------------------------------------------
(***************************************************************************)
(* The console input.                                                      *)
(***************************************************************************)
\* The types TypeOK leaves out.
BuffersOK ==
  /\ cons_buf \in [0..(CONSBUFSIZE - 1) -> Nat]
  /\ stdin_buffer \in [0..(STDIN_BUFSIZE - 1) -> Nat]
  /\ got \in Seq(Nat)
  /\ overrun \in BOOLEAN

\* As long as no ring was written when full, the character at position k of the
\* stdin ring is the (k+1)-st, the reader has got those below p_rpos, and the
\* console ring goes on where stdin ends.
RingsExact ==
  ~overrun =>
    /\ Len(got) = p_rpos
    /\ \A i \in 1..Len(got) : got[i] = i
    /\ \A k \in p_rpos..(p_wpos - 1) : stdin_buffer[k % STDIN_BUFSIZE] = k + 1
    /\ typed = p_wpos + ConsHeld
    /\ \A i \in 0..(ConsHeld - 1) : cons_buf[(cons_rpos + i) % CONSBUFSIZE] = p_wpos + 1 + i

IInv ==
  /\ TypeOK
  /\ BuffersOK
  /\ EntriesAlive
  /\ NoSleeperWithInput
  /\ RingsExact

-----------------------------------------------------------------------------
\* Positions in a ring of n places.
LEMMA ModRange == ASSUME NEW n \in Nat \ {0}, NEW a \in Int PROVE a % n \in 0..(n - 1)
  OBVIOUS

LEMMA ModUnique ==
  ASSUME NEW n \in Nat \ {0}, NEW q \in Int, NEW r \in 0..(n - 1)
  PROVE  (n * q + r) % n = r
  OBVIOUS

LEMMA ModOnce ==
  ASSUME NEW n \in Nat \ {0}, NEW a \in (-n)..(2 * n - 1)
  PROVE  a % n = IF a < 0 THEN a + n ELSE IF a < n THEN a ELSE a - n
  OBVIOUS

\* Two positions less than a ring apart are in different places.
LEMMA ModDistinct ==
  ASSUME NEW n \in Nat \ {0}, NEW a \in Int, NEW b \in Int, a < b, b - a < n
  PROVE  a % n # b % n
<1> DEFINE q == a \div n
<1> DEFINE r == a % n
<1> DEFINE d == b - a
<1>1. q \in Int /\ r \in 0..(n - 1) /\ a = n * q + r OBVIOUS
<1>2. d \in 1..(n - 1) /\ b = a + d OBVIOUS
<1> HIDE DEF q, r, d
<1>3. CASE r + d < n
  <2>1. b = n * q + (r + d) /\ r + d \in 0..(n - 1) BY <1>1, <1>2, <1>3
  <2>2. b % n = r + d BY <2>1, <1>1, ModUnique
  <2>3. a % n = r BY DEF r
  <2>4. QED BY <2>2, <2>3, <1>1, <1>2
<1>4. CASE r + d >= n
  <2>1. b = n * (q + 1) + (r + d - n) /\ r + d - n \in 0..(n - 1) /\ q + 1 \in Int
    BY <1>1, <1>2, <1>4
  <2>2. b % n = r + d - n BY <2>1, ModUnique
  <2>3. a % n = r BY DEF r
  <2>4. QED BY <2>2, <2>3, <1>1, <1>2
<1>5. QED BY <1>1, <1>2, <1>3, <1>4

\* ... and moving by d is the same before and after a reduction.
LEMMA ModAdd ==
  ASSUME NEW n \in Nat \ {0}, NEW a \in Int, NEW d \in Int
  PROVE  ((a % n) + d) % n = (a + d) % n
<1> DEFINE q == a \div n
<1> DEFINE r == a % n
<1>1. q \in Int /\ r \in 0..(n - 1) /\ a = n * q + r OBVIOUS
<1> DEFINE k == (r + d) \div n
<1> DEFINE s == (r + d) % n
<1>2. k \in Int /\ s \in 0..(n - 1) /\ r + d = n * k + s BY <1>1
<1> HIDE DEF q, r, k, s
<1>3. a + d = n * (q + k) + s /\ q + k \in Int BY <1>1, <1>2
<1>4. (a + d) % n = s BY <1>2, <1>3, ModUnique
<1>5. QED BY <1>4 DEF r, s

-----------------------------------------------------------------------------
\* No entry is linked twice.
Distinct(q) == \A i, j \in 1..Len(q) : q[i] = q[j] => i = j

\* wait_queue_add
LEMMA AppendEntry ==
  ASSUME NEW q \in Seq(Readers), Distinct(q), NEW r \in Readers, r \notin ToSet(q)
  PROVE  /\ Append(q, r) \in Seq(Readers)
         /\ Distinct(Append(q, r))
         /\ ToSet(Append(q, r)) = ToSet(q) \cup {r}
<1> DEFINE t == Append(q, r)
<1>1. /\ t \in Seq(Readers) /\ Len(t) = Len(q) + 1 /\ Len(q) \in Nat
      /\ t[Len(q) + 1] = r /\ \A i \in 1..Len(q) : t[i] = q[i]
      /\ DOMAIN t = 1..(Len(q) + 1) /\ DOMAIN q = 1..Len(q)
  OBVIOUS
<1>2. \A i \in 1..Len(q) : q[i] # r BY <1>1 DEF ToSet
<1> HIDE DEF t
<1>3. Distinct(t)
  <2> SUFFICES ASSUME NEW i \in 1..Len(t), NEW j \in 1..Len(t), t[i] = t[j] PROVE i = j
    BY DEF Distinct
  <2>1. CASE i = Len(q) + 1 BY <1>1, <1>2, <2>1
  <2>2. CASE j = Len(q) + 1 BY <1>1, <1>2, <2>2
  <2>3. CASE i # Len(q) + 1 /\ j # Len(q) + 1
    <3>1. i \in 1..Len(q) /\ j \in 1..Len(q) BY <1>1, <2>3
    <3>2. QED BY <3>1, <1>1 DEF Distinct
  <2>4. QED BY <2>1, <2>2, <2>3
<1>4. ToSet(t) = ToSet(q) \cup {r}
  <2>1. ASSUME NEW x \in ToSet(t) PROVE x \in ToSet(q) \cup {r}
    <3>1. PICK i \in 1..(Len(q) + 1) : x = t[i] BY <1>1 DEF ToSet
    <3>2. CASE i = Len(q) + 1 BY <3>1, <3>2, <1>1
    <3>3. CASE i \in 1..Len(q) BY <3>1, <3>3, <1>1 DEF ToSet
    <3>4. QED BY <3>1, <3>2, <3>3, <1>1
  <2>2. ASSUME NEW x \in ToSet(q) PROVE x \in ToSet(t)
    <3>1. PICK i \in 1..Len(q) : x = q[i] BY <1>1 DEF ToSet
    <3>2. i \in DOMAIN t /\ x = t[i] BY <3>1, <1>1
    <3>3. QED BY <3>2 DEF ToSet
  <2>3. r \in ToSet(t)
    <3>1. Len(q) + 1 \in DOMAIN t BY <1>1
    <3>2. QED BY <3>1, <1>1 DEF ToSet
  <2>4. QED BY <2>1, <2>2, <2>3
<1>5. QED BY <1>1, <1>3, <1>4 DEF t

\* The parts of a sequence before and after a place ...
LEMMA FrontIs ==
  ASSUME NEW S, NEW q \in Seq(S), NEW k \in 0..Len(q)
  PROVE  /\ SubSeq(q, 1, k) \in Seq(S)
         /\ Len(SubSeq(q, 1, k)) = k
         /\ \A i \in 1..k : SubSeq(q, 1, k)[i] = q[i]
<1> DEFINE v == SubSeq(q, 1, k)
<1>2. v \in Seq(S) /\ Len(v) = k OBVIOUS
<1>3. ASSUME NEW i \in 1..k PROVE v[i] = q[i] 
  OBVIOUS
<1>4. QED BY <1>2, <1>3

LEMMA TailIs ==
  ASSUME NEW S, NEW q \in Seq(S), NEW k \in 0..Len(q)
  PROVE  /\ SubSeq(q, k + 1, Len(q)) \in Seq(S)
         /\ Len(SubSeq(q, k + 1, Len(q))) = Len(q) - k
         /\ \A i \in 1..(Len(q) - k) : SubSeq(q, k + 1, Len(q))[i] = q[k + i]
<1> DEFINE v == SubSeq(q, k + 1, Len(q))
<1>1. Len(q) \in Nat /\ \A i \in (k + 1)..Len(q) : q[i] \in S OBVIOUS
<1>2. v \in Seq(S) /\ Len(v) = Len(q) - k OBVIOUS
<1>3. ASSUME NEW i \in 1..(Len(q) - k) PROVE v[i] = q[k + i] 
  OBVIOUS
<1>4. QED BY <1>2, <1>3

\* ... and what is left when that place is taken out.
LEMMA RemoveAtIs ==
  ASSUME NEW S, NEW q \in Seq(S), NEW k \in 1..Len(q)
  PROVE  /\ RemoveAt(q, k) \in Seq(S)
         /\ Len(RemoveAt(q, k)) = Len(q) - 1
         /\ \A i \in 1..(Len(q) - 1) : RemoveAt(q, k)[i] = IF i < k THEN q[i] ELSE q[i + 1]
<1> DEFINE u == SubSeq(q, 1, k - 1)
<1> DEFINE v == SubSeq(q, k + 1, Len(q))
<1> DEFINE n == Len(q)
<1>1. n \in Nat /\ k \in 1..n OBVIOUS
<1>2. u \in Seq(S) /\ Len(u) = k - 1 /\ \A i \in 1..(k - 1) : u[i] = q[i] BY FrontIs
<1>3. v \in Seq(S) /\ Len(v) = n - k /\ \A i \in 1..(n - k) : v[i] = q[k + i] BY TailIs
<1>4. RemoveAt(q, k) = u \o v BY DEF RemoveAt
<1> HIDE DEF u, v, n
<1>5. u \o v \in Seq(S) /\ Len(u \o v) = n - 1 BY <1>1, <1>2, <1>3
<1>6. ASSUME NEW i \in 1..(n - 1) PROVE (u \o v)[i] = IF i < k THEN q[i] ELSE q[i + 1]
  <2>1. CASE i < k
    <3>1. (u \o v)[i] = u[i] BY <1>1, <1>2, <1>3, <2>1
    <3>2. QED BY <3>1, <1>1, <1>2, <2>1
  <2>2. CASE ~(i < k)
    <3> DEFINE j == i - (k - 1)
    <3>1. j \in 1..(n - k) /\ k + j = i + 1 BY <1>1, <2>2
    <3>2. (u \o v)[i] = v[j] BY <1>1, <1>2, <1>3, <2>2
    <3>3. v[j] = q[k + j] BY <1>3, <3>1
    <3>4. QED BY <3>1, <3>2, <3>3, <2>2
  <2>3. QED BY <2>1, <2>2
<1>7. QED BY <1>4, <1>5, <1>6 DEF n

\* wait_current_del
LEMMA RemoveEntry ==
  ASSUME TypeOK, Distinct(wait_queue), NEW r \in Readers
  PROVE  /\ wait_current_del(r) \in Seq(Readers)
         /\ Distinct(wait_current_del(r))
         /\ ToSet(wait_current_del(r)) = ToSet(wait_queue) \ {r}
<1> DEFINE q == wait_queue
<1> DEFINE t == wait_current_del(r)
<1> DEFINE n == Len(q)
<1>1. q \in Seq(Readers) /\ n \in Nat /\ DOMAIN q = 1..n BY DEF TypeOK
<1>2. CASE r \notin ToSet(q) BY <1>1, <1>2 DEF wait_current_del
<1>3. CASE r \in ToSet(q)
  <2> DEFINE k == CHOOSE i \in 1..Len(q) : q[i] = r
  <2>1. \E i \in 1..Len(q) : q[i] = r BY <1>1, <1>3 DEF ToSet
  <2>2. k \in 1..n /\ q[k] = r BY <2>1
  <2>3. t = RemoveAt(q, k) BY <1>3 DEF wait_current_del
  <2>4. \A i, j \in 1..n : q[i] = q[j] => i = j BY DEF Distinct
  <2> HIDE DEF q, t, k
  <2>5. /\ t \in Seq(Readers) /\ Len(t) = n - 1
        /\ \A i \in 1..(n - 1) : t[i] = IF i < k THEN q[i] ELSE q[i + 1]
    BY <1>1, <2>2, <2>3, RemoveAtIs
  <2>6. DOMAIN t = 1..(n - 1) BY <2>5
  <2> HIDE DEF n
  <2>7. Distinct(t)
    <3> SUFFICES ASSUME NEW i \in 1..(n - 1), NEW j \in 1..(n - 1), t[i] = t[j] PROVE i = j
      BY <2>5 DEF Distinct
    <3> DEFINE a == IF i < k THEN i ELSE i + 1
    <3> DEFINE b == IF j < k THEN j ELSE j + 1
    <3>1. a \in 1..n /\ b \in 1..n BY <1>1, <2>2
    <3>2. t[i] = q[a] /\ t[j] = q[b] BY <2>5
    <3>3. a = b BY <3>1, <3>2, <2>4
    <3>4. QED BY <3>3, <2>2, <1>1
  <2>8. ASSUME NEW x \in ToSet(t) PROVE x \in ToSet(q) \ {r}
    <3>1. PICK i \in 1..(n - 1) : x = t[i] BY <2>6 DEF ToSet
    <3> DEFINE a == IF i < k THEN i ELSE i + 1
    <3>2. a \in 1..n /\ a # k BY <1>1, <2>2
    <3>3. x = q[a] BY <3>1, <2>5
    <3>4. x # r BY <3>2, <3>3, <2>2, <2>4
    <3>5. QED BY <3>2, <3>3, <3>4, <1>1 DEF ToSet
  <2>9. ASSUME NEW x \in ToSet(q), x # r PROVE x \in ToSet(t)
    <3>1. PICK i \in 1..n : x = q[i] BY <1>1 DEF ToSet
    <3>2. i # k BY <3>1, <2>2, <2>9
    <3> DEFINE b == IF i < k THEN i ELSE i - 1
    <3>3. b \in 1..(n - 1) /\ (IF b < k THEN b ELSE b + 1) = i BY <3>2, <2>2, <1>1
    <3> HIDE DEF b
    <3>4. t[b] = x BY <3>1, <3>3, <2>5
    <3>5. QED BY <3>3, <3>4, <2>6 DEF ToSet
  <2>10. QED BY <2>5, <2>7, <2>8, <2>9 DEF q, t
<1>4. QED BY <1>2, <1>3

-----------------------------------------------------------------------------
\* A set of numbers below a bound has a greatest one: the last character that
\* cons_intr stores in a place of the ring.
LEMMA Greatest ==
  ASSUME NEW n \in Nat, NEW T \in SUBSET (1..n), T # {}
  PROVE  \E x \in T : \A y \in T : y <= x
<1> DEFINE R == OpToRel(<, Nat)
<1> DEFINE D == {n - y : y \in T}
<1>1. IsWellFoundedOn(R, Nat) BY NatLessThanWellFounded
<1>2. \A x, y \in Nat : x < y => <<x, y>> \in R BY DEF OpToRel
<1>3. D \subseteq Nat /\ D # {}
  <2>1. \A y \in T : n - y \in Nat OBVIOUS
  <2>2. PICK y \in T : TRUE OBVIOUS
  <2>3. n - y \in D BY <2>2
  <2>4. QED BY <2>1, <2>3
<1> HIDE DEF R
<1>4. PICK d \in D : \A e \in D : ~(<<e, d>> \in R)
  <2>1. D \in SUBSET Nat /\ D # {} BY <1>3
  <2> HIDE DEF D
  <2>2. QED BY <1>1, <2>1, WFMin
<1>5. \A e \in D : ~(e < d) BY <1>2, <1>3, <1>4
<1>6. PICK x \in T : d = n - x OBVIOUS
<1>7. ASSUME NEW y \in T PROVE y <= x
  <2>1. ~(n - y < n - x) BY <1>5, <1>6
  <2>2. x \in Int /\ y \in Int OBVIOUS
  <2>3. QED BY <2>1, <2>2
<1>8. QED BY <1>7

\* cons_intr keeps the ring a ring of numbers.
LEMMA ConsBufType ==
  ASSUME IInv, NEW n \in 0..MaxBurst
  PROVE  ConsBufAfter(n) \in [0..(CONSBUFSIZE - 1) -> Nat]
<1> USE StdinAssumption DEF IInv, TypeOK, BuffersOK
<1> SUFFICES ASSUME NEW i \in 0..(CONSBUFSIZE - 1)
             PROVE  LET mine == {k \in 1..n : (cons_wpos + k - 1) % CONSBUFSIZE = i}
                    IN  (IF mine = {} THEN cons_buf[i]
                         ELSE typed + (CHOOSE k \in mine : \A j \in mine : j <= k)) \in Nat
  BY DEF ConsBufAfter
<1> DEFINE mine == {k \in 1..n : (cons_wpos + k - 1) % CONSBUFSIZE = i}
<1> DEFINE last == CHOOSE k \in mine : \A j \in mine : j <= k
<1>1. n \in Nat /\ mine \in SUBSET (1..n) /\ typed \in Nat /\ cons_buf[i] \in Nat OBVIOUS
<1>2. CASE mine = {} BY <1>1, <1>2
<1>3. CASE mine # {}
  <2>1. last \in mine
    <3> HIDE DEF mine
    <3>1. \E x \in mine : \A y \in mine : y <= x BY <1>1, <1>3, Greatest
    <3>2. QED BY <3>1
  <2> HIDE DEF mine, last
  <2>2. last \in Nat BY <2>1, <1>1
  <2>3. typed + last \in Nat BY <2>2, <1>1
  <2>4. QED BY <2>3, <1>3 DEF mine, last
<1>4. QED BY <1>2, <1>3

\* The write position is as far from the read position as the ring holds.
LEMMA HeldIs ==
  ASSUME NEW n \in Nat \ {0}, NEW r \in 0..(n - 1), NEW w \in 0..(n - 1)
  PROVE  /\ (w - r) % n \in 0..(n - 1)
         /\ (r + ((w - r) % n)) % n = w
<1>1. w - r \in (-n)..(2 * n - 1) OBVIOUS
<1>2. (w - r) % n = IF w - r < 0 THEN w - r + n ELSE IF w - r < n THEN w - r ELSE w - r - n
  BY <1>1, ModOnce
<1>3. CASE w - r < 0
  <2>1. (w - r) % n = w - r + n BY <1>2, <1>3
  <2>2. r + ((w - r) % n) = w + n BY <2>1
  <2>3. w + n \in (-n)..(2 * n - 1) OBVIOUS
  <2>4. (w + n) % n = w BY <2>3, ModOnce
  <2>5. QED BY <2>1, <2>2, <2>4, <1>3
<1>4. CASE w - r >= 0
  <2>1. (w - r) % n = w - r BY <1>2, <1>4
  <2>2. r + ((w - r) % n) = w BY <2>1
  <2>3. w \in (-n)..(2 * n - 1) OBVIOUS
  <2>4. w % n = w BY <2>3, ModOnce
  <2>5. QED BY <2>1, <2>2, <2>4, <1>4
<1>5. QED BY <1>3, <1>4

\* After n more characters that fit, it holds n more ...
LEMMA HeldAfter ==
  ASSUME IInv, NEW n \in 0..MaxBurst, ConsHeld + n < CONSBUFSIZE
  PROVE  /\ ConsHeld \in Nat
         /\ ConsWposAfter(n) \in 0..(CONSBUFSIZE - 1)
         /\ (ConsWposAfter(n) - cons_rpos) % CONSBUFSIZE = ConsHeld + n
<1> DEFINE C == CONSBUFSIZE
<1> DEFINE h == ConsHeld
<1> DEFINE w == cons_wpos
<1> DEFINE p == cons_rpos
<1>1. C \in Nat \ {0} /\ p \in 0..(C - 1) /\ w \in 0..(C - 1) /\ n \in Nat
  BY StdinAssumption DEF IInv, TypeOK
<1>2. h \in 0..(C - 1) BY <1>1, HeldIs DEF ConsHeld
<1>3. ((w + n) % C) \in 0..(C - 1)
  <2> DEFINE d == w + n
  <2>1. d \in Int /\ C \in Nat \ {0} BY <1>1
  <2> HIDE DEF d, C
  <2>2. d % C \in 0..(C - 1) BY <2>1, ModRange
  <2>3. QED BY <2>2 DEF d
<1>4. (((w + n) % C) + (-p)) % C = ((w + n) + (-p)) % C
  <2> DEFINE d == w + n
  <2> DEFINE e == -p
  <2>1. d \in Int /\ e \in Int /\ C \in Nat \ {0} BY <1>1
  <2> HIDE DEF d, e, C
  <2>2. ((d % C) + e) % C = (d + e) % C BY <2>1, ModAdd
  <2>3. QED BY <2>2 DEF d, e
<1>5. (((w - p) % C) + n) % C = ((w - p) + n) % C
  <2> DEFINE d == w - p
  <2>1. d \in Int /\ n \in Int /\ C \in Nat \ {0} BY <1>1
  <2> HIDE DEF d, C
  <2>2. ((d % C) + n) % C = (d + n) % C BY <2>1, ModAdd
  <2>3. QED BY <2>2 DEF d
<1>6. (h + n) % C = h + n
  <2> DEFINE s == h + n
  <2>1. C \in Nat \ {0} /\ s \in 0..(C - 1) BY <1>1, <1>2
  <2> HIDE DEF s, C
  <2>2. s % C = s BY <2>1
  <2>3. QED BY <2>2 DEF s
<1>7. ((w + n) % C) + (-p) = ((w + n) % C) - p /\ (w + n) + (-p) = (w - p) + n BY <1>1, <1>3
<1>8. QED BY <1>1, <1>2, <1>3, <1>4, <1>5, <1>6, <1>7 DEF ConsWposAfter, ConsHeld

\* ... those it held and the new ones, in order.
LEMMA ConsBufHolds ==
  ASSUME IInv, NEW n \in 0..MaxBurst, ConsHeld + n < CONSBUFSIZE, ~overrun
  PROVE  \A i \in 0..(ConsHeld + n - 1) :
           ConsBufAfter(n)[(cons_rpos + i) % CONSBUFSIZE] = p_wpos + 1 + i
<1> DEFINE C == CONSBUFSIZE
<1> DEFINE h == ConsHeld
<1> DEFINE w == cons_wpos
<1> DEFINE p == cons_rpos
<1>1. C \in Nat \ {0} /\ p \in 0..(C - 1) /\ w \in 0..(C - 1) /\ n \in Nat /\ typed \in Nat
      /\ p_wpos \in Nat
  BY StdinAssumption DEF IInv, TypeOK
<1>2. h \in 0..(C - 1) /\ (p + h) % C = w BY <1>1, HeldIs DEF ConsHeld
<1>3. typed = p_wpos + h /\ \A i \in 0..(h - 1) : cons_buf[(p + i) % C] = p_wpos + 1 + i
  BY DEF IInv, RingsExact
<1>4. h + n < C OBVIOUS
<1> DEFINE at(k) == (w + k - 1) % C
<1>5. ASSUME NEW k \in 1..n PROVE at(k) = (p + (h + k - 1)) % C
  <2>1. k \in Int /\ k - 1 \in Int /\ p + h \in Int BY <1>1, <1>2
  <2>2. (((p + h) % C) + (k - 1)) % C = ((p + h) + (k - 1)) % C BY <1>1, <2>1, ModAdd
  <2>3. w + (k - 1) = w + k - 1 /\ (p + h) + (k - 1) = p + (h + k - 1) BY <1>1, <1>2, <2>1
  <2>4. QED BY <2>2, <2>3, <1>2
<1> HIDE DEF h, C, w, p
<1> SUFFICES ASSUME NEW i \in 0..(h + n - 1)
             PROVE  ConsBufAfter(n)[(p + i) % C] = p_wpos + 1 + i
  BY DEF h, p, C
<1> DEFINE a == (p + i) % C
<1> DEFINE mine == {k \in 1..n : at(k) = a}
<1>6. a \in 0..(C - 1) BY <1>1, ModRange
<1>7. ConsBufAfter(n)[a] = IF mine = {} THEN cons_buf[a]
                           ELSE typed + (CHOOSE k \in mine : \A j \in mine : j <= k)
  BY <1>6 DEF ConsBufAfter, C, w
<1>8. ASSUME NEW k \in 1..n, h + k - 1 # i PROVE at(k) # a
  <2>1. at(k) = (p + (h + k - 1)) % C BY <1>5
  <2>2. p + (h + k - 1) \in Int /\ p + i \in Int BY <1>1, <1>2
  <2>3. CASE h + k - 1 < i
    <3>1. p + (h + k - 1) < p + i /\ (p + i) - (p + (h + k - 1)) < C BY <1>1, <1>2, <1>4, <2>3
    <3>2. QED BY <2>1, <2>2, <3>1, <1>1, ModDistinct
  <2>4. CASE i < h + k - 1
    <3>1. p + i < p + (h + k - 1) /\ (p + (h + k - 1)) - (p + i) < C BY <1>1, <1>2, <1>4, <2>4
    <3>2. QED BY <2>1, <2>2, <3>1, <1>1, ModDistinct
  <2>5. QED BY <1>8, <1>1, <1>2, <2>3, <2>4
<1>9. CASE i < h
  <2>0. \A k \in 1..n : h + k - 1 # i BY <1>9, <1>1, <1>2
  <2>1. mine = {} BY <2>0, <1>8
  <2>2. i \in 0..(h - 1) BY <1>9, <1>1, <1>2
  <2>3. QED BY <2>1, <2>2, <1>7, <1>3
<1>10. CASE ~(i < h)
  <2> DEFINE m == i - h + 1
  <2>1. m \in 1..n /\ h + m - 1 = i BY <1>10, <1>1, <1>2
  <2>2. at(m) = a BY <1>5, <2>1
  <2>3. \A k \in 1..n : k # m => h + k - 1 # i BY <1>1, <1>2, <2>1
  <2>4. mine = {m} BY <2>1, <2>2, <2>3, <1>8
  <2> HIDE DEF mine
  <2>5. (CHOOSE k \in mine : \A j \in mine : j <= k) = m
    <3>1. m \in mine /\ \A j \in mine : j <= m BY <2>1, <2>4, <1>1
    <3> DEFINE x == CHOOSE k \in mine : \A j \in mine : j <= k
    <3>2. x \in mine BY <3>1
    <3> HIDE DEF x
    <3>3. x = m BY <3>2, <2>4
    <3>4. QED BY <3>3 DEF x
  <2>6. ConsBufAfter(n)[a] = typed + m BY <1>7, <2>4, <2>5
  <2>7. QED BY <2>6, <1>3, <1>1, <1>2
<1>11. QED BY <1>9, <1>10

-----------------------------------------------------------------------------
\* What has been read and k characters of the stdin ring.
LEMMA GotIs ==
  ASSUME NEW g \in Seq(Nat), NEW k \in Nat, NEW s \in [1..k -> Nat]
  PROVE  /\ g \o s \in Seq(Nat)
         /\ Len(g \o s) = Len(g) + k
         /\ \A i \in 1..(Len(g) + k) : (g \o s)[i] = IF i <= Len(g) THEN g[i] ELSE s[i - Len(g)]
<1>1. s \in Seq(Nat) /\ Len(s) = k OBVIOUS
<1>2. QED BY <1>1, ConcatProperties

\* The loop of dev_stdin_read keeps the invariant.
LEMMA LoopKeeps ==
  ASSUME IInv, NEW r \in Readers, rd[r] \in {"user", "woken"}, NEW n \in 0..MaxLen,
         NEW q \in Seq(Readers), Distinct(q), ToSet(q) = ToSet(wait_queue) \ {r},
         ReadLoop(r, n, q), UNCHANGED <<typed, consvars, killed, overrun>>
  PROVE  IInv'
<1> DEFINE S == STDIN_BUFSIZE
<1> DEFINE k == IF p_wpos - p_rpos < n THEN p_wpos - p_rpos ELSE n
<1> DEFINE s == [i \in 1..k |-> stdin_buffer[(p_rpos + i - 1) % S]]
<1>1. /\ S \in Nat \ {0} /\ MaxLen \in Nat
      /\ p_wpos \in Nat /\ p_rpos \in Nat /\ p_wpos - p_rpos \in 0..S
      /\ n \in Nat /\ n <= MaxLen
  BY StdinAssumption DEF IInv, TypeOK
<1>2. k \in Nat /\ k <= n /\ p_rpos + k <= p_wpos BY <1>1
<1>3. /\ got' = got \o s /\ p_rpos' = p_rpos + k /\ len' = [len EXCEPT ![r] = n - k]
      /\ \/ /\ k = n
            /\ rd' = [rd EXCEPT ![r] = Leave(r)]
            /\ wait_queue' = q
            /\ wakeup_flags' = wakeup_flags
         \/ /\ k # n
            /\ rd' = [rd EXCEPT ![r] = "asleep"]
            /\ wait_queue' = Append(q, r)
            /\ wakeup_flags' = [wakeup_flags EXCEPT ![r] = "WT_INTERRUPTED"]
      /\ stdin_buffer' = stdin_buffer /\ p_wpos' = p_wpos
      /\ typed' = typed /\ cons_buf' = cons_buf /\ cons_rpos' = cons_rpos
      /\ cons_wpos' = cons_wpos /\ killed' = killed /\ overrun' = overrun
  BY DEF ReadLoop, consvars
<1>4. s \in [1..k -> Nat] /\ \A i \in 1..k : s[i] = stdin_buffer[(p_rpos + i - 1) % S]
  <2>1. ASSUME NEW i \in 1..k PROVE (p_rpos + i - 1) % S \in 0..(S - 1)
    <3>1. p_rpos + i - 1 \in Int BY <1>1, <1>2
    <3>2. QED BY <3>1, <1>1, ModRange
  <2>2. stdin_buffer \in [0..(S - 1) -> Nat] BY DEF IInv, BuffersOK
  <2> HIDE DEF k, S
  <2>3. QED BY <2>1, <2>2
<1>5. Leave(r) \in {"user", "dead"} BY DEF Leave
<1> HIDE DEF k, s, S
<1>6. /\ r \notin ToSet(q)
      /\ Append(q, r) \in Seq(Readers) /\ Distinct(Append(q, r))
      /\ ToSet(Append(q, r)) = ToSet(q) \cup {r}
  BY AppendEntry
<1>7. TypeOK'
  <2>1. (wait_queue \in Seq(Readers))' BY <1>3, <1>6
  <2>2. (p_rpos \in Nat /\ p_wpos \in Nat /\ p_wpos - p_rpos \in 0..STDIN_BUFSIZE)'
    BY <1>1, <1>2, <1>3 DEF S
  <2>3. (len \in [Readers -> 0..MaxLen])'
    <3>1. n - k \in 0..MaxLen BY <1>1, <1>2
    <3>2. QED BY <3>1, <1>3 DEF IInv, TypeOK
  <2>4. (/\ wakeup_flags \in [Readers -> {"WT_INTERRUPTED", "WT_KBD"}]
         /\ rd \in [Readers -> {"user", "asleep", "woken", "dead"}])'
    BY <1>3, <1>5 DEF IInv, TypeOK
  <2>5. QED BY <2>1, <2>2, <2>3, <2>4, <1>3 DEF IInv, TypeOK
<1>8. BuffersOK'
  <2>1. got' \in Seq(Nat) BY <1>2, <1>3, <1>4, GotIs DEF IInv, BuffersOK
  <2>2. QED BY <2>1, <1>3 DEF IInv, BuffersOK
<1>9. EntriesAlive'
  <2>1. Distinct(wait_queue') BY <1>3, <1>6
  <2>2. \A x \in ToSet(q) : x \in Readers /\ x # r /\ (rd[x] = "asleep" \/ (rd[x] = "woken" /\ x \in killed))
    <3>1. \A x \in ToSet(q) : x \in Readers BY DEF ToSet
    <3>2. QED BY <3>1 DEF IInv, EntriesAlive
  <2>3. \A x \in Readers : x # r /\ rd[x] = "asleep" => x \in ToSet(q)
    BY DEF IInv, EntriesAlive
  <2>4. /\ \A x \in Readers : rd'[x] = "asleep" => x \in ToSet(wait_queue')
        /\ \A x \in ToSet(wait_queue') : rd'[x] = "asleep" \/ (rd'[x] = "woken" /\ x \in killed')
    <3>1. rd \in [Readers -> {"user", "asleep", "woken", "dead"}] BY DEF IInv, TypeOK
    <3>2. CASE k = n
      <4>1. rd' = [rd EXCEPT ![r] = Leave(r)] /\ ToSet(wait_queue') = ToSet(q) BY <1>3, <3>2
      <4>2. QED BY <4>1, <3>1, <2>2, <2>3, <1>3, <1>5
    <3>3. CASE k # n
      <4>1. rd' = [rd EXCEPT ![r] = "asleep"] /\ ToSet(wait_queue') = ToSet(q) \cup {r}
        BY <1>3, <1>6, <3>3
      <4>2. QED BY <4>1, <3>1, <2>2, <2>3, <1>3
    <3>4. QED BY <3>2, <3>3
  <2>5. QED BY <2>1, <2>4 DEF EntriesAlive, Distinct
<1>10. NoSleeperWithInput'
  <2>1. SUFFICES ASSUME NEW x \in Readers, rd'[x] = "asleep" PROVE p_rpos' = p_wpos'
    BY DEF NoSleeperWithInput
  <2>2. rd \in [Readers -> {"user", "asleep", "woken", "dead"}] BY DEF IInv, TypeOK
  <2>3. CASE x = r
    <3>1. k # n BY <2>1, <2>2, <2>3, <1>3, <1>5
    <3>2. k = p_wpos - p_rpos BY <3>1, <1>1 DEF k
    <3>3. QED BY <3>2, <1>1, <1>3
  <2>4. CASE x # r
    <3>1. rd[x] = "asleep" BY <2>1, <2>2, <2>4, <1>3
    <3>2. p_rpos = p_wpos BY <3>1 DEF IInv, NoSleeperWithInput
    <3>3. k = 0 BY <3>2, <1>1, <1>2
    <3>4. QED BY <3>2, <3>3, <1>1, <1>3
  <2>5. QED BY <2>3, <2>4
<1>11. RingsExact'
  <2>1. SUFFICES ASSUME ~overrun PROVE (RingsExact)' BY <1>3 DEF RingsExact
  <2>2. /\ Len(got) = p_rpos
        /\ \A i \in 1..p_rpos : got[i] = i
        /\ \A j \in p_rpos..(p_wpos - 1) : stdin_buffer[j % S] = j + 1
        /\ typed = p_wpos + ConsHeld
        /\ \A i \in 0..(ConsHeld - 1) : cons_buf[(cons_rpos + i) % CONSBUFSIZE] = p_wpos + 1 + i
    BY <2>1 DEF IInv, RingsExact, S
  <2>3. /\ Len(got') = p_rpos + k
        /\ \A i \in 1..(p_rpos + k) : got'[i] = IF i <= p_rpos THEN got[i] ELSE s[i - p_rpos]
    <3>1. got \in Seq(Nat) BY DEF IInv, BuffersOK
    <3>2. /\ Len(got \o s) = Len(got) + k
          /\ \A i \in 1..(Len(got) + k) :
               (got \o s)[i] = IF i <= Len(got) THEN got[i] ELSE s[i - Len(got)]
      BY <3>1, <1>2, <1>4, GotIs
    <3>3. QED BY <3>2, <2>2, <1>3
  <2>4. ASSUME NEW i \in 1..(p_rpos + k) PROVE got'[i] = i
    <3>1. CASE i <= p_rpos BY <3>1, <2>2, <2>3, <1>1
    <3>2. CASE ~(i <= p_rpos)
      <4> DEFINE j == i - p_rpos
      <4>1. j \in 1..k /\ p_rpos + j - 1 = i - 1 /\ i - 1 \in p_rpos..(p_wpos - 1)
        BY <3>2, <1>1, <1>2
      <4>2. got'[i] = s[j] BY <3>2, <2>3
      <4>3. s[j] = stdin_buffer[(i - 1) % S] BY <4>1, <1>4
      <4>4. stdin_buffer[(i - 1) % S] = (i - 1) + 1 BY <4>1, <2>2
      <4>5. QED BY <4>2, <4>3, <4>4
    <3>3. QED BY <3>1, <3>2
  <2>5. ASSUME NEW j \in (p_rpos + k)..(p_wpos - 1) PROVE stdin_buffer[j % S] = j + 1
    <3>1. j \in p_rpos..(p_wpos - 1) BY <1>1, <1>2
    <3>2. QED BY <2>2, <3>1
  <2>6. ConsHeld' = ConsHeld BY <1>3 DEF ConsHeld
  <2>7. QED BY <2>2, <2>3, <2>4, <2>5, <2>6, <1>3 DEF RingsExact, S
<1>12. QED BY <1>7, <1>8, <1>9, <1>10, <1>11 DEF IInv

LEMMA ReadKeeps ==
  ASSUME IInv, NEW r \in Readers, NEW n \in 1..MaxLen, dev_stdin_read(r, n)
  PROVE  IInv'
<1>1. wait_queue \in Seq(Readers) /\ Distinct(wait_queue) BY DEF IInv, TypeOK, EntriesAlive, Distinct
<1>2. rd[r] = "user" /\ ReadLoop(r, n, wait_queue) /\ UNCHANGED <<typed, consvars, killed, overrun>>
  BY DEF dev_stdin_read
<1>3. r \notin ToSet(wait_queue) BY <1>2 DEF IInv, EntriesAlive
<1>4. ToSet(wait_queue) = ToSet(wait_queue) \ {r} BY <1>3
<1>5. n \in 0..MaxLen BY StdinAssumption
<1>6. QED BY <1>1, <1>2, <1>4, <1>5, LoopKeeps

LEMMA ResumeKeeps ==
  ASSUME IInv, NEW r \in Readers, read_resume(r)
  PROVE  IInv'
<1> DEFINE q == wait_current_del(r)
<1>1. q \in Seq(Readers) /\ Distinct(q) /\ ToSet(q) = ToSet(wait_queue) \ {r}
  BY RemoveEntry DEF IInv, EntriesAlive, Distinct
<1>2. rd[r] = "woken" /\ UNCHANGED <<typed, consvars, killed, overrun>> BY DEF read_resume
<1>3. CASE wakeup_flags[r] = "WT_KBD"
  <2>1. ReadLoop(r, len[r], q) BY <1>3 DEF read_resume
  <2>2. len[r] \in 0..MaxLen BY DEF IInv, TypeOK
  <2> HIDE DEF q
  <2>3. QED BY <1>1, <1>2, <2>1, <2>2, LoopKeeps
<1>4. CASE wakeup_flags[r] # "WT_KBD"
  <2>1. /\ rd' = [rd EXCEPT ![r] = Leave(r)] /\ wait_queue' = q
        /\ UNCHANGED <<typed, cons_buf, cons_rpos, cons_wpos, killed, overrun, stdin_buffer,
                       p_rpos, p_wpos, got, len, wakeup_flags>>
    BY <1>2, <1>4 DEF read_resume, stdinvars, consvars
  <2> HIDE DEF q
  <2>2. Leave(r) \in {"user", "dead"} BY DEF Leave
  <2>3. TypeOK' BY <2>1, <2>2, <1>1 DEF IInv, TypeOK
  <2>4. BuffersOK' BY <2>1 DEF IInv, BuffersOK
  <2>5. EntriesAlive'
    <3>1. rd \in [Readers -> {"user", "asleep", "woken", "dead"}] BY DEF IInv, TypeOK
    <3>2. \A x \in ToSet(q) : x \in Readers BY <1>1 DEF ToSet
    <3>3. /\ \A x \in Readers : rd'[x] = "asleep" => x \in ToSet(q)
          /\ \A x \in ToSet(q) : rd'[x] = "asleep" \/ (rd'[x] = "woken" /\ x \in killed)
      BY <2>1, <2>2, <3>1, <3>2, <1>1 DEF IInv, EntriesAlive
    <3>4. QED BY <3>3, <2>1, <1>1 DEF EntriesAlive, Distinct
  <2>6. NoSleeperWithInput' BY <2>1, <2>2 DEF IInv, TypeOK, NoSleeperWithInput
  <2>7. RingsExact' BY <2>1 DEF IInv, RingsExact, ConsHeld
  <2>8. QED BY <2>3, <2>4, <2>5, <2>6, <2>7 DEF IInv
<1>5. QED BY <1>3, <1>4

LEMMA KillKeeps ==
  ASSUME IInv, NEW r \in Readers, do_kill(r)
  PROVE  IInv'
<1>1. TypeOK' BY DEF IInv, TypeOK, do_kill, consvars, stdinvars
<1>2. BuffersOK' BY DEF IInv, BuffersOK, do_kill, consvars, stdinvars
<1>3. EntriesAlive' BY DEF IInv, TypeOK, EntriesAlive, ToSet, do_kill
<1>4. NoSleeperWithInput' BY DEF IInv, TypeOK, NoSleeperWithInput, do_kill, stdinvars
<1>5. RingsExact' BY DEF IInv, RingsExact, ConsHeld, do_kill, consvars, stdinvars
<1>6. QED BY <1>1, <1>2, <1>3, <1>4, <1>5 DEF IInv

LEMMA ExitKeeps ==
  ASSUME IInv, NEW r \in Readers, exit(r)
  PROVE  IInv'
<1>1. TypeOK' BY DEF IInv, TypeOK, exit, consvars, stdinvars
<1>2. BuffersOK' BY DEF IInv, BuffersOK, exit, consvars, stdinvars
<1>3. EntriesAlive' BY DEF IInv, TypeOK, EntriesAlive, ToSet, exit
<1>4. NoSleeperWithInput' BY DEF IInv, TypeOK, NoSleeperWithInput, exit, stdinvars
<1>5. RingsExact' BY DEF IInv, RingsExact, ConsHeld, exit, consvars, stdinvars
<1>6. QED BY <1>1, <1>2, <1>3, <1>4, <1>5 DEF IInv

\* Everyone whose entry is linked is woken, and the queue is empty then.
LEMMA AllWoken ==
  ASSUME IInv
  PROVE  Woken = ToSet(wait_queue) /\ SubSeq(wait_queue, WokenUpTo + 1, Len(wait_queue)) = <<>>
<1>1. wait_queue \in Seq(Readers) BY DEF IInv, TypeOK
<1>2. Len(wait_queue) \in Nat /\ DOMAIN wait_queue = 1..Len(wait_queue) BY <1>1
<1>3. Woken = ToSet(wait_queue) BY <1>2 DEF Woken, WokenUpTo, ToSet
<1> DEFINE n == Len(wait_queue)
<1> DEFINE e == SubSeq(wait_queue, n + 1, n)
<1>4. n \in 0..Len(wait_queue) /\ Len(wait_queue) - n = 0 BY <1>2
<1>5. e \in Seq(Readers) /\ Len(e) = Len(wait_queue) - n BY <1>1, <1>4, TailIs
<1> HIDE DEF e
<1>6. Len(e) = 0 BY <1>4, <1>5
<1>7. e = <<>> BY <1>5, <1>6, EmptySeq
<1>8. QED BY <1>3, <1>7 DEF e, WokenUpTo

LEMMA TickKeeps ==
  ASSUME IInv, NEW n \in 0..MaxBurst, tick(n)
  PROVE  IInv'
<1> DEFINE C == CONSBUFSIZE
<1> DEFINE S == STDIN_BUFSIZE
<1> DEFINE b == ConsBufAfter(n)
<1> DEFINE w == ConsWposAfter(n)
<1> DEFINE p == cons_rpos
<1> DEFINE c == Getc(b, w)
<1> DEFINE h == ConsHeld
<1>1. /\ C \in Nat \ {0} /\ S \in Nat \ {0} /\ p \in 0..(C - 1) /\ cons_wpos \in 0..(C - 1)
      /\ n \in Nat /\ typed \in Nat /\ MaxChars \in Nat
      /\ p_wpos \in Nat /\ p_rpos \in Nat /\ p_wpos - p_rpos \in 0..S
  BY StdinAssumption DEF IInv, TypeOK
<1>2. b \in [0..(C - 1) -> Nat] BY ConsBufType
<1>3. w \in 0..(C - 1)
  <2>1. cons_wpos + n \in Int BY <1>1
  <2>2. QED BY <2>1, <1>1, ModRange DEF ConsWposAfter
<1>4. /\ typed + n <= MaxChars /\ typed' = typed + n /\ cons_buf' = b /\ cons_wpos' = w
      /\ len' = len /\ killed' = killed /\ got' = got
  BY DEF tick
<1>5. h \in 0..(C - 1) BY <1>1, HeldIs DEF ConsHeld
<1>6. ASSUME ~overrun, h + n < C
      PROVE  /\ (w - p) % C = h + n
             /\ \A i \in 0..(h + n - 1) : b[(p + i) % C] = p_wpos + 1 + i
             /\ typed = p_wpos + h
  BY <1>6, HeldAfter, ConsBufHolds DEF IInv, RingsExact
<1>7. CASE c = 0
  <2>1. /\ overrun' = (overrun \/ h + n >= C)
        /\ UNCHANGED <<cons_rpos, stdin_buffer, p_rpos, p_wpos, wait_queue, wakeup_flags, rd>>
    BY <1>7 DEF tick, stdinvars
  <2> HIDE DEF b, w, c, h
  <2>2. TypeOK' BY <2>1, <1>1, <1>3, <1>4 DEF IInv, TypeOK
  <2>3. BuffersOK' BY <2>1, <1>2, <1>4 DEF IInv, BuffersOK
  <2>4. EntriesAlive' BY <2>1, <1>4 DEF IInv, EntriesAlive
  <2>5. NoSleeperWithInput' BY <2>1 DEF IInv, NoSleeperWithInput
  <2>6. RingsExact'
    <3>1. SUFFICES ASSUME ~overrun' PROVE RingsExact' BY DEF RingsExact
    <3>2. ~overrun /\ h + n < C
      <4>1. ~overrun /\ ~(h + n >= C) BY <3>1, <2>1, Zenon
      <4>2. QED BY <4>1, <1>1, <1>5
    <3>3. ConsHeld' = h + n BY <3>2, <1>4, <1>6, <2>1 DEF ConsHeld
    <3>4. typed' = p_wpos' + ConsHeld' BY <3>2, <3>3, <1>1, <1>4, <1>5, <1>6, <2>1
    <3>5. \A i \in 0..(ConsHeld' - 1) : cons_buf'[(cons_rpos' + i) % C] = p_wpos' + 1 + i
      <4>1. \A i \in 0..(h + n - 1) : b[(p + i) % C] = p_wpos + 1 + i BY <3>2, <1>6
      <4>2. p_wpos' = p_wpos /\ cons_rpos' = p BY <2>1
      <4>3. cons_buf' = b BY <1>4
      <4> DEFINE x == ConsHeld'
      <4>4. x = h + n BY <3>3
      <4> HIDE DEF x
      <4>5. ASSUME NEW i \in 0..(x - 1) PROVE b[(p + i) % C] = p_wpos + 1 + i
        <5>1. i \in 0..(h + n - 1) BY <4>4, <1>1, <1>5
        <5>2. QED BY <5>1, <4>1
      <4>6. \A i \in 0..(x - 1) : cons_buf'[(cons_rpos' + i) % C] = p_wpos' + 1 + i
        BY <4>2, <4>3, <4>5
      <4>7. QED BY <4>6 DEF x
    <3>6. QED BY <3>2, <3>4, <3>5, <2>1, <1>4 DEF IInv, RingsExact
  <2>7. QED BY <2>2, <2>3, <2>4, <2>5, <2>6 DEF IInv
<1>8. CASE c # 0
  <2>1. /\ cons_rpos' = (p + 1) % C
        /\ stdin_buffer' = [stdin_buffer EXCEPT ![p_wpos % S] = c]
        /\ p_wpos' = StdinWpos
        /\ overrun' = (overrun \/ h + n >= C \/ p_wpos - p_rpos >= S)
        /\ wait_queue' = SubSeq(wait_queue, WokenUpTo + 1, Len(wait_queue))
        /\ wakeup_flags' = [x \in Readers |-> IF x \in Woken THEN "WT_KBD" ELSE wakeup_flags[x]]
        /\ rd' = [x \in Readers |-> IF x \in Woken THEN "woken" ELSE rd[x]]
        /\ p_rpos' = p_rpos
    BY <1>8 DEF tick
  <2>2. p # w /\ c = b[p] BY <1>8 DEF Getc
  <2>3. c \in Nat BY <2>2, <1>1, <1>2
  <2> HIDE DEF b, w, c, h
  <2>4. (p + 1) % C \in 0..(C - 1)
    <3>1. p + 1 \in Int BY <1>1
    <3>2. QED BY <3>1, <1>1, ModRange
  <2>5. p_wpos' \in Nat /\ p_wpos' - p_rpos \in 0..S BY <2>1, <1>1 DEF StdinWpos
  <2>6. wait_queue' = <<>> /\ Woken = ToSet(wait_queue) BY <2>1, AllWoken
  <2>7. \A x \in Readers : rd'[x] # "asleep" BY <2>1, <2>6 DEF IInv, EntriesAlive
  <2>8. TypeOK'
    <3>1. (wait_queue \in Seq(Readers))' BY <2>6
    <3>2. (/\ wakeup_flags \in [Readers -> {"WT_INTERRUPTED", "WT_KBD"}]
           /\ rd \in [Readers -> {"user", "asleep", "woken", "dead"}])'
      BY <2>1 DEF IInv, TypeOK
    <3>3. (typed \in 0..MaxChars)' BY <1>1, <1>4
    <3>4. QED BY <3>1, <3>2, <3>3, <2>1, <2>4, <2>5, <1>1, <1>3, <1>4 DEF IInv, TypeOK
  <2>9. BuffersOK' BY <2>1, <2>3, <1>2, <1>4 DEF IInv, BuffersOK
  <2>10. EntriesAlive'
    <3>1. Len(wait_queue') = 0 /\ ToSet(wait_queue') = {} BY <2>6 DEF ToSet
    <3>2. QED BY <3>1, <2>7 DEF EntriesAlive
  <2>11. NoSleeperWithInput' BY <2>7 DEF NoSleeperWithInput
  <2>12. RingsExact'
    <3>1. SUFFICES ASSUME ~overrun' PROVE RingsExact' BY DEF RingsExact
    <3>2. ~overrun /\ h + n < C /\ p_wpos - p_rpos < S
      <4>1. ~overrun /\ ~(h + n >= C) /\ ~(p_wpos - p_rpos >= S) BY <3>1, <2>1, Zenon
      <4>2. QED BY <4>1, <1>1, <1>5
    <3>3. p_wpos' = p_wpos + 1 BY <3>2, <2>1 DEF StdinWpos
    <3>4. (w - p) % C = h + n /\ typed = p_wpos + h
          /\ \A i \in 0..(h + n - 1) : b[(p + i) % C] = p_wpos + 1 + i
      BY <3>2, <1>6
    <3>5. h + n > 0
      <4>1. w - p # 0 BY <2>2, <1>1, <1>3
      <4>2. (p + ((w - p) % C)) % C = w BY <1>1, <1>3, HeldIs
      <4>3. (p + 0) % C = p BY <1>1
      <4>4. h + n # 0 BY <4>2, <4>3, <3>4, <2>2, <1>1
      <4>5. QED BY <4>4, <1>1, <1>5
    <3>6. c = p_wpos + 1
      <4>1. 0 \in 0..(h + n - 1) /\ p + 0 = p BY <3>5, <1>1, <1>5
      <4>2. p % C = p BY <1>1
      <4>3. b[(p + 0) % C] = p_wpos + 1 + 0 BY <4>1, <3>4
      <4>4. QED BY <4>1, <4>2, <4>3, <2>2, <1>1
    <3>7. ConsHeld' = h + n - 1
      <4>1. ConsHeld' = (w - ((p + 1) % C)) % C BY <2>1, <1>4 DEF ConsHeld
      <4>2. CASE p + 1 < C
        <5>1. (p + 1) % C = p + 1 BY <4>2, <1>1
        <5>2. w - (p + 1) \in (-C)..(2 * C - 1) /\ w - p \in (-C)..(2 * C - 1) BY <1>1, <1>3
        <5>3. (w - (p + 1)) % C = IF w - (p + 1) < 0 THEN w - (p + 1) + C
                                  ELSE IF w - (p + 1) < C THEN w - (p + 1) ELSE w - (p + 1) - C
          BY <5>2, <1>1, ModOnce
        <5>4. (w - p) % C = IF w - p < 0 THEN w - p + C ELSE IF w - p < C THEN w - p ELSE w - p - C
          BY <5>2, <1>1, ModOnce
        <5>5. (w - (p + 1)) % C = ((w - p) % C) - 1
          <6>1. CASE w < p BY <6>1, <5>3, <5>4, <1>1, <1>3
          <6>2. CASE w > p BY <6>2, <5>3, <5>4, <1>1, <1>3
          <6>3. QED BY <6>1, <6>2, <2>2, <1>1, <1>3
        <5>6. (w - p) % C = h + n BY <3>4
        <5> DEFINE x == ConsHeld'
        <5>7. x = ((w - p) % C) - 1 BY <5>1, <5>5, <4>1
        <5> DEFINE d == (w - p) % C
        <5>8. x = d - 1 /\ d = h + n BY <5>6, <5>7
        <5> HIDE DEF x, d
        <5>9. x = h + n - 1 BY <5>8, <1>1, <1>5
        <5>10. QED BY <5>9 DEF x
      <4>3. CASE p + 1 >= C
        <5>1. p + 1 = C /\ (p + 1) % C = 0 BY <4>3, <1>1
        <5>2. w - p \in (-C)..(2 * C - 1) BY <1>1, <1>3
        <5>3. (w - p) % C = IF w - p < 0 THEN w - p + C ELSE IF w - p < C THEN w - p ELSE w - p - C
          BY <5>2, <1>1, ModOnce
        <5>4. (w - 0) % C = w BY <1>1, <1>3
        <5>5. w = ((w - p) % C) - 1 BY <5>1, <5>3, <2>2, <1>1, <1>3
        <5>6. (w - p) % C = h + n BY <3>4
        <5>7. (p + 1) % C = 0 BY <5>1
        <5>8. ConsHeld' = w BY <5>4, <5>7, <4>1, Zenon
        <5> DEFINE x == ConsHeld'
        <5> DEFINE d == (w - p) % C
        <5>9. x = w /\ w = d - 1 /\ d = h + n BY <5>5, <5>6, <5>8
        <5> HIDE DEF x, d
        <5>10. x = h + n - 1 BY <5>9, <1>1, <1>5
        <5>11. QED BY <5>10 DEF x
      <4>4. QED BY <4>2, <4>3, <1>1
    <3>8. typed' = p_wpos' + ConsHeld' BY <3>3, <3>4, <3>7, <1>1, <1>4, <1>5
    <3>9. ASSUME NEW i \in 0..(h + n - 2)
          PROVE  cons_buf'[(cons_rpos' + i) % C] = p_wpos' + 1 + i
      <4>1. i \in Int /\ p + 1 \in Int /\ 1 + i \in 0..(h + n - 1) BY <1>1, <1>5
      <4>2. (((p + 1) % C) + i) % C = ((p + 1) + i) % C BY <4>1, <1>1, ModAdd
      <4>3. (p + 1) + i = p + (1 + i) BY <4>1, <1>1
      <4>4. b[(p + (1 + i)) % C] = p_wpos + 1 + (1 + i) BY <4>1, <3>4
      <4>5. p_wpos + 1 + (1 + i) = p_wpos' + 1 + i BY <3>3, <4>1, <1>1
      <4>6. QED BY <4>2, <4>3, <4>4, <4>5, <2>1, <1>4
    <3>10. \A k \in p_rpos..p_wpos : stdin_buffer'[k % S] = k + 1
      <4>1. \A k \in p_rpos..(p_wpos - 1) : stdin_buffer[k % S] = k + 1
        BY <3>2 DEF IInv, RingsExact
      <4>2. stdin_buffer \in [0..(S - 1) -> Nat] BY DEF IInv, BuffersOK
      <4>3. p_wpos - p_rpos \in 0..(S - 1) BY <3>2, <1>1
      <4>4. stdin_buffer' = [stdin_buffer EXCEPT ![p_wpos % S] = c] BY <2>1
      <4>5. S \in Nat \ {0} /\ p_wpos \in Nat /\ p_rpos \in Nat BY <1>1
      <4> HIDE DEF S
      <4>6. ASSUME NEW k \in p_rpos..p_wpos PROVE stdin_buffer'[k % S] = k + 1
        <5>1. k \in Int /\ p_wpos \in Int BY <4>5
        <5>2. k % S \in 0..(S - 1) BY <5>1, <4>5, ModRange
        <5>3. CASE k = p_wpos
          <6>1. stdin_buffer'[k % S] = c BY <5>2, <5>3, <4>2, <4>4
          <6>2. QED BY <6>1, <5>3, <3>6
        <5>4. CASE k # p_wpos
          <6>1. k < p_wpos /\ p_wpos - k < S /\ k \in p_rpos..(p_wpos - 1) BY <5>4, <4>3, <4>5
          <6>2. k % S # p_wpos % S BY <6>1, <5>1, <4>5, ModDistinct
          <6>3. stdin_buffer'[k % S] = stdin_buffer[k % S] BY <6>2, <5>2, <4>2, <4>4
          <6>4. QED BY <6>1, <6>3, <4>1
        <5>5. QED BY <5>3, <5>4
      <4>7. QED BY <4>6
    <3>11. Len(got) = p_rpos /\ \A i \in 1..Len(got) : got[i] = i BY <3>2 DEF IInv, RingsExact
    <3>12. p_wpos' - 1 = p_wpos /\ ConsHeld' - 1 = h + n - 2 BY <3>3, <3>7, <1>1, <1>5
    <3>13. QED BY <3>8, <3>9, <3>10, <3>11, <3>12, <2>1, <1>4 DEF RingsExact
  <2>13. QED BY <2>8, <2>9, <2>10, <2>11, <2>12 DEF IInv
<1>9. QED BY <1>7, <1>8

-----------------------------------------------------------------------------
\* Counting on from a.
LEMMA CountOn ==
  ASSUME NEW a \in Nat, NEW k \in Nat
  PROVE  [i \in 1..a |-> i] \o [i \in 1..k |-> a + i] = [i \in 1..(a + k) |-> i]
<1> DEFINE g == [i \in 1..a |-> i]
<1> DEFINE t == [i \in 1..k |-> a + i]
<1> DEFINE f == [i \in 1..(a + k) |-> i]
<1>1. g \in Seq(Nat) /\ Len(g) = a /\ \A i \in 1..a : g[i] = i OBVIOUS
<1>2. t \in [1..k -> Nat] /\ \A i \in 1..k : t[i] = a + i OBVIOUS
<1>3. f \in Seq(Nat) /\ Len(f) = a + k /\ \A i \in 1..(a + k) : f[i] = i OBVIOUS
<1> HIDE DEF g, t, f
<1>4. /\ g \o t \in Seq(Nat) /\ Len(g \o t) = Len(g) + k
      /\ \A i \in 1..(Len(g) + k) : (g \o t)[i] = IF i <= Len(g) THEN g[i] ELSE t[i - Len(g)]
  BY <1>1, <1>2, GotIs
<1> DEFINE c == g \o t
<1>5. ASSUME NEW i \in 1..(a + k) PROVE c[i] = i
  <2>1. c[i] = IF i <= a THEN g[i] ELSE t[i - a] BY <1>1, <1>4
  <2>2. CASE i <= a
    <3>1. g[i] = i BY <2>2, <1>1
    <3>2. QED BY <3>1, <2>1, <2>2
  <2>3. CASE ~(i <= a)
    <3>1. t[i - a] = i BY <2>3, <1>2
    <3>2. QED BY <3>1, <2>1, <2>3
  <2>4. QED BY <2>2, <2>3
<1>6. c \in Seq(Nat) /\ Len(c) = a + k BY <1>1, <1>4
<1> HIDE DEF c
<1>7. c = f
  <2>1. Len(c) = Len(f) /\ \A i \in 1..Len(c) : c[i] = f[i] BY <1>3, <1>5, <1>6
  <2>2. QED BY <2>1, <1>3, <1>6, SeqEqual
<1>8. QED BY <1>7 DEF c, g, t, f

\* The inductive invariant holds in every state.
THEOREM Invariance == Spec => []IInv
<1>1. Init => IInv
  <2> SUFFICES ASSUME Init PROVE IInv OBVIOUS
  <2> USE StdinAssumption DEF Init
  <2>1. TypeOK BY DEF TypeOK
  <2>2. BuffersOK
    <3>1. overrun \in BOOLEAN BY Zenon
    <3>2. QED BY <3>1 DEF BuffersOK
  <2>3. EntriesAlive
    <3>1. Len(wait_queue) = 0 /\ ToSet(wait_queue) = {} BY DEF ToSet
    <3>2. QED BY <3>1 DEF EntriesAlive
  <2>4. NoSleeperWithInput BY DEF NoSleeperWithInput
  <2>5. RingsExact
    <3>1. ConsHeld = 0
      <4>1. CONSBUFSIZE \in Nat \ {0} OBVIOUS
      <4>2. 0 % CONSBUFSIZE = 0 BY <4>1
      <4>3. QED BY <4>2 DEF ConsHeld
    <3>2. Len(got) = 0 OBVIOUS
    <3>3. QED BY <3>1, <3>2 DEF RingsExact
  <2>6. QED BY <2>1, <2>2, <2>3, <2>4, <2>5 DEF IInv
<1>2. IInv /\ [Next]_vars => IInv'
  <2> SUFFICES ASSUME IInv, [Next]_vars PROVE IInv' OBVIOUS
  <2>1. ASSUME NEW n \in 0..MaxBurst, tick(n) PROVE IInv' BY <2>1, TickKeeps
  <2>2. ASSUME NEW r \in Readers, NEW n \in 1..MaxLen, dev_stdin_read(r, n) PROVE IInv'
    BY <2>2, ReadKeeps
  <2>3. ASSUME NEW r \in Readers, read_resume(r) PROVE IInv' BY <2>3, ResumeKeeps
  <2>4. ASSUME NEW r \in Readers, do_kill(r) PROVE IInv' BY <2>4, KillKeeps
  <2>5. ASSUME NEW r \in Readers, exit(r) PROVE IInv' BY <2>5, ExitKeeps
  <2>6. CASE UNCHANGED vars
    <3> USE <2>6 DEF vars, consvars, stdinvars, IInv
    <3>1. TypeOK' BY DEF TypeOK
    <3>2. BuffersOK' BY DEF BuffersOK
    <3>3. EntriesAlive' BY DEF EntriesAlive
    <3>4. NoSleeperWithInput' BY DEF NoSleeperWithInput
    <3>5. RingsExact' BY DEF RingsExact, ConsHeld
    <3>6. QED BY <3>1, <3>2, <3>3, <3>4, <3>5
  <2>7. QED BY <2>1, <2>2, <2>3, <2>4, <2>5, <2>6 DEF Next
<1>3. QED BY <1>1, <1>2, PTL DEF Spec

\* No reader sleeps while stdin holds a character: wakeup_queue reaches every
\* entry, and a reader sleeps only when it has taken all there was.
THEOREM NobodySleepsThroughInput == Spec => []NoSleeperWithInput
<1>1. IInv => NoSleeperWithInput BY DEF IInv
<1>2. QED BY <1>1, Invariance, PTL

\* The wait queue of stdin never links an entry of a reader that has left
\* dev_stdin_read, not even one that was killed while it slept.
THEOREM QueueEntriesAlive == Spec => []EntriesAlive
<1>1. IInv => EntriesAlive BY DEF IInv
<1>2. QED BY <1>1, Invariance, PTL

\* Until a ring overruns, what was read and what the two rings hold is what was
\* typed, in order, for every size of the rings and any number of readers.
THEOREM InputIsExact == Spec => []InputExact
<1>1. IInv => InputExact
  <2> SUFFICES ASSUME IInv, ~overrun
               PROVE  got \o StdinHeld \o ConsHeldChars = [i \in 1..typed |-> i]
    BY DEF InputExact
  <2> DEFINE C == CONSBUFSIZE
  <2> DEFINE S == STDIN_BUFSIZE
  <2> DEFINE m == p_wpos - p_rpos
  <2> DEFINE h == ConsHeld
  <2>1. /\ C \in Nat \ {0} /\ S \in Nat \ {0}
        /\ p_rpos \in Nat /\ p_wpos \in Nat /\ m \in Nat /\ typed \in Nat
        /\ cons_rpos \in 0..(C - 1) /\ cons_wpos \in 0..(C - 1) /\ got \in Seq(Nat)
    BY StdinAssumption DEF IInv, TypeOK, BuffersOK
  <2>2. h \in Nat BY <2>1, HeldIs DEF ConsHeld
  <2>3. /\ Len(got) = p_rpos /\ \A i \in 1..p_rpos : got[i] = i
        /\ \A k \in p_rpos..(p_wpos - 1) : stdin_buffer[k % S] = k + 1
        /\ typed = p_wpos + h
        /\ \A i \in 0..(h - 1) : cons_buf[(cons_rpos + i) % C] = p_wpos + 1 + i
    BY DEF IInv, RingsExact
  <2>4. StdinHeld = [i \in 1..m |-> p_rpos + i]
    <3>1. ASSUME NEW i \in 1..m PROVE stdin_buffer[(p_rpos + i - 1) % S] = p_rpos + i
      <4>1. p_rpos + i - 1 \in p_rpos..(p_wpos - 1) /\ (p_rpos + i - 1) + 1 = p_rpos + i BY <2>1
      <4>2. stdin_buffer[(p_rpos + i - 1) % S] = (p_rpos + i - 1) + 1 BY <4>1, <2>3
      <4>3. QED BY <4>1, <4>2
    <3>2. QED BY <3>1 DEF StdinHeld
  <2>5. ConsHeldChars = [i \in 1..h |-> p_wpos + i]
    <3>1. ASSUME NEW i \in 1..h PROVE cons_buf[(cons_rpos + i - 1) % C] = p_wpos + i
      <4> DEFINE j == i - 1
      <4>1. j \in 0..(h - 1) /\ cons_rpos + j = cons_rpos + i - 1 /\ p_wpos + 1 + j = p_wpos + i
        BY <2>1, <2>2
      <4> HIDE DEF j
      <4>2. cons_buf[(cons_rpos + j) % C] = p_wpos + 1 + j BY <4>1, <2>3
      <4>3. QED BY <4>1, <4>2
    <3>2. QED BY <3>1 DEF ConsHeldChars
  <2>6. got = [i \in 1..p_rpos |-> i]
    <3> DEFINE f == [i \in 1..p_rpos |-> i]
    <3>1. f \in Seq(Nat) /\ Len(f) = p_rpos /\ \A i \in 1..p_rpos : f[i] = i BY <2>1
    <3> HIDE DEF f
    <3>2. Len(got) = Len(f) /\ \A i \in 1..Len(got) : got[i] = f[i] BY <3>1, <2>3
    <3>3. got = f BY <3>1, <3>2, <2>1, SeqEqual
    <3>4. QED BY <3>3 DEF f
  <2>7. got \o StdinHeld = [i \in 1..p_wpos |-> i]
    <3>1. [i \in 1..p_rpos |-> i] \o [i \in 1..m |-> p_rpos + i] = [i \in 1..(p_rpos + m) |-> i]
      <4> HIDE DEF m
      <4>1. QED BY <2>1, CountOn
    <3>2. p_rpos + m = p_wpos BY <2>1
    <3> HIDE DEF m
    <3>3. QED BY <3>1, <3>2, <2>4, <2>6, Zenon
  <2>8. [i \in 1..p_wpos |-> i] \o [i \in 1..h |-> p_wpos + i] = [i \in 1..(p_wpos + h) |-> i]
    <3> HIDE DEF h
    <3>1. QED BY <2>1, <2>2, CountOn
  <2>9. typed = p_wpos + h BY <2>3
  <2> HIDE DEF h
  <2>10. QED BY <2>5, <2>7, <2>8, <2>9, Zenon
<1>2. QED BY <1>1, Invariance, PTL

=============================================================================
