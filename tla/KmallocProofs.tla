---------------------------- MODULE KmallocProofs ----------------------------
(***************************************************************************)
(* Theorems about the page allocator and the kernel heap.                  *)
(*                                                                         *)
(* The state of the page manager is described by the set S of the first    *)
(* pages of its blocks: IsList(L, S) says that the links of L go through S *)
(* in the order of the addresses and back.  Lemmas say what the operators  *)
(* of list.h and of the two managers make of such a state; the walk along  *)
(* the list, which is a recursive function, is dealt with once, in WalkIs. *)
(*                                                                         *)
(* Of the heap, Sorted says that the ring leads upwards through the free   *)
(* blocks and back to the arena, and Cells that blocks, free and in use,   *)
(* make up a set of units without overlapping; HeapOK puts the two         *)
(* together, and lemmas say what cut and slob_free make of such a heap.    *)
(***************************************************************************)
EXTENDS Kmalloc, FiniteSetTheorems, WellFoundedInduction, TLAPS

-----------------------------------------------------------------------------
(* Natural numbers and iterated functions.                                 *)

\* Every nonempty set of natural numbers has a least element.
LEMMA NatLeast ==
  ASSUME NEW T \in SUBSET Nat, T # {}
  PROVE  Least(T) \in T /\ \A y \in T : Least(T) <= y
<1> DEFINE R == OpToRel(<, Nat)
<1>1. IsWellFoundedOn(R, Nat) BY NatLessThanWellFounded
<1>2. \A x, y \in Nat : x < y => <<x, y>> \in R BY DEF OpToRel
<1> HIDE DEF R
<1>3. PICK x \in T : \A y \in T : ~(<<y, x>> \in R) BY <1>1, WFMin
<1>4. \A y \in T : ~(y < x) BY <1>2, <1>3
<1>5. \A y \in T : x \in Nat /\ y \in Nat OBVIOUS
<1>6. \A y \in T : x <= y BY <1>4, <1>5
<1>7. QED BY <1>6 DEF Least

\* Only one element of a set of numbers is least.
LEMMA LeastUnique ==
  ASSUME NEW T \in SUBSET Int, NEW x \in T, \A y \in T : x <= y
  PROVE  Least(T) = x
<1>1. Least(T) \in T /\ \A y \in T : Least(T) <= y BY DEF Least
<1>2. Least(T) \in Int /\ x \in Int BY <1>1
<1>3. Least(T) <= x /\ x <= Least(T) BY <1>1
<1>4. QED BY <1>2, <1>3

\* A set of natural numbers with 0 and with the successors of its members
\* has them all.
LEMMA SetInduction ==
  ASSUME NEW S, 0 \in S, \A n \in Nat : n \in S => n + 1 \in S
  PROVE  Nat \subseteq S
<1>1. SUFFICES ASSUME Nat \ S # {} PROVE FALSE OBVIOUS
<1>2. PICK x \in Nat \ S : \A y \in Nat \ S : x <= y BY <1>1, NatLeast
<1>3. x # 0 OBVIOUS
<1>4. x - 1 \in Nat /\ x - 1 \notin Nat \ S BY <1>2, <1>3
<1>5. QED BY <1>4

\* A function can be iterated.
Iterable(V, F, a, n) ==
  \E g \in [0 .. n -> V] : g[0] = a /\ \A k \in 1 .. n : g[k] = F[g[k - 1]]

LEMMA Iterates ==
  ASSUME NEW V, NEW F \in [V -> V], NEW a \in V, NEW n \in Nat
  PROVE  Iterable(V, F, a, n)
<1> DEFINE P(m, g) == g[0] = a /\ \A k \in 1 .. m : g[k] = F[g[k - 1]]
           T == {m \in Nat : \E g \in [0 .. m -> V] : P(m, g)}
<1>1. 0 \in T
  <2> DEFINE g == [k \in 0 .. 0 |-> a]
  <2>1. g \in [0 .. 0 -> V] /\ P(0, g) OBVIOUS
  <2>2. QED BY <2>1
<1>2. ASSUME NEW m \in Nat, m \in T PROVE m + 1 \in T
  <2>1. PICK g \in [0 .. m -> V] : P(m, g) BY <1>2
  <2> DEFINE h == [k \in 0 .. m + 1 |-> IF k = m + 1 THEN F[g[m]] ELSE g[k]]
  <2>2. h \in [0 .. m + 1 -> V] OBVIOUS
  <2>3. h[0] = a BY <2>1
  <2>4. ASSUME NEW k \in 1 .. m + 1 PROVE h[k] = F[h[k - 1]]
    <3>1. CASE k = m + 1
      <4>1. h[k] = F[g[m]] /\ h[k - 1] = g[m] BY <3>1
      <4>2. QED BY <4>1
    <3>2. CASE k # m + 1
      <4>1. k \in 1 .. m /\ k - 1 \in 0 .. m BY <3>2
      <4>2. h[k] = g[k] /\ h[k - 1] = g[k - 1] BY <4>1, <3>2
      <4>3. QED BY <4>1, <4>2, <2>1
    <3>3. QED BY <3>1, <3>2
  <2>5. P(m + 1, h) BY <2>3, <2>4
  <2> HIDE DEF P, h
  <2>6. QED BY <2>2, <2>5
<1>3. n \in T
  <2> HIDE DEF T
  <2>1. QED BY <1>1, <1>2, SetInduction
<1>4. QED BY <1>3 DEF Iterable

-----------------------------------------------------------------------------
(* The list and its walk.                                                  *)

\* The state of the page manager.
PmType == [next : [Entries -> Entries], prev : [Entries -> Entries],
           property : [Pages -> Nat], PG_property : SUBSET Pages, nr_free : Int]

\* The links of L go through the pages S upwards, and back.
IsList(L, S) ==
  /\ S \subseteq Pages
  /\ L \in PmType
  /\ \A e \in S \cup {Head} :
       /\ L.next[e] \in S \cup {Head} /\ L.prev[L.next[e]] = e
       /\ L.prev[e] \in S \cup {Head} /\ L.next[L.prev[e]] = e
       /\ L.next[e] # Head => e < L.next[e]
       /\ \A s \in S : e < s => L.next[e] # Head /\ L.next[e] <= s

\* What Along is defined to be.
LEMMA AlongIs ==
  ASSUME NEW L, L.next \in [Entries -> Entries]
  PROVE  /\ Along(L) \in [0 .. NP + 1 -> Entries]
         /\ Along(L)[0] = Head
         /\ \A k \in 1 .. NP + 1 : Along(L)[k] = L.next[Along(L)[k - 1]]
<1> DEFINE G(e) == [k \in 0 .. NP + 1 |-> IF k = 0 THEN Head ELSE L.next[e[k - 1]]]
<1>1. NP + 1 \in Nat BY PagesAssumption
<1>2. Head \in Entries BY DEF Entries
<1>3. PICK g \in [0 .. NP + 1 -> Entries] :
        g[0] = Head /\ \A k \in 1 .. NP + 1 : g[k] = L.next[g[k - 1]]
  <2> DEFINE F == L.next
             n == NP + 1
             V == Entries
             a == Head
  <2>1. F \in [V -> V] /\ n \in Nat /\ a \in V BY <1>1, <1>2
  <2> HIDE DEF F, n, V, a, G
  <2>2. Iterable(V, F, a, n) BY <2>1, Iterates
  <2>3. QED BY <2>2 DEF Iterable, F, n, V, a
<1>4. g = G(g)
  <2>1. ASSUME NEW k \in 0 .. NP + 1 PROVE g[k] = G(g)[k]
    <3>1. CASE k = 0 BY <3>1, <1>3
    <3>2. CASE k # 0
      <4>1. k \in 1 .. NP + 1 BY <3>2, <1>1
      <4>2. QED BY <4>1, <1>3, <3>2
    <3>3. QED BY <3>1, <3>2
  <2>2. QED BY <2>1
<1>5. Along(L) = G(Along(L))
  <2>1. Along(L) = CHOOSE e : e = G(e) BY DEF Along
  <2>2. QED BY <1>4, <2>1
<1> DEFINE A == Along(L)
<1>6. A = G(A) BY <1>5
<1> HIDE DEF A
<1>7. A[0] = Head
  <2>1. 0 \in 0 .. NP + 1 BY <1>1
  <2>2. QED BY <1>6, <2>1
<1>8. ASSUME NEW k \in 1 .. NP + 1 PROVE A[k] = L.next[A[k - 1]]
  <2>1. k \in 0 .. NP + 1 /\ k # 0 BY <1>1
  <2>2. QED BY <1>6, <2>1
<1>9. A \in [0 .. NP + 1 -> Entries]
  <2> DEFINE T == {m \in Nat : m \in 0 .. NP + 1 => A[m] \in Entries}
  <2>1. 0 \in T BY <1>7, <1>2
  <2>2. ASSUME NEW m \in Nat, m \in T PROVE m + 1 \in T
    <3>1. SUFFICES ASSUME m + 1 \in 0 .. NP + 1 PROVE A[m + 1] \in Entries OBVIOUS
    <3>2. m + 1 \in 1 .. NP + 1 /\ m \in 0 .. NP + 1 BY <3>1, <1>1
    <3>3. A[m + 1] = L.next[A[(m + 1) - 1]] BY <3>2, <1>8
    <3>4. A[m] \in Entries /\ (m + 1) - 1 = m BY <2>2, <3>2
    <3>5. QED BY <3>3, <3>4
  <2>3. Nat \subseteq T
    <3> HIDE DEF T
    <3>1. QED BY <2>1, <2>2, SetInduction
  <2>4. \A k \in 0 .. NP + 1 : A[k] \in Entries BY <2>3
  <2>5. QED BY <1>6, <2>4
<1>10. QED BY <1>7, <1>8, <1>9 DEF A

\* The walk along a list meets every block once, upwards, and comes back.
LEMMA WalkIs ==
  ASSUME NEW L, NEW S, IsList(L, S)
  PROVE  /\ ComesRound(L)
         /\ ListLength(L) \in 0 .. NP
         /\ \A k \in 1 .. ListLength(L) : Along(L)[k] \in S
         /\ \A s \in S : \E k \in 1 .. ListLength(L) : Along(L)[k] = s
         /\ \A j, k \in 1 .. ListLength(L) : j < k => Along(L)[j] < Along(L)[k]
         /\ Listed(L) = S
<1> DEFINE A == Along(L)
           P(m) == /\ A[m] \in S \cup {Head}
                   /\ A[m] >= m - 1
                   /\ \A j \in 1 .. m : A[j] \in S
                   /\ \A j \in 0 .. m : j < m => A[j] < A[m]
                   /\ \A s \in S : s <= A[m] => \E j \in 1 .. m : A[j] = s
           T == {m \in Nat : m <= NP + 1 /\ (\A k \in 1 .. m : A[k] # Head) => P(m)}
<1>1. /\ A \in [0 .. NP + 1 -> Entries] /\ A[0] = Head
      /\ \A k \in 1 .. NP + 1 : A[k] = L.next[A[k - 1]]
  BY AlongIs DEF IsList, PmType
<1>2. NP \in Nat /\ NP > 0 /\ NP + 1 \in Nat BY PagesAssumption
<1>3. S \subseteq Pages /\ S \subseteq Int /\ Head = -1 /\ Head \in Int
  BY DEF IsList, Pages, Head
<1> HIDE DEF A
<1>4. 0 \in T
  <2>1. ~\E s \in S : s <= A[0] BY <1>1, <1>3, <1>2 DEF Pages
  <2>2. P(0) BY <1>1, <1>3, <2>1
  <2>3. QED BY <2>2
<1>5. ASSUME NEW m \in Nat, m \in T PROVE m + 1 \in T
  <2>1. SUFFICES ASSUME m + 1 <= NP + 1, \A k \in 1 .. m + 1 : A[k] # Head
                 PROVE  P(m + 1)
    OBVIOUS
  <2>2. m <= NP + 1 /\ m + 1 \in 1 .. NP + 1 /\ m \in 0 .. NP + 1 BY <2>1, <1>2
  <2>3. \A k \in 1 .. m : A[k] # Head BY <2>1
  <2>4. P(m) BY <1>5, <2>2, <2>3
  <2>5. A[m + 1] = L.next[A[m]] /\ A[m + 1] # Head
    <3>1. (m + 1) - 1 = m OBVIOUS
    <3>2. QED BY <1>1, <2>1, <2>2, <3>1
  <2>6. /\ A[m + 1] \in S
        /\ A[m] < A[m + 1]
        /\ \A s \in S : A[m] < s => A[m + 1] <= s
    BY <2>4, <2>5 DEF IsList
  <2>7. A[m] \in Int /\ A[m + 1] \in Int BY <2>4, <2>6, <1>3
  <2>8. \A j \in 1 .. m + 1 : A[j] \in S BY <2>4, <2>6
  <2>9. \A j \in 0 .. m + 1 : j < m + 1 => A[j] < A[m + 1]
    <3>1. ASSUME NEW j \in 0 .. m + 1, j < m + 1 PROVE A[j] < A[m + 1]
      <4>1. j = m \/ j < m BY <3>1
      <4>2. j \in 0 .. NP + 1 BY <2>2, <3>1, <1>2
      <4>3. A[j] \in Int BY <4>2, <1>1, <1>2, <1>3 DEF Entries, Pages
      <4>4. A[j] <= A[m] BY <4>1, <2>4, <4>3, <2>7
      <4>5. QED BY <4>3, <4>4, <2>6, <2>7
    <3>2. QED BY <3>1
  <2>10. \A s \in S : s <= A[m + 1] => \E j \in 1 .. m + 1 : A[j] = s
    <3>1. ASSUME NEW s \in S, s <= A[m + 1] PROVE \E j \in 1 .. m + 1 : A[j] = s
      <4>1. CASE s <= A[m] BY <4>1, <2>4
      <4>2. CASE A[m] < s
        <5>1. s = A[m + 1] BY <4>2, <3>1, <2>6, <2>7, <1>3
        <5>2. QED BY <5>1
      <4>3. QED BY <4>1, <4>2, <2>7, <1>3
    <3>2. QED BY <3>1
  <2>11. A[m + 1] >= (m + 1) - 1 BY <2>4, <2>6, <2>7
  <2>12. QED BY <2>6, <2>8, <2>9, <2>10, <2>11
<1>6. \A m \in 0 .. NP + 1 : (\A k \in 1 .. m : A[k] # Head) => P(m)
  <2>1. Nat \subseteq T
    <3> HIDE DEF T
    <3>1. QED BY <1>4, <1>5, SetInduction
  <2> HIDE DEF P
  <2>2. QED BY <2>1, <1>2
<1> DEFINE E == {k \in 1 .. NP + 1 : A[k] = Head}
<1>7. E # {}
  <2>1. SUFFICES ASSUME E = {} PROVE FALSE OBVIOUS
  <2>2. \A k \in 1 .. NP + 1 : A[k] # Head BY <2>1
  <2>3. P(NP + 1) BY <2>2, <1>6, <1>2
  <2>4. A[NP + 1] \in Int /\ A[NP + 1] >= NP /\ A[NP + 1] \in Pages
    <3>1. A[NP + 1] \in S BY <2>3, <1>2
    <3>2. A[NP + 1] >= (NP + 1) - 1 BY <2>3
    <3>3. A[NP + 1] \in Pages /\ A[NP + 1] \in Int BY <3>1, <1>3
    <3>4. (NP + 1) - 1 = NP BY <1>2
    <3>5. QED BY <3>2, <3>3, <3>4
  <2>5. QED BY <2>4, <1>2 DEF Pages
<1>8. Least(E) \in E /\ \A k \in E : Least(E) <= k
  <2>1. E \in SUBSET Nat OBVIOUS
  <2> HIDE DEF E
  <2>2. QED BY <1>7, <2>1, NatLeast
<1>9. ComesRound(L) BY <1>7 DEF ComesRound, A
<1>10. ListLength(L) = Least(E) - 1 BY DEF ListLength, A
<1> DEFINE m == ListLength(L)
<1>11. m \in 0 .. NP /\ A[m + 1] = Head /\ \A k \in 1 .. m : A[k] # Head
  <2>1. Least(E) \in 1 .. NP + 1 /\ A[Least(E)] = Head BY <1>8
  <2>2. m = Least(E) - 1 BY <1>10
  <2> HIDE DEF m
  <2>3. m \in 0 .. NP /\ m + 1 = Least(E) BY <2>1, <2>2, <1>2
  <2>4. ASSUME NEW k \in 1 .. m PROVE A[k] # Head
    <3>1. k \in 1 .. NP + 1 /\ k < Least(E) BY <2>3, <1>2
    <3>2. k \notin E BY <3>1, <1>8, <2>1
    <3>3. QED BY <3>1, <3>2
  <2>5. QED BY <2>1, <2>3, <2>4
<1> HIDE DEF m, E, T
<1>12. \A k \in 0 .. m : P(k)
  <2>1. ASSUME NEW k \in 0 .. m PROVE P(k)
    <3>1. k \in 0 .. NP + 1 /\ \A j \in 1 .. k : A[j] # Head BY <1>11, <1>2
    <3> HIDE DEF P
    <3>2. QED BY <3>1, <1>6
  <2>2. QED BY <2>1
<1>13. \A k \in 1 .. m : A[k] \in S
  <2>1. m \in 0 .. m BY <1>11
  <2>2. P(m) BY <2>1, <1>12
  <2>3. QED BY <2>2
<1>14. \A s \in S : \E k \in 1 .. m : A[k] = s
  <2>1. m \in 0 .. m BY <1>11
  <2>2. P(m) BY <2>1, <1>12
  <2>3. L.next[A[m]] = Head
    <3>1. m + 1 \in 1 .. NP + 1 /\ (m + 1) - 1 = m BY <1>11, <1>2
    <3>2. QED BY <3>1, <1>1, <1>11
  <2>4. ASSUME NEW s \in S PROVE s <= A[m]
    <3>1. ~(A[m] < s) BY <2>2, <2>3 DEF IsList
    <3>2. A[m] \in Int /\ s \in Int BY <2>2, <1>3
    <3>3. QED BY <3>1, <3>2
  <2>5. QED BY <2>2, <2>4
<1>15. \A j, k \in 1 .. m : j < k => A[j] < A[k]
  <2>1. ASSUME NEW j \in 1 .. m, NEW k \in 1 .. m, j < k PROVE A[j] < A[k]
    <3>1. k \in 0 .. m /\ j \in 0 .. k BY <1>11, <2>1
    <3>2. P(k) BY <3>1, <1>12
    <3>3. QED BY <3>1, <3>2, <2>1
  <2>2. QED BY <2>1
<1>16. Listed(L) = S
  <2>1. Listed(L) = {A[k] : k \in 1 .. m} BY DEF Listed, A, m
  <2>2. QED BY <2>1, <1>13, <1>14
<1>17. QED BY <1>9, <1>11, <1>13, <1>14, <1>15, <1>16 DEF A, m

-----------------------------------------------------------------------------
(* Linking and unlinking.                                                  *)

\* What every list has.
LEMMA ListType ==
  ASSUME NEW L, NEW S, IsList(L, S)
  PROVE  /\ L \in PmType /\ S \subseteq Pages /\ S \subseteq Entries /\ S \subseteq Int
         /\ L.next \in [Entries -> Entries] /\ L.prev \in [Entries -> Entries]
         /\ Head \in Entries /\ Head \in Int /\ Head \notin S
         /\ \A y \in Pages : y \in Int /\ y \in Entries /\ Head < y /\ y # Head
<1>1. Head = -1 /\ Head \in Int /\ Head \in Entries BY DEF Head, Entries
<1>2. \A y \in Pages : y \in Int /\ Head < y /\ y # Head BY <1>1, PagesAssumption DEF Pages
<1>3. \A y \in Pages : y \in Entries BY DEF Entries
<1>4. L \in PmType /\ S \subseteq Pages BY DEF IsList
<1>5. L.next \in [Entries -> Entries] /\ L.prev \in [Entries -> Entries] BY <1>4 DEF PmType
<1>6. QED BY <1>1, <1>2, <1>3, <1>4, <1>5

\* list_del takes one block out of the list and leaves everything else alone.
LEMMA DelIs ==
  ASSUME NEW L, NEW S, IsList(L, S), NEW b \in S
  PROVE  /\ IsList(list_del(L, b), S \ {b})
         /\ list_del(L, b).next[L.prev[b]] = L.next[b]
         /\ list_del(L, b).property = L.property
         /\ list_del(L, b).PG_property = L.PG_property
         /\ list_del(L, b).nr_free = L.nr_free
<1> DEFINE D == list_del(L, b)
           p == L.prev[b]
           q == L.next[b]
<1>1. /\ L \in PmType /\ b \in Entries /\ p \in Entries /\ q \in Entries
      /\ b # Head /\ S \subseteq Int /\ Head \in Int /\ Head \in Entries
  <2>1. b \in Entries /\ b # Head BY ListType
  <2>2. QED BY <2>1, ListType
<1>2. /\ D \in PmType
      /\ D.next = [L.next EXCEPT ![p] = q]
      /\ D.prev = [L.prev EXCEPT ![q] = p]
      /\ D.property = L.property
      /\ D.PG_property = L.PG_property
      /\ D.nr_free = L.nr_free
  BY <1>1 DEF list_del, PmType
<1>3. p \in S \cup {Head} /\ q \in S \cup {Head} /\ L.next[p] = b /\ L.prev[q] = b
  BY DEF IsList
<1>4. p # b /\ q # b /\ p < b
  <2>1. q # b BY <1>1, <1>3 DEF IsList
  <2>2. L.next[p] # Head BY <1>1, <1>3
  <2>3. p < b BY <1>3, <2>2 DEF IsList
  <2>4. QED BY <2>1, <2>3, <1>1, <1>3
<1>5. L.next \in [Entries -> Entries] /\ L.prev \in [Entries -> Entries] BY <1>1 DEF PmType
<1>6. S \subseteq Entries BY DEF IsList, Entries
<1> DEFINE R == S \ {b}
<1>7. ASSUME NEW e \in R \cup {Head}
      PROVE  /\ D.next[e] \in R \cup {Head} /\ D.prev[D.next[e]] = e
             /\ D.prev[e] \in R \cup {Head} /\ D.next[D.prev[e]] = e
             /\ D.next[e] # Head => e < D.next[e]
             /\ \A s \in R : e < s => D.next[e] # Head /\ D.next[e] <= s
  <2>1. e \in S \cup {Head} /\ e # b /\ e \in Entries BY <1>1, <1>6
  <2>2. /\ L.next[e] \in S \cup {Head} /\ L.prev[L.next[e]] = e
        /\ L.prev[e] \in S \cup {Head} /\ L.next[L.prev[e]] = e
        /\ L.next[e] # Head => e < L.next[e]
        /\ \A s \in S : e < s => L.next[e] # Head /\ L.next[e] <= s
    BY <2>1 DEF IsList
  <2>3. CASE e = p
    <3>1. D.next[e] = q BY <1>2, <1>5, <2>1, <2>3
    <3>2. D.prev[q] = p BY <1>2, <1>5, <1>1
    <3>3. q # Head => e < q
      <4>1. SUFFICES ASSUME q # Head PROVE e < q OBVIOUS
      <4>2. b < q BY <4>1 DEF IsList
      <4>3. p \in Int /\ q \in Int /\ b \in Int BY <1>1, <1>3
      <4>4. QED BY <4>2, <4>3, <1>4, <2>3
    <3>4. \A s \in R : e < s => q # Head /\ q <= s
      <4>1. ASSUME NEW s \in R, e < s PROVE q # Head /\ q <= s
        <5>1. b <= s BY <2>2, <2>3, <1>3, <4>1
        <5>2. b < s BY <5>1, <1>1
        <5>3. QED BY <5>2 DEF IsList
      <4>2. QED BY <4>1
    <3>5. D.prev[e] \in R \cup {Head} /\ D.next[D.prev[e]] = e
      <4>1. CASE e = q
        <5>1. D.prev[e] = p BY <4>1, <3>2
        <5>2. QED BY <5>1, <3>1, <4>1, <2>3
      <4>2. CASE e # q
        <5>1. D.prev[e] = L.prev[e] BY <4>2, <1>2, <1>5, <2>1
        <5>2. L.prev[e] # b
          <6>1. SUFFICES ASSUME L.prev[e] = b PROVE FALSE OBVIOUS
          <6>2. L.next[b] = e BY <6>1, <2>2
          <6>3. QED BY <6>2, <4>2
        <5>3. L.prev[e] # p
          <6>1. SUFFICES ASSUME L.prev[e] = p PROVE FALSE OBVIOUS
          <6>2. QED BY <6>1, <2>2, <1>3, <2>1
        <5>4. D.next[L.prev[e]] = L.next[L.prev[e]] BY <5>3, <1>2, <1>5, <2>2, <1>6, <1>1
        <5>5. QED BY <5>1, <5>2, <5>4, <2>2
      <4>3. QED BY <4>1, <4>2
    <3>6. QED BY <3>1, <3>2, <3>3, <3>4, <3>5, <2>3, <1>3, <1>4
  <2>4. CASE e # p
    <3>1. D.next[e] = L.next[e] BY <1>2, <1>5, <2>1, <2>4
    <3>2. L.next[e] # b
      <4>1. SUFFICES ASSUME L.next[e] = b PROVE FALSE OBVIOUS
      <4>2. QED BY <4>1, <2>2, <2>4
    <3>3. L.next[e] # q
      <4>1. SUFFICES ASSUME L.next[e] = q PROVE FALSE OBVIOUS
      <4>2. QED BY <4>1, <2>2, <2>1, <1>3
    <3>4. D.prev[D.next[e]] = e
      <4>1. L.next[e] \in Entries BY <2>2, <1>6, <1>1, <1>5, <2>1
      <4>2. QED BY <3>1, <3>3, <4>1, <1>2, <1>5, <2>2
    <3>5. D.prev[e] \in R \cup {Head} /\ D.next[D.prev[e]] = e
      <4>1. CASE e = q
        <5>1. D.prev[e] = p /\ D.next[p] = q BY <4>1, <1>2, <1>5, <1>1
        <5>2. QED BY <5>1, <4>1, <1>3, <1>4
      <4>2. CASE e # q
        <5>1. D.prev[e] = L.prev[e] BY <4>2, <1>2, <1>5, <2>1
        <5>2. L.prev[e] # b
          <6>1. SUFFICES ASSUME L.prev[e] = b PROVE FALSE OBVIOUS
          <6>2. L.next[b] = e BY <6>1, <2>2
          <6>3. QED BY <6>2, <4>2
        <5>3. L.prev[e] # p
          <6>1. SUFFICES ASSUME L.prev[e] = p PROVE FALSE OBVIOUS
          <6>2. QED BY <6>1, <2>2, <1>3, <2>1
        <5>4. D.next[L.prev[e]] = L.next[L.prev[e]] BY <5>3, <1>2, <1>5, <2>2, <2>1
        <5>5. QED BY <5>1, <5>2, <5>4, <2>2
      <4>3. QED BY <4>1, <4>2
    <3>6. QED BY <3>1, <3>2, <3>4, <3>5, <2>2
  <2>5. QED BY <2>3, <2>4
<1>8. IsList(D, R)
  <2>1. R \subseteq Pages BY DEF IsList
  <2> HIDE DEF D, R
  <2>2. QED BY <2>1, <1>2, <1>7 DEF IsList
<1>9. D.next[p] = q BY <1>2, <1>5, <1>1
<1>10. QED BY <1>2, <1>8, <1>9

\* A block x is linked between two neighbours it lies between.
LEMMA AddIs ==
  ASSUME NEW L, NEW S, IsList(L, S), NEW x \in Pages, x \notin S,
         NEW p \in S \cup {Head}, p < x, L.next[p] # Head => x < L.next[p]
  PROVE  LET D == list_add_between(L, x, p, L.next[p])
         IN  /\ IsList(D, S \cup {x})
             /\ D.next[p] = x /\ D.next[x] = L.next[p] /\ D.prev[x] = p
             /\ D.property = L.property
             /\ D.PG_property = L.PG_property
             /\ D.nr_free = L.nr_free
<1> DEFINE q == L.next[p]
           D == list_add_between(L, x, p, q)
<1>1. /\ L \in PmType /\ x \in Entries /\ p \in Entries /\ q \in Entries
      /\ x # Head /\ S \subseteq Int /\ Head \in Int /\ x \in Int /\ Head \in Entries
      /\ \A y \in S : Head < y
  <2>1. p \in Entries BY ListType
  <2>2. QED BY <2>1, ListType
<1>2. q \in S \cup {Head} /\ L.prev[q] = p BY DEF IsList
<1>3. p # x /\ q # x BY <1>1, <1>2
<1>4. L.next \in [Entries -> Entries] /\ L.prev \in [Entries -> Entries] BY <1>1 DEF PmType
<1>5. S \subseteq Entries BY DEF IsList, Entries
<1>6. /\ D \in PmType
      /\ D.next = [[L.next EXCEPT ![p] = x] EXCEPT ![x] = q]
      /\ D.prev = [[L.prev EXCEPT ![q] = x] EXCEPT ![x] = p]
      /\ D.property = L.property
      /\ D.PG_property = L.PG_property
      /\ D.nr_free = L.nr_free
  BY <1>1 DEF list_add_between, PmType
<1>7. /\ D.next[p] = x /\ D.next[x] = q /\ D.prev[x] = p /\ D.prev[q] = x
      /\ \A e \in Entries : e # p /\ e # x => D.next[e] = L.next[e]
      /\ \A e \in Entries : e # q /\ e # x => D.prev[e] = L.prev[e]
  BY <1>6, <1>4, <1>3, <1>1
<1> DEFINE R == S \cup {x}
<1>8. ASSUME NEW e \in R \cup {Head}
      PROVE  /\ D.next[e] \in R \cup {Head} /\ D.prev[D.next[e]] = e
             /\ D.prev[e] \in R \cup {Head} /\ D.next[D.prev[e]] = e
             /\ D.next[e] # Head => e < D.next[e]
             /\ \A s \in R : e < s => D.next[e] # Head /\ D.next[e] <= s
  <2> HIDE DEF D
  <2>1. CASE e = x
    <3>1. D.next[e] \in R \cup {Head} /\ D.prev[D.next[e]] = e BY <1>7, <1>2, <2>1
    <3>2. D.prev[e] \in R \cup {Head} /\ D.next[D.prev[e]] = e BY <1>7, <1>2, <2>1
    <3>3. \A s \in S : e < s => q # Head /\ q <= s
      <4>1. ASSUME NEW s \in S, e < s PROVE q # Head /\ q <= s
        <5>1. p < s BY <4>1, <2>1, <1>1
        <5>2. QED BY <5>1 DEF IsList
      <4>2. QED BY <4>1
    <3>4. QED BY <3>1, <3>2, <3>3, <1>7, <2>1, <1>1
  <2>2. CASE e # x
    <3>1. e \in S \cup {Head} /\ e \in Entries BY <2>2, <1>1, <1>5
    <3>2. /\ L.next[e] \in S \cup {Head} /\ L.prev[L.next[e]] = e
          /\ L.prev[e] \in S \cup {Head} /\ L.next[L.prev[e]] = e
          /\ L.next[e] # Head => e < L.next[e]
          /\ \A s \in S : e < s => L.next[e] # Head /\ L.next[e] <= s
      BY <3>1 DEF IsList
    <3>3. L.next[e] \in Entries /\ L.prev[e] \in Entries /\ e \in Int
      BY <3>1, <3>2, <1>4, <1>1
    <3>4. D.prev[e] \in R \cup {Head} /\ D.next[D.prev[e]] = e
      <4>1. CASE e = q BY <4>1, <1>7
      <4>2. CASE e # q
        <5>1. D.prev[e] = L.prev[e] BY <4>2, <2>2, <3>1, <1>7
        <5>2. L.prev[e] # p
          <6>1. SUFFICES ASSUME L.prev[e] = p PROVE FALSE OBVIOUS
          <6>2. QED BY <6>1, <3>2, <4>2
        <5>3. L.prev[e] # x BY <3>2, <1>1
        <5>4. QED BY <5>1, <5>2, <5>3, <1>7, <3>2, <3>3
      <4>3. QED BY <4>1, <4>2
    <3>5. CASE e = p
      <4>1. D.next[e] = x /\ D.prev[x] = e BY <3>5, <1>7
      <4>2. \A s \in R : e < s => x <= s
        <5>1. ASSUME NEW s \in S, e < s PROVE x <= s
          <6>1. q # Head /\ q <= s BY <3>2, <3>5, <5>1
          <6>2. x < q /\ q \in Int BY <6>1, <1>2, <1>1
          <6>3. QED BY <6>1, <6>2, <1>1
        <5>2. QED BY <5>1, <1>1
      <4>3. QED BY <4>1, <4>2, <3>4, <3>5, <1>1
    <3>6. CASE e # p
      <4>1. D.next[e] = L.next[e] BY <3>6, <2>2, <3>1, <1>7
      <4>2. L.next[e] # q
        <5>1. SUFFICES ASSUME L.next[e] = q PROVE FALSE OBVIOUS
        <5>2. QED BY <5>1, <3>2, <1>2, <3>6
      <4>3. L.next[e] # x BY <3>2, <1>1
      <4>4. D.prev[D.next[e]] = e BY <4>1, <4>2, <4>3, <1>7, <3>2, <3>3
      <4>5. e < x => L.next[e] # Head /\ L.next[e] <= x
        <5>1. SUFFICES ASSUME e < x PROVE L.next[e] # Head /\ L.next[e] <= x OBVIOUS
        <5>2. e < p
          <6>1. SUFFICES ASSUME p < e PROVE FALSE BY <3>3, <3>6, <1>1, <1>2
          <6>2. e \in S
            <7>1. CASE e = Head
              <8>1. Head < p BY <7>1, <3>6, <1>1
              <8>2. QED BY <8>1, <6>1, <7>1, <1>1
            <7>2. QED BY <7>1, <3>1
          <6>3. q # Head /\ q <= e BY <6>1, <6>2 DEF IsList
          <6>4. x < q /\ q \in Int BY <6>3, <1>1, <1>2
          <6>5. QED BY <6>3, <6>4, <5>1, <3>3, <1>1
        <5>3. p \in S
          <6>1. CASE p = Head
            <7>1. e # Head BY <6>1, <5>2, <1>1
            <7>2. Head < e BY <7>1, <3>1, <1>1
            <7>3. QED BY <7>2, <6>1, <5>2, <1>1, <3>3
          <6>2. QED BY <6>1
        <5>4. L.next[e] # Head /\ L.next[e] <= p BY <3>2, <5>2, <5>3
        <5>5. L.next[e] \in Int /\ p \in Int BY <3>2, <1>1
        <5>6. QED BY <5>4, <5>5, <1>1
      <4>6. QED BY <4>1, <4>4, <4>5, <3>2, <3>4
    <3>7. QED BY <3>5, <3>6
  <2>3. QED BY <2>1, <2>2
<1>9. IsList(D, R)
  <2>1. R \subseteq Pages BY DEF IsList
  <2> HIDE DEF D, R
  <2>2. QED BY <2>1, <1>6, <1>8 DEF IsList
<1>10. QED BY <1>6, <1>7, <1>9

-----------------------------------------------------------------------------
(* What the operations of the managers make of an exact free list.         *)

\* Blocks of the lengths size begin at S and make up the pages F.
Tiles(size, S, F) ==
  /\ F \subseteq Pages
  /\ \A s \in S : size[s] >= 1 /\ \A q \in Int : s <= q /\ q < s + size[s] => q \in F
  /\ \A q \in F : \E s \in S : s <= q /\ q < s + size[s]

\* L is an exact free list of the pages F, with blocks that begin at S, apart
\* and not bordering on each other.
Exact(L, S, F) ==
  /\ IsList(L, S)
  /\ Tiles(L.property, S, F)
  /\ \A s, t \in S : s < t => s + L.property[s] < t
  /\ L.PG_property = S
  /\ L.nr_free = Cardinality(F)

\* A list is its links.
LEMMA SameLinks ==
  ASSUME NEW L, NEW S, IsList(L, S), NEW M \in PmType, M.next = L.next, M.prev = L.prev
  PROVE  IsList(M, S)
BY DEF IsList

\* Tidy changes nothing that counts.
LEMMA TidyIs ==
  ASSUME NEW L, NEW S, IsList(L, S)
  PROVE  /\ IsList(Tidy(L), S)
         /\ \A s \in S : Tidy(L).property[s] = L.property[s]
         /\ Tidy(L).PG_property = L.PG_property
         /\ Tidy(L).nr_free = L.nr_free
<1> DEFINE seen == S \cup {Head} \cup {L.prev[e] : e \in S \cup {Head}}
           N == [e \in Entries |-> IF e \in seen THEN L.next[e] ELSE Head]
           P == [e \in Entries |-> IF e \in seen THEN L.prev[e] ELSE Head]
           Q == [p \in Pages |-> IF p \in seen THEN L.property[p] ELSE 0]
           M == [L EXCEPT !.next = N, !.prev = P, !.property = Q]
<1>1. ComesRound(L) /\ Listed(L) = S BY WalkIs
<1>2. Tidy(L) = M BY <1>1 DEF Tidy
<1>3. /\ L \in PmType /\ S \subseteq Pages /\ S \subseteq Entries /\ Head \in Entries
      /\ L.next \in [Entries -> Entries] /\ L.prev \in [Entries -> Entries]
  BY ListType
<1>4. L.property \in [Pages -> Nat] BY <1>3 DEF PmType
<1>5. N \in [Entries -> Entries] /\ P \in [Entries -> Entries] /\ Q \in [Pages -> Nat]
  BY <1>3, <1>4
<1>6. \A e \in S \cup {Head} : N[e] = L.next[e] /\ P[e] = L.prev[e] BY <1>3
<1>7. \A s \in S : Q[s] = L.property[s] BY <1>3
<1> HIDE DEF N, P, Q
<1>8. /\ M \in PmType /\ M.next = N /\ M.prev = P /\ M.property = Q
      /\ M.PG_property = L.PG_property /\ M.nr_free = L.nr_free
  BY <1>3, <1>5 DEF PmType
<1> HIDE DEF M
<1>9. IsList(M, S)
  <2>1. ASSUME NEW e \in S \cup {Head}
        PROVE  /\ M.next[e] \in S \cup {Head} /\ M.prev[M.next[e]] = e
               /\ M.prev[e] \in S \cup {Head} /\ M.next[M.prev[e]] = e
               /\ M.next[e] # Head => e < M.next[e]
               /\ \A s \in S : e < s => M.next[e] # Head /\ M.next[e] <= s
    <3>1. /\ L.next[e] \in S \cup {Head} /\ L.prev[L.next[e]] = e
          /\ L.prev[e] \in S \cup {Head} /\ L.next[L.prev[e]] = e
          /\ L.next[e] # Head => e < L.next[e]
          /\ \A s \in S : e < s => L.next[e] # Head /\ L.next[e] <= s
      BY DEF IsList
    <3>2. M.next[e] = L.next[e] /\ M.prev[e] = L.prev[e] BY <1>6, <1>8
    <3>3. M.prev[L.next[e]] = L.prev[L.next[e]] /\ M.next[L.prev[e]] = L.next[L.prev[e]]
      BY <3>1, <1>6, <1>8
    <3>4. QED BY <3>1, <3>2, <3>3
  <2>2. QED BY <2>1, <1>3, <1>8 DEF IsList
<1>10. QED BY <1>2, <1>7, <1>8, <1>9

\* The number of pages of a run.
LEMMA RunIs ==
  ASSUME NEW b \in Int, NEW n \in Nat
  PROVE  /\ IsFiniteSet(Run(b, n)) /\ Cardinality(Run(b, n)) = n
         /\ \A q \in Int : q \in Run(b, n) <=> b <= q /\ q < b + n
<1>1. b + n - 1 \in Int OBVIOUS
<1>2. /\ IsFiniteSet(b .. b + n - 1)
      /\ Cardinality(b .. b + n - 1) = IF b > b + n - 1 THEN 0 ELSE (b + n - 1) - b + 1
  BY <1>1, FS_Interval
<1>3. QED BY <1>2 DEF Run

LEMMA PagesFinite == ASSUME NEW F \in SUBSET Pages
                     PROVE  IsFiniteSet(F) /\ Cardinality(F) \in Nat
<1>1. NP - 1 \in Int BY PagesAssumption
<1>2. IsFiniteSet(Pages) BY <1>1, FS_Interval DEF Pages
<1>3. IsFiniteSet(F) BY <1>2, FS_Subset
<1>4. QED BY <1>3, FS_CardinalityType

\* take: n pages are cut from the front of the block b.
LEMMA TakeIs ==
  ASSUME NEW L, NEW S, NEW F, Exact(L, S, F), NEW b \in S, NEW n \in Nat, n >= 1,
         L.property[b] >= n
  PROVE  \E R : Exact(take(L, b, n), R, F \ Run(b, n))
<1> DEFINE D == list_del(L, b)
           p == L.prev[b]
           q == L.next[b]
           G == F \ Run(b, n)
<1>1. /\ L \in PmType /\ S \subseteq Pages /\ S \subseteq Entries /\ S \subseteq Int
      /\ Head \in Int /\ Head \in Entries /\ Head \notin S
      /\ \A y \in Pages : y \in Int /\ y \in Entries /\ Head < y /\ y # Head
  BY ListType DEF Exact
<1>2. /\ IsList(D, S \ {b}) /\ D.next[p] = q /\ D.property = L.property
      /\ D.PG_property = L.PG_property /\ D.nr_free = L.nr_free
  BY DelIs DEF Exact
<1>3. L.property \in [Pages -> Nat] /\ L.nr_free \in Int /\ L.PG_property = S
  BY <1>1 DEF PmType, Exact
<1>4. b \in Pages /\ b \in Int /\ L.property[b] \in Nat BY <1>1, <1>3
<1>5. \A x \in Int : x \in Run(b, n) <=> b <= x /\ x < b + n BY <1>4, RunIs
<1>6. Run(b, n) \subseteq F
  <2>1. Run(b, n) \subseteq Int BY <1>4 DEF Run
  <2>2. \A x \in Int : b <= x /\ x < b + L.property[b] => x \in F BY DEF Exact, Tiles
  <2>3. \A x \in Int : x < b + n => x < b + L.property[b] BY <1>4
  <2>4. QED BY <2>1, <2>2, <2>3, <1>5
<1>7. L.nr_free - n = Cardinality(G)
  <2>1. IsFiniteSet(F) BY PagesFinite DEF Exact, Tiles
  <2>2. Cardinality(G) = Cardinality(F) - Cardinality(F \cap Run(b, n)) BY <2>1, FS_Difference
  <2>3. F \cap Run(b, n) = Run(b, n) BY <1>6
  <2>4. Cardinality(Run(b, n)) = n BY RunIs, <1>4
  <2>5. QED BY <2>2, <2>3, <2>4 DEF Exact
<1>8. p \in S \cup {Head} /\ q \in S \cup {Head} /\ p # b /\ L.next[p] = b /\ p < b
  <2>1. p \in S \cup {Head} /\ q \in S \cup {Head} /\ L.next[p] = b BY DEF Exact, IsList
  <2>2. L.next[p] # Head BY <2>1, <1>1
  <2>3. p < b BY <2>1, <2>2 DEF Exact, IsList
  <2>4. p \in Int BY <2>1, <1>1
  <2>5. QED BY <2>1, <2>3, <2>4, <1>4
<1>9. F \subseteq Pages /\ G \subseteq Pages /\ F \subseteq Int
  BY <1>1 DEF Exact, Tiles
<1>10. \A s \in S : L.property[s] \in Nat /\ L.property[s] >= 1 BY <1>1, <1>3 DEF Exact, Tiles
<1>11. \A s, t \in S : s < t => s + L.property[s] < t BY DEF Exact
<1>12. \A s \in S : \A x \in Int : s <= x /\ x < s + L.property[s] => x \in F
  BY DEF Exact, Tiles
<1>13. \A x \in F : \E s \in S : s <= x /\ x < s + L.property[s]
  BY DEF Exact, Tiles
<1>14. CASE ~(L.property[b] > n)
  <2> DEFINE X == [D EXCEPT !.nr_free = @ - n, !.PG_property = @ \ {b}]
             R == S \ {b}
  <2>1. take(L, b, n) = Tidy(X) BY <1>14 DEF take
  <2>2. D \in PmType BY <1>2 DEF IsList
  <2>3. /\ X \in PmType /\ X.next = D.next /\ X.prev = D.prev /\ X.property = L.property
        /\ X.PG_property = R /\ X.nr_free = Cardinality(G)
    <3> HIDE DEF D, G
    <3>1. D.PG_property \ {b} \in SUBSET Pages /\ D.nr_free - n \in Int
      BY <1>1, <1>2, <1>3
    <3>2. /\ X \in PmType /\ X.next = D.next /\ X.prev = D.prev /\ X.property = D.property
          /\ X.PG_property = D.PG_property \ {b} /\ X.nr_free = D.nr_free - n
      BY <2>2, <3>1 DEF PmType
    <3> HIDE DEF X
    <3>3. QED BY <3>2, <1>2, <1>3, <1>7
  <2> HIDE DEF X
  <2>4. IsList(X, R) BY <2>3, <1>2, SameLinks
  <2>5. L.property[b] = n BY <1>14, <1>4
  <2>6. ASSUME NEW s \in R, NEW x \in Int, s <= x, x < s + L.property[s] PROVE x \in G
    <3>1. x \in F /\ s \in Int /\ L.property[s] \in Nat BY <2>6, <1>12, <1>1, <1>10
    <3>2. s < b \/ b < s BY <3>1, <1>4
    <3>3. CASE s < b
      <4>1. s + L.property[s] < b BY <3>3, <1>11
      <4>2. x \notin Run(b, n) BY <4>1, <2>6, <3>1, <1>4, <1>5
      <4>3. QED BY <3>1, <4>2
    <3>4. CASE b < s
      <4>1. b + n < s BY <3>4, <1>11, <2>5
      <4>2. x \notin Run(b, n) BY <4>1, <2>6, <3>1, <1>4, <1>5
      <4>3. QED BY <3>1, <4>2
    <3>5. QED BY <3>2, <3>3, <3>4
  <2>7. ASSUME NEW x \in G PROVE \E s \in R : s <= x /\ x < s + L.property[s]
    <3>1. x \in Int /\ x \notin Run(b, n) BY <1>9
    <3>2. PICK s \in S : s <= x /\ x < s + L.property[s] BY <1>13
    <3>3. s # b BY <3>1, <3>2, <1>5, <2>5
    <3>4. QED BY <3>2, <3>3
  <2> DEFINE Y == Tidy(X)
  <2>8. /\ IsList(Y, R) /\ \A s \in R : Y.property[s] = L.property[s]
        /\ Y.PG_property = R /\ Y.nr_free = Cardinality(G)
    <3> HIDE DEF R, G
    <3>1. /\ IsList(Y, R) /\ \A s \in R : Y.property[s] = X.property[s]
          /\ Y.PG_property = X.PG_property /\ Y.nr_free = X.nr_free
      BY <2>4, TidyIs
    <3>2. QED BY <3>1, <2>3
  <2> HIDE DEF Y, G
  <2>9. Tiles(Y.property, R, G)
    <3>1. ASSUME NEW s \in R
          PROVE  /\ Y.property[s] >= 1
                 /\ \A x \in Int : s <= x /\ x < s + Y.property[s] => x \in G
      <4>1. Y.property[s] = L.property[s] BY <2>8
      <4>2. QED BY <4>1, <2>6, <1>10
    <3>2. ASSUME NEW x \in G PROVE \E s \in R : s <= x /\ x < s + Y.property[s]
      BY <2>7, <2>8
    <3>3. QED BY <3>1, <3>2, <1>9 DEF Tiles
  <2>10. \A s, t \in R : s < t => s + Y.property[s] < t BY <2>8, <1>11
  <2>11. Exact(Y, R, G) BY <2>8, <2>9, <2>10 DEF Exact
  <2>12. QED BY <2>1, <2>11 DEF Y, G
<1>15. CASE L.property[b] > n
  <2> DEFINE r == b + n
             A == list_add(D, p, r)
             B == [A EXCEPT !.property = [@ EXCEPT ![r] = L.property[b] - n],
                            !.PG_property = @ \cup {r}]
             X == [B EXCEPT !.nr_free = @ - n, !.PG_property = @ \ {b}]
             R == (S \ {b}) \cup {r}
  <2>1. take(L, b, n) = Tidy(X) BY <1>15 DEF take
  <2>2. r \in F /\ r \in Pages /\ r \in Int /\ r # b /\ b < r
    <3>1. r \in Int /\ b <= r /\ r < b + L.property[b] /\ r # b /\ b < r BY <1>15, <1>4
    <3>2. QED BY <3>1, <1>12, <1>9
  <2>3. \A s \in S : s # b => s # r /\ (b < s => r < s)
    <3>1. ASSUME NEW s \in S, s # b PROVE s # r /\ (b < s => r < s)
      <4>1. s \in Int BY <1>1
      <4>2. CASE s < b BY <4>1, <4>2, <2>2, <1>4
      <4>3. CASE b < s
        <5>1. b + L.property[b] < s BY <4>3, <1>11
        <5>2. QED BY <5>1, <4>1, <1>15, <1>4, <2>2
      <4>4. QED BY <4>1, <4>2, <4>3, <3>1, <1>4
    <3>2. QED BY <3>1
  <2>4. r \notin S \ {b} /\ p < r /\ p \in (S \ {b}) \cup {Head}
    <3>1. p \in Int BY <1>8, <1>1
    <3>2. QED BY <2>2, <2>3, <1>8, <3>1, <1>4
  <2>5. D.next[p] # Head => r < D.next[p]
    <3>1. SUFFICES ASSUME q # Head PROVE r < q BY <1>2
    <3>2. b < q /\ q \in S BY <3>1, <1>8 DEF Exact, IsList
    <3>3. q # b BY <3>2, <1>1
    <3>4. QED BY <3>2, <3>3, <2>3
  <2>6. /\ IsList(A, R) /\ A.property = L.property
        /\ A.PG_property = S /\ A.nr_free = L.nr_free
    <3>1. A = list_add_between(D, r, p, D.next[p]) BY DEF list_add
    <3> HIDE DEF D, r, p, A
    <3>2. QED BY <3>1, <2>2, <2>4, <2>5, <1>2, <1>3, AddIs
  <2>7. A \in PmType BY <2>6 DEF IsList
  <2> HIDE DEF A
  <2>8. L.property[b] - n \in Nat BY <1>15, <1>4
  <2> DEFINE Q == [L.property EXCEPT ![r] = L.property[b] - n]
  <2>9. Q \in [Pages -> Nat] BY <2>8, <1>3, <2>2
  <2>10. /\ B \in PmType /\ B.next = A.next /\ B.prev = A.prev /\ B.property = Q
         /\ B.PG_property = S \cup {r} /\ B.nr_free = L.nr_free
    BY <2>7, <2>6, <2>9, <2>2, <1>1 DEF PmType
  <2> HIDE DEF B
  <2>11. (S \cup {r}) \ {b} = R BY <2>2
  <2>12. /\ X \in PmType /\ X.next = A.next /\ X.prev = A.prev /\ X.property = Q
         /\ X.PG_property = R /\ X.nr_free = Cardinality(G)
    <3> HIDE DEF G, R, Q
    <3>1. B.PG_property \ {b} \in SUBSET Pages /\ B.nr_free - n \in Int
      BY <1>1, <1>3, <2>2, <2>10
    <3>2. /\ X \in PmType /\ X.next = B.next /\ X.prev = B.prev /\ X.property = B.property
          /\ X.PG_property = B.PG_property \ {b} /\ X.nr_free = B.nr_free - n
      BY <2>10, <3>1 DEF PmType
    <3> HIDE DEF X
    <3>3. QED BY <3>2, <2>10, <2>11, <1>7
  <2> HIDE DEF X
  <2>13. IsList(X, R) BY <2>12, <2>6, SameLinks
  <2>14. Q[r] = L.property[b] - n /\ \A s \in S : s # b => Q[s] = L.property[s]
    BY <1>3, <1>1, <2>2, <2>3
  <2>15. \A s \in R : Q[s] \in Nat /\ Q[s] >= 1 BY <2>14, <1>10, <1>15, <1>4
  <2>16. ASSUME NEW s \in R, NEW x \in Int, s <= x, x < s + Q[s] PROVE x \in G
    <3>1. CASE s = r
      <4>1. b <= x /\ x < b + L.property[b] /\ ~(x < b + n) BY <2>16, <3>1, <2>14, <1>4
      <4>2. QED BY <4>1, <1>12, <1>5
    <3>2. CASE s # r
      <4>1. s \in S /\ s # b /\ Q[s] = L.property[s] BY <3>2, <2>14
      <4>2. x \in F /\ s \in Int /\ L.property[s] \in Nat BY <4>1, <2>16, <1>12, <1>1, <1>10
      <4>3. CASE s < b
        <5>1. s + L.property[s] < b BY <4>3, <4>1, <1>11
        <5>2. x \notin Run(b, n) BY <5>1, <2>16, <4>1, <4>2, <1>4, <1>5
        <5>3. QED BY <4>2, <5>2
      <4>4. CASE b < s
        <5>1. r < s BY <4>1, <4>4, <2>3
        <5>2. x \notin Run(b, n) BY <5>1, <2>16, <4>2, <1>4, <1>5
        <5>3. QED BY <4>2, <5>2
      <4>5. QED BY <4>1, <4>2, <4>3, <4>4, <1>4
    <3>3. QED BY <3>1, <3>2
  <2>17. ASSUME NEW x \in G PROVE \E s \in R : s <= x /\ x < s + Q[s]
    <3>1. x \in Int /\ x \notin Run(b, n) BY <1>9
    <3>2. PICK s \in S : s <= x /\ x < s + L.property[s] BY <1>13
    <3>3. CASE s = b
      <4>1. r <= x /\ x < r + Q[r] BY <3>1, <3>2, <3>3, <1>5, <2>14, <1>4
      <4>2. QED BY <4>1
    <3>4. CASE s # b BY <3>2, <3>4, <2>14
    <3>5. QED BY <3>3, <3>4
  <2>18. ASSUME NEW s \in R, NEW t \in R, s < t PROVE s + Q[s] < t
    <3>1. s \in Int /\ t \in Int BY <1>1, <2>2
    <3>2. CASE s = r
      <4>1. t \in S /\ t # b BY <3>2, <2>18, <3>1
      <4>2. b < t BY <3>2, <2>18, <2>2, <3>1, <1>4
      <4>3. b + L.property[b] < t BY <4>1, <4>2, <1>11
      <4>4. QED BY <4>3, <3>2, <2>14, <1>4
    <3>3. CASE s # r /\ t = r
      <4>1. s \in S /\ s # b BY <3>3
      <4>2. s < b BY <4>1, <3>3, <2>18, <2>3, <3>1, <1>4, <2>2
      <4>3. s + L.property[s] < b BY <4>1, <4>2, <1>11
      <4>4. QED BY <4>1, <4>3, <3>3, <2>14, <2>2, <1>4, <3>1, <1>10
    <3>4. CASE s # r /\ t # r BY <3>4, <2>18, <2>14, <1>11
    <3>5. QED BY <3>2, <3>3, <3>4
  <2> DEFINE Y == Tidy(X)
  <2>19. /\ IsList(Y, R) /\ \A s \in R : Y.property[s] = Q[s]
         /\ Y.PG_property = R /\ Y.nr_free = Cardinality(G)
    <3> HIDE DEF R, G, Q
    <3>1. /\ IsList(Y, R) /\ \A s \in R : Y.property[s] = X.property[s]
          /\ Y.PG_property = X.PG_property /\ Y.nr_free = X.nr_free
      BY <2>13, TidyIs
    <3>2. QED BY <3>1, <2>12
  <2> HIDE DEF Y, G, Q, R
  <2>20. Tiles(Y.property, R, G)
    <3>1. ASSUME NEW s \in R
          PROVE  /\ Y.property[s] >= 1
                 /\ \A x \in Int : s <= x /\ x < s + Y.property[s] => x \in G
      <4>1. Y.property[s] = Q[s] BY <2>19
      <4>2. QED BY <4>1, <2>16, <2>15
    <3>2. ASSUME NEW x \in G PROVE \E s \in R : s <= x /\ x < s + Y.property[s]
      BY <2>17, <2>19
    <3>3. QED BY <3>1, <3>2, <1>9 DEF Tiles
  <2>21. \A s, t \in R : s < t => s + Y.property[s] < t BY <2>19, <2>18
  <2>22. Exact(Y, R, G) BY <2>19, <2>20, <2>21 DEF Exact
  <2>23. QED BY <2>1, <2>22 DEF Y, G
<1>16. QED BY <1>14, <1>15

\* An exact list stays exact when it is tidied.
LEMMA TidyExact ==
  ASSUME NEW L, NEW S, NEW F, Exact(L, S, F)
  PROVE  Exact(Tidy(L), S, F)
<1> DEFINE Y == Tidy(L)
<1>1. IsList(L, S) BY DEF Exact
<1>2. /\ IsList(Y, S) /\ \A s \in S : Y.property[s] = L.property[s]
      /\ Y.PG_property = L.PG_property /\ Y.nr_free = L.nr_free
  BY <1>1, TidyIs
<1> HIDE DEF Y
<1>3. Tiles(Y.property, S, F)
  <2>1. /\ F \subseteq Pages
        /\ \A s \in S : L.property[s] >= 1 /\
             \A q \in Int : s <= q /\ q < s + L.property[s] => q \in F
        /\ \A q \in F : \E s \in S : s <= q /\ q < s + L.property[s]
    BY DEF Exact, Tiles
  <2>2. QED BY <2>1, <1>2 DEF Tiles
<1>4. \A s, t \in S : s < t => s + Y.property[s] < t BY <1>2 DEF Exact
<1>5. Exact(Y, S, F) BY <1>2, <1>3, <1>4 DEF Exact
<1>6. QED BY <1>5 DEF Y

\* A free list that is exact but for the block x, which may border on the
\* block behind it.
Loose(L, S, F, x) ==
  /\ IsList(L, S)
  /\ Tiles(L.property, S, F)
  /\ \A s, t \in S : s < t => s + L.property[s] <= t /\ (s # x => s + L.property[s] < t)
  /\ L.PG_property = S
  /\ L.nr_free = Cardinality(F)

\* Two neighbours in memory become one block.
LEMMA MergeIs ==
  ASSUME NEW L, NEW S, NEW F, IsList(L, S), Tiles(L.property, S, F), L.PG_property = S,
         NEW b \in S, NEW p \in S, L.next[b] = p, b + L.property[b] = p
  PROVE  LET M == merge(L, b, p)
         IN  /\ IsList(M, S \ {p}) /\ Tiles(M.property, S \ {p}, F)
             /\ M.property[b] = L.property[b] + L.property[p]
             /\ \A s \in S \ {b, p} : M.property[s] = L.property[s]
             /\ M.next[b] = L.next[p]
             /\ M.PG_property = S \ {p} /\ M.nr_free = L.nr_free
<1> DEFINE Q == [L.property EXCEPT ![b] = L.property[b] + L.property[p]]
           K == [L EXCEPT !.property = Q]
           D == list_del(K, p)
           M == merge(L, b, p)
           R == S \ {p}
<1>5. M = [D EXCEPT !.PG_property = @ \ {p}] BY Zenon DEF merge
<1>1. /\ L \in PmType /\ S \subseteq Pages /\ S \subseteq Int
      /\ L.next \in [Entries -> Entries] /\ L.prev \in [Entries -> Entries] /\ Head \notin S
  BY ListType
<1>2. L.property \in [Pages -> Nat] /\ b \in Pages /\ p \in Pages /\ b \in Int /\ p \in Int
  BY <1>1 DEF PmType
<1>3. /\ Q \in [Pages -> Nat]
      /\ Q[b] = L.property[b] + L.property[p]
      /\ \A s \in Pages : s # b => Q[s] = L.property[s]
  BY <1>2
<1> HIDE DEF Q
<1>4. /\ K \in PmType /\ K.next = L.next /\ K.prev = L.prev /\ K.property = Q
      /\ K.PG_property = S /\ K.nr_free = L.nr_free
  BY <1>1, <1>3 DEF PmType
<1> HIDE DEF K, M
<1>6. IsList(K, S) BY <1>4, SameLinks
<1>7. /\ IsList(D, R) /\ D.next[K.prev[p]] = K.next[p] /\ D.property = Q
      /\ D.PG_property = S /\ D.nr_free = L.nr_free
  BY <1>4, <1>6, DelIs
<1>8. K.prev[p] = b BY <1>4 DEF IsList
<1> HIDE DEF D
<1>9. /\ M \in PmType /\ M.next = D.next /\ M.prev = D.prev /\ M.property = Q
      /\ M.PG_property = R /\ M.nr_free = L.nr_free
  <2>1. D \in PmType BY <1>7 DEF IsList
  <2>2. D.PG_property \ {p} \in SUBSET Pages BY <1>1, <1>7
  <2>3. /\ M \in PmType /\ M.next = D.next /\ M.prev = D.prev /\ M.property = D.property
        /\ M.PG_property = D.PG_property \ {p} /\ M.nr_free = D.nr_free
    BY <2>1, <2>2, <1>5 DEF PmType
  <2>4. QED BY <2>3, <1>7
<1>10. IsList(M, R) BY <1>7, <1>9, SameLinks
<1>11. M.next[b] = L.next[p] BY <1>7, <1>8, <1>9, <1>4
<1>12. b # p /\ b < p
  <2>1. L.next[b] # Head BY <1>1
  <2>2. QED BY <2>1, <1>2 DEF IsList
<1>13. /\ F \subseteq Pages
       /\ \A s \in S : L.property[s] >= 1 /\
            \A q \in Int : s <= q /\ q < s + L.property[s] => q \in F
       /\ \A q \in F : \E s \in S : s <= q /\ q < s + L.property[s]
  BY DEF Tiles
<1>14. Tiles(Q, R, F)
  <2>0. L.property[b] \in Nat /\ L.property[p] \in Nat BY <1>2
  <2>1. ASSUME NEW s \in R
        PROVE  Q[s] >= 1 /\ \A q \in Int : s <= q /\ q < s + Q[s] => q \in F
    <3>1. CASE s = b
      <4>1. Q[s] >= 1 BY <3>1, <1>3, <2>0, <1>13
      <4>2. ASSUME NEW q \in Int, s <= q, q < s + Q[s] PROVE q \in F
        <5>1. CASE q < p BY <5>1, <4>2, <3>1, <1>13
        <5>2. CASE ~(q < p)
          <6>1. p <= q /\ q < p + L.property[p] BY <5>2, <4>2, <3>1, <1>3, <1>2, <2>0
          <6>2. QED BY <6>1, <1>13
        <5>3. QED BY <5>1, <5>2
      <4>3. QED BY <4>1, <4>2
    <3>2. CASE s # b
      <4>1. Q[s] = L.property[s] BY <3>2, <1>3, <1>1
      <4>2. QED BY <4>1, <1>13
    <3>3. QED BY <3>1, <3>2
  <2>2. ASSUME NEW q \in F PROVE \E s \in R : s <= q /\ q < s + Q[s]
    <3>1. PICK s \in S : s <= q /\ q < s + L.property[s] BY <1>13
    <3>2. q \in Int /\ s \in Int BY <1>1, <1>13, <1>2 DEF Pages
    <3>3. CASE s = p
      <4>1. b <= q BY <3>3, <3>1, <1>12, <1>2, <3>2
      <4>2. q < b + Q[b] BY <3>1, <3>3, <1>3, <1>2, <3>2, <2>0
      <4>3. QED BY <4>1, <4>2, <1>12
    <3>4. CASE s = b
      <4>1. q < b + Q[b] BY <3>1, <3>4, <1>3, <1>2, <3>2, <2>0
      <4>2. QED BY <4>1, <3>1, <3>4, <1>12
    <3>5. CASE s # p /\ s # b
      <4>1. Q[s] = L.property[s] BY <3>5, <1>3, <1>1
      <4>2. QED BY <4>1, <3>1, <3>5
    <3>6. QED BY <3>3, <3>4, <3>5
  <2>3. QED BY <2>1, <2>2, <1>13 DEF Tiles
<1>15. QED BY <1>3, <1>1, <1>9, <1>10, <1>11, <1>14 DEF M

\* merge_next makes a loose list exact.
LEMMA MergeNextIs ==
  ASSUME NEW L, NEW S, NEW F, NEW x \in S, Loose(L, S, F, x)
  PROVE  \E R : Exact(merge_next(L, x), R, F)
<1> DEFINE p == L.next[x]
           M == merge(L, x, p)
<1>1. IsList(L, S) /\ Tiles(L.property, S, F) /\ L.PG_property = S
      /\ L.nr_free = Cardinality(F)
  BY DEF Loose
<1>2. \A s, t \in S : s < t => s + L.property[s] <= t /\ (s # x => s + L.property[s] < t)
  BY DEF Loose
<1>3. S \subseteq Int /\ S \subseteq Pages /\ L.property \in [Pages -> Nat]
  BY <1>1, ListType DEF PmType
<1>4. \A s \in S : s \in Int /\ L.property[s] \in Nat BY <1>3
<1>5. p \in S \cup {Head} /\ \A t \in S : x < t => p # Head /\ p <= t BY <1>1 DEF IsList
<1>6. CASE p # Head /\ x + L.property[x] = p
  <2>1. merge_next(L, x) = M BY <1>6 DEF merge_next
  <2>2. p \in S BY <1>5, <1>6
  <2>3. /\ IsList(M, S \ {p}) /\ Tiles(M.property, S \ {p}, F)
        /\ M.property[x] = L.property[x] + L.property[p]
        /\ \A s \in S \ {x, p} : M.property[s] = L.property[s]
        /\ M.PG_property = S \ {p} /\ M.nr_free = L.nr_free
    <3> HIDE DEF p
    <3>1. QED BY <2>2, <1>1, <1>6, MergeIs DEF p
  <2> HIDE DEF M
  <2>4. x < p /\ x # p
    <3>1. x < p BY <1>1, <1>6 DEF IsList
    <3>2. QED BY <3>1, <1>4, <2>2
  <2>5. ASSUME NEW s \in S \ {p}, NEW t \in S \ {p}, s < t PROVE s + M.property[s] < t
    <3>1. CASE s = x
      <4>1. p < t BY <1>5, <2>5, <3>1, <1>4, <2>2
      <4>2. p + L.property[p] < t BY <4>1, <2>2, <2>4, <1>2
      <4>3. s + M.property[s] = p + L.property[p] BY <3>1, <2>3, <1>6, <1>4, <2>2
      <4>4. QED BY <4>2, <4>3
    <3>2. CASE s # x BY <3>2, <2>3, <2>5, <1>2
    <3>3. QED BY <3>1, <3>2
  <2>6. Exact(M, S \ {p}, F) BY <2>3, <2>5, <1>1 DEF Exact
  <2>7. QED BY <2>1, <2>6
<1>7. CASE ~(p # Head /\ x + L.property[x] = p)
  <2>1. merge_next(L, x) = L BY <1>7 DEF merge_next
  <2>2. ASSUME NEW s \in S, NEW t \in S, s < t PROVE s + L.property[s] < t
    <3>1. CASE s = x
      <4>1. p \in S /\ x + L.property[x] # p /\ p <= t BY <1>5, <1>7, <2>2, <3>1
      <4>2. x < p
        <5>1. p # Head BY <1>5, <2>2, <3>1
        <5>2. QED BY <5>1, <1>1 DEF IsList
      <4>3. x + L.property[x] <= p BY <4>1, <4>2, <1>2
      <4>4. QED BY <4>1, <4>3, <3>1, <1>4
    <3>2. CASE s # x BY <3>2, <2>2, <1>2
    <3>3. QED BY <3>1, <3>2
  <2>3. Exact(L, S, F) BY <1>1, <2>2 DEF Exact
  <2>4. QED BY <2>1, <2>3
<1>8. QED BY <1>6, <1>7

\* Where there is a higher block, link puts base in front of the next one.
LEMMA LinkIs ==
  ASSUME NEW L, NEW S, IsList(L, S), NEW base \in Pages, base \notin S,
         \E s \in S : base < s
  PROVE  LET D == link(L, base)
         IN  /\ IsList(D, S \cup {base})
             /\ D.prev[base] \in S \cup {Head} /\ D.prev[base] < base
             /\ \A s \in S : s < base => s <= D.prev[base]
             /\ D.next[D.prev[base]] = base
             /\ D.property = L.property
             /\ D.PG_property = L.PG_property
             /\ D.nr_free = L.nr_free
<1> DEFINE D == link(L, base)
           m == ListLength(L)
           at == Along(L)
           higher == {k \in 1 .. m : base < at[k]}
           h == at[Least(higher)]
           p == L.prev[h]
<1>1. /\ S \subseteq Int /\ Head \in Int /\ base \in Int /\ base # Head /\ Head < base
      /\ \A s \in S : Head < s
  BY ListType
<1>2. /\ m \in 0 .. NP
      /\ \A k \in 1 .. m : at[k] \in S
      /\ \A s \in S : \E k \in 1 .. m : at[k] = s
      /\ \A j, k \in 1 .. m : j < k => at[j] < at[k]
  BY WalkIs
<1> HIDE DEF m, at
<1>3. higher # {} /\ higher \in SUBSET Nat
  <2>1. PICK s \in S : base < s OBVIOUS
  <2>2. PICK k \in 1 .. m : at[k] = s BY <1>2
  <2>3. k \in higher BY <2>1, <2>2
  <2>4. QED BY <2>3, <1>2
<1>4. Least(higher) \in higher /\ \A k \in higher : Least(higher) <= k
  <2> HIDE DEF higher
  <2>1. QED BY <1>3, NatLeast
<1>5. h \in S /\ base < h /\ \A s \in S : base < s => h <= s
  <2>1. h \in S /\ base < h BY <1>4, <1>2
  <2>2. ASSUME NEW s \in S, base < s PROVE h <= s
    <3>1. PICK k \in 1 .. m : at[k] = s BY <1>2
    <3>2. k \in higher BY <2>2, <3>1
    <3>3. Least(higher) <= k /\ Least(higher) \in 1 .. m BY <3>2, <1>4
    <3>4. CASE Least(higher) = k BY <3>4, <3>1, <1>1
    <3>5. CASE Least(higher) < k
      <4>1. h < s BY <3>1, <3>3, <3>5, <1>2
      <4>2. h \in Int /\ s \in Int BY <2>1, <1>1
      <4>3. QED BY <4>1, <4>2
    <3>6. QED BY <3>3, <3>4, <3>5
  <2>3. QED BY <2>1, <2>2
<1>6. L.next[Head] # Head
  <2>1. Head < h BY <1>5, <1>1
  <2>2. QED BY <2>1, <1>5 DEF IsList
<1>7. D = list_add_before(L, h, base)
  BY <1>3, <1>6 DEF link, m, at
<1> HIDE DEF h, D, higher
<1>8. p \in S \cup {Head} /\ L.next[p] = h BY <1>5 DEF IsList
<1>9. p \in Int /\ p # base /\ h \in Int BY <1>8, <1>1, <1>5
<1>10. p < base
  <2>1. SUFFICES ASSUME base < p PROVE FALSE BY <1>9, <1>1
  <2>2. p # Head BY <2>1, <1>1
  <2>3. h <= p BY <2>1, <2>2, <1>8, <1>5
  <2>4. L.next[p] # Head BY <1>8, <1>5, <1>1
  <2>5. p < h BY <2>4, <1>8 DEF IsList
  <2>6. QED BY <2>3, <2>5, <1>9
<1>11. ASSUME NEW s \in S, s < base PROVE s <= p
  <2>1. SUFFICES ASSUME p < s PROVE FALSE BY <1>9, <1>1
  <2>2. h <= s BY <2>1, <1>8 DEF IsList
  <2>3. QED BY <2>2, <1>11, <1>5, <1>9, <1>1
<1>12. D = list_add_between(L, base, p, L.next[p])
  BY <1>7, <1>8 DEF list_add_before
<1> HIDE DEF p
<1>13. /\ IsList(D, S \cup {base})
       /\ D.next[p] = base /\ D.prev[base] = p
       /\ D.property = L.property
       /\ D.PG_property = L.PG_property
       /\ D.nr_free = L.nr_free
  <2>1. L.next[p] # Head => base < L.next[p] BY <1>8, <1>5
  <2> DEFINE E == list_add_between(L, base, p, L.next[p])
  <2>2. /\ IsList(E, S \cup {base})
        /\ E.next[p] = base /\ E.prev[base] = p
        /\ E.property = L.property
        /\ E.PG_property = L.PG_property
        /\ E.nr_free = L.nr_free
    BY <2>1, <1>8, <1>10, AddIs
  <2>3. QED BY <2>2, <1>12
<1>14. QED BY <1>8, <1>10, <1>11, <1>13 DEF D

\* release: n pages become free again.  The block goes where it belongs since
\* there is a higher one.
LEMMA ReleaseIs ==
  ASSUME NEW L, NEW S, NEW F, Exact(L, S, F), NEW base \in Pages, NEW n \in Nat, n >= 1,
         Run(base, n) \subseteq Pages \ F, \E s \in S : base < s
  PROVE  \E R : Exact(release(L, base, n), R, F \cup Run(base, n))
<1> DEFINE Q == [L.property EXCEPT ![base] = n]
           K == [L EXCEPT !.property = [@ EXCEPT ![base] = n],
                          !.PG_property = @ \cup {base},
                          !.nr_free = @ + n]
           A == link(K, base)
           p == A.prev[base]
           G == F \cup Run(base, n)
           T == S \cup {base}
<1>1. /\ L \in PmType /\ S \subseteq Pages /\ S \subseteq Int
      /\ Head \in Int /\ Head \notin S /\ base # Head
      /\ \A y \in Pages : y \in Int
  BY ListType DEF Exact
<1>2. L.property \in [Pages -> Nat] /\ L.nr_free \in Int /\ L.PG_property = S
  BY <1>1 DEF PmType, Exact
<1>3. base \in Int BY <1>1
<1>4. \A x \in Int : x \in Run(base, n) <=> base <= x /\ x < base + n BY <1>3, RunIs
<1>5. \A s \in S : s \in Int /\ L.property[s] \in Nat /\ L.property[s] >= 1
  BY <1>1, <1>2 DEF Exact, Tiles
<1>6. \A s, t \in S : s < t => s + L.property[s] < t BY DEF Exact
<1>7. \A s \in S : \A x \in Int : s <= x /\ x < s + L.property[s] => x \in F
  BY DEF Exact, Tiles
<1>8. \A x \in F : \E s \in S : s <= x /\ x < s + L.property[s]
  BY DEF Exact, Tiles
<1>9. F \subseteq Pages /\ G \subseteq Pages /\ F \subseteq Int BY <1>1 DEF Exact, Tiles
<1>10. \A x \in Int : base <= x /\ x < base + n => x \notin F BY <1>4
<1>11. base \notin F /\ base \notin S
  <2>1. base \notin F BY <1>3, <1>10
  <2>2. \A s \in S : s \in F BY <1>5, <1>7
  <2>3. QED BY <2>1, <2>2
<1>12. \A s \in S : s < base => s + L.property[s] <= base
  <2>1. ASSUME NEW s \in S, s < base, s + L.property[s] > base PROVE FALSE
    BY <2>1, <1>3, <1>5, <1>7, <1>11
  <2>2. QED BY <2>1, <1>3, <1>5
<1>13. \A s \in S : base < s => base + n <= s
  <2>1. ASSUME NEW s \in S, base < s, base + n > s PROVE FALSE
    <3>1. s \in F BY <1>5, <1>7
    <3>2. QED BY <3>1, <2>1, <1>5, <1>3, <1>10
  <2>2. QED BY <2>1, <1>3, <1>5
<1>14. L.nr_free + n = Cardinality(G)
  <2>1. IsFiniteSet(F) /\ Cardinality(F) \in Nat BY <1>9, PagesFinite
  <2>2. IsFiniteSet(Run(base, n)) /\ Cardinality(Run(base, n)) = n BY RunIs, <1>3
  <2>3. F \cap Run(base, n) = {} OBVIOUS
  <2>4. Cardinality(G) = Cardinality(F) + n - Cardinality(F \cap Run(base, n))
    BY <2>1, <2>2, FS_Union
  <2>5. Cardinality(F \cap Run(base, n)) = 0 BY <2>3, FS_EmptySet
  <2>6. QED BY <2>1, <2>4, <2>5 DEF Exact
<1>15. Q \in [Pages -> Nat] /\ Q[base] = n /\ \A s \in S : Q[s] = L.property[s]
  BY <1>1, <1>2, <1>11
<1>16. /\ K \in PmType /\ K.next = L.next /\ K.prev = L.prev /\ K.property = Q
       /\ K.PG_property = T /\ K.nr_free = Cardinality(G)
  <2> HIDE DEF G
  <2>1. L.PG_property \cup {base} \in SUBSET Pages /\ L.nr_free + n \in Int BY <1>1, <1>2
  <2>2. K = [L EXCEPT !.property = Q, !.PG_property = @ \cup {base}, !.nr_free = @ + n]
    BY Zenon DEF K, Q
  <2> HIDE DEF K, Q
  <2>3. /\ K \in PmType /\ K.next = L.next /\ K.prev = L.prev /\ K.property = Q
        /\ K.PG_property = L.PG_property \cup {base} /\ K.nr_free = L.nr_free + n
    BY <2>1, <2>2, <1>1, <1>15 DEF PmType
  <2>4. QED BY <2>3, <1>2, <1>14
<1>17. IsList(K, S)
  <2>1. IsList(L, S) BY DEF Exact
  <2> HIDE DEF K
  <2>2. QED BY <2>1, <1>16, SameLinks
<1>18. release(L, base, n) = Tidy(IF p # Head /\ p + A.property[p] = base
                                  THEN merge_next(merge(A, p, base), p)
                                  ELSE merge_next(A, base))
  BY DEF release
<1> HIDE DEF K
<1>19. /\ IsList(A, T) /\ p \in S \cup {Head} /\ p < base
       /\ \A s \in S : s < base => s <= p
       /\ A.next[p] = base /\ A.property = Q
       /\ A.PG_property = T /\ A.nr_free = Cardinality(G)
  <2> HIDE DEF Q, G
  <2>1. QED BY <1>11, <1>16, <1>17, LinkIs
<1> HIDE DEF A, Q
<1>20. Tiles(Q, T, G)
  <2>1. ASSUME NEW s \in T
        PROVE  Q[s] >= 1 /\ \A x \in Int : s <= x /\ x < s + Q[s] => x \in G
    <3>1. CASE s = base BY <3>1, <1>15, <1>4
    <3>2. CASE s # base
      <4>1. s \in S /\ Q[s] = L.property[s] BY <3>2, <1>15
      <4>2. QED BY <4>1, <1>5, <1>7
    <3>3. QED BY <3>1, <3>2
  <2>2. ASSUME NEW x \in G PROVE \E s \in T : s <= x /\ x < s + Q[s]
    <3>1. CASE x \in F
      <4>1. PICK s \in S : s <= x /\ x < s + L.property[s] BY <3>1, <1>8
      <4>2. QED BY <4>1, <1>15
    <3>2. CASE x \in Run(base, n)
      <4>1. x \in Int BY <1>9, <1>1
      <4>2. base <= x /\ x < base + Q[base] BY <3>2, <4>1, <1>4, <1>15
      <4>3. QED BY <4>2
    <3>3. QED BY <3>1, <3>2
  <2> HIDE DEF G
  <2>3. QED BY <2>1, <2>2, <1>9 DEF Tiles
<1>21. \A s, t \in T : s < t => s + Q[s] <= t /\ (s # base /\ t # base => s + Q[s] < t)
  <2>1. ASSUME NEW s \in T, NEW t \in T, s < t
        PROVE  s + Q[s] <= t /\ (s # base /\ t # base => s + Q[s] < t)
    <3>0. s \in Int /\ t \in Int BY <1>3, <1>5
    <3>1. CASE s = base
      <4>1. t \in S BY <2>1, <3>1, <3>0
      <4>2. QED BY <4>1, <3>1, <2>1, <1>13, <1>15
    <3>2. CASE s # base /\ t = base
      <4>1. s \in S BY <3>2
      <4>2. QED BY <4>1, <3>2, <2>1, <1>12, <1>15
    <3>3. CASE s # base /\ t # base
      <4>1. s \in S /\ t \in S BY <3>3
      <4>2. s + Q[s] < t BY <4>1, <2>1, <1>6, <1>15
      <4>3. Q[s] \in Nat BY <4>1, <1>5, <1>15
      <4>4. QED BY <4>2, <4>3, <3>0
    <3>4. QED BY <3>1, <3>2, <3>3
  <2>2. QED BY <2>1
<1>22. CASE p # Head /\ p + A.property[p] = base
  <2> DEFINE M == merge(A, p, base)
  <2>1. p \in S /\ p \in T /\ base \in T BY <1>22, <1>19
  <2>2. /\ IsList(M, T \ {base}) /\ Tiles(M.property, T \ {base}, G)
        /\ M.property[p] = A.property[p] + A.property[base]
        /\ \A s \in T \ {p, base} : M.property[s] = A.property[s]
        /\ M.PG_property = T \ {base} /\ M.nr_free = A.nr_free
    <3> HIDE DEF p, T, G
    <3>1. QED BY <2>1, <1>19, <1>20, <1>22, MergeIs
  <2>3. T \ {base} = S BY <1>11
  <2> HIDE DEF M
  <2>4. ASSUME NEW s \in S, NEW t \in S, s < t
        PROVE  s + M.property[s] <= t /\ (s # p => s + M.property[s] < t)
    <3>0. /\ s \in Int /\ t \in Int /\ s \in T /\ t \in T /\ s # base /\ t # base
          /\ p \in Int /\ Q[s] \in Nat
      BY <1>5, <1>11, <2>1, <1>15
    <3>1. CASE s = p
      <4>1. base < t
        <5>1. ~(t < base) BY <1>19, <2>4, <3>0, <3>1
        <5>2. QED BY <5>1, <3>0, <1>3
      <4>2. base + n <= t BY <4>1, <1>13
      <4>3. s + M.property[s] = base + n
        <5>1. M.property[s] = Q[p] + n /\ p + Q[p] = base
          BY <3>1, <2>2, <1>22, <1>19, <1>15
        <5>2. QED BY <5>1, <3>1, <3>0
      <4>4. QED BY <4>2, <4>3, <3>1
    <3>2. CASE s # p
      <4>1. M.property[s] = Q[s] BY <3>2, <3>0, <2>2, <1>19
      <4>2. s + Q[s] < t BY <1>21, <3>0, <2>4
      <4>3. QED BY <4>1, <4>2, <3>2, <3>0
    <3>3. QED BY <3>1, <3>2
  <2>5. Loose(M, S, G, p)
    <3> HIDE DEF G
    <3>1. QED BY <2>2, <2>3, <2>4, <1>19 DEF Loose
  <2>6. PICK R : Exact(merge_next(M, p), R, G) BY <2>1, <2>5, MergeNextIs
  <2>7. Exact(Tidy(merge_next(M, p)), R, G) BY <2>6, TidyExact
  <2>8. release(L, base, n) = Tidy(merge_next(M, p)) BY <1>18, <1>22 DEF M
  <2>9. QED BY <2>7, <2>8
<1>23. CASE ~(p # Head /\ p + A.property[p] = base)
  <2>1. ASSUME NEW s \in T, NEW t \in T, s < t
        PROVE  s + A.property[s] <= t /\ (s # base => s + A.property[s] < t)
    <3>0. s \in Int /\ t \in Int BY <1>3, <1>5
    <3>1. s + Q[s] <= t /\ (s # base /\ t # base => s + Q[s] < t) BY <2>1, <1>21
    <3>2. CASE s # base /\ t = base
      <4>1. s \in S /\ s <= p BY <3>2, <2>1, <1>19
      <4>2. p # Head /\ p \in S
        <5>1. CASE p = Head
          <6>1. Head < s BY <4>1, ListType DEF Exact
          <6>2. QED BY <6>1, <5>1, <4>1, <1>1, <3>0
        <5>2. QED BY <5>1, <1>19
      <4>3. p \in Int /\ Q[p] \in Nat /\ Q[s] \in Nat BY <4>1, <4>2, <1>5, <1>15
      <4>4. p + Q[p] <= base BY <4>2, <1>19, <1>21
      <4>5. p + Q[p] # base BY <4>2, <1>23, <1>19
      <4>6. CASE s = p BY <4>6, <4>3, <4>4, <4>5, <3>2, <1>3, <1>19
      <4>7. CASE s # p
        <5>1. s < p BY <4>7, <4>1, <4>3, <3>0
        <5>2. s + Q[s] < p BY <5>1, <4>1, <4>2, <1>6, <1>15
        <5>3. QED BY <5>2, <4>3, <1>19, <3>2, <3>0, <1>3
      <4>8. QED BY <4>6, <4>7
    <3>3. QED BY <3>1, <3>2, <1>19
  <2>2. Loose(A, T, G, base)
    <3> HIDE DEF G, T
    <3>1. QED BY <2>1, <1>19, <1>20 DEF Loose
  <2>3. PICK R : Exact(merge_next(A, base), R, G)
    <3>1. base \in T OBVIOUS
    <3>2. QED BY <2>2, <3>1, MergeNextIs
  <2>4. Exact(Tidy(merge_next(A, base)), R, G) BY <2>3, TidyExact
  <2>5. release(L, base, n) = Tidy(merge_next(A, base)) BY <1>18, <1>23
  <2>6. QED BY <2>4, <2>5
<1>24. QED BY <1>22, <1>23

-----------------------------------------------------------------------------
(* The block a request is served from.                                     *)

\* The two managers.
Managers == {"default", "best_fit"}

\* BlockFor finds the first block that is long enough, or the first of the
\* shortest of those.
LEMMA BlockForIs ==
  ASSUME NEW L, NEW S, NEW F, Exact(L, S, F), NEW n \in Nat, BlockFor(L, n) # Head
  PROVE  /\ BlockFor(L, n) \in S
         /\ L.property[BlockFor(L, n)] >= n
         /\ manager = "default" =>
              \A s \in S : L.property[s] >= n => BlockFor(L, n) <= s
         /\ manager # "default" =>
              \A s \in S : L.property[s] >= n =>
                \/ L.property[BlockFor(L, n)] < L.property[s]
                \/ L.property[BlockFor(L, n)] = L.property[s] /\ BlockFor(L, n) <= s
<1> DEFINE m == ListLength(L)
           at == Along(L)
           long == {k \in 1 .. m : L.property[at[k]] >= n}
           best == {k \in long : \A j \in long : L.property[at[k]] <= L.property[at[j]]}
           b == BlockFor(L, n)
<1>1. /\ m \in 0 .. NP
      /\ \A k \in 1 .. m : at[k] \in S
      /\ \A s \in S : \E k \in 1 .. m : at[k] = s
      /\ \A j, k \in 1 .. m : j < k => at[j] < at[k]
  BY WalkIs DEF Exact
<1>2. S \subseteq Pages /\ S \subseteq Int /\ L.property \in [Pages -> Nat]
  BY ListType DEF Exact, PmType
<1>3. long # {} /\ b = at[Least(IF manager = "default" THEN long ELSE best)]
  BY DEF BlockFor
<1> HIDE DEF m, at, b
<1>4. long \in SUBSET Nat /\ best \in SUBSET Nat BY <1>1
<1>5. \A k \in 1 .. m : L.property[at[k]] \in Nat /\ at[k] \in Int BY <1>1, <1>2
<1>6. \A j, k \in 1 .. m : j <= k => at[j] <= at[k]
  <2>1. ASSUME NEW j \in 1 .. m, NEW k \in 1 .. m, j <= k PROVE at[j] <= at[k]
    <3>1. CASE j = k BY <3>1, <1>5
    <3>2. CASE j < k BY <3>2, <1>5, <1>1
    <3>3. QED BY <3>1, <3>2, <2>1
  <2>2. QED BY <2>1
<1>7. CASE manager = "default"
  <2>1. b = at[Least(long)] BY <1>3, <1>7
  <2>2. Least(long) \in long /\ \A k \in long : Least(long) <= k
    <3> HIDE DEF long
    <3>1. QED BY <1>3, <1>4, NatLeast
  <2>3. b \in S /\ L.property[b] >= n BY <2>1, <2>2, <1>1
  <2>4. ASSUME NEW s \in S, L.property[s] >= n PROVE b <= s
    <3>1. PICK j \in 1 .. m : at[j] = s BY <1>1
    <3>2. j \in long BY <3>1, <2>4
    <3>3. QED BY <3>1, <3>2, <2>1, <2>2, <1>6
  <2>5. QED BY <1>7, <2>3, <2>4 DEF b
<1>8. CASE manager # "default"
  <2>1. b = at[Least(best)] BY <1>3, <1>8
  <2>2. best # {}
    <3> DEFINE V == {L.property[at[k]] : k \in long}
    <3>1. V \in SUBSET Nat /\ V # {} BY <1>3, <1>5
    <3>2. Least(V) \in V /\ \A v \in V : Least(V) <= v
      <4> HIDE DEF V
      <4>1. QED BY <3>1, NatLeast
    <3>3. PICK k \in long : L.property[at[k]] = Least(V) BY <3>2
    <3>4. \A j \in long : L.property[at[k]] <= L.property[at[j]] BY <3>2, <3>3
    <3>5. QED BY <3>4
  <2>3. Least(best) \in best /\ \A k \in best : Least(best) <= k
    <3> HIDE DEF best
    <3>1. QED BY <2>2, <1>4, NatLeast
  <2>4. b \in S /\ L.property[b] >= n BY <2>1, <2>3, <1>1
  <2>5. ASSUME NEW s \in S, L.property[s] >= n
        PROVE  L.property[b] < L.property[s] \/ (L.property[b] = L.property[s] /\ b <= s)
    <3>1. PICK j \in 1 .. m : at[j] = s BY <1>1
    <3>2. j \in long BY <3>1, <2>5
    <3>3. L.property[b] <= L.property[s] BY <3>1, <3>2, <2>1, <2>3
    <3>4. L.property[b] \in Nat /\ L.property[s] \in Nat BY <2>4, <1>2
    <3>5. CASE L.property[b] = L.property[s]
      <4>1. \A k \in long : L.property[s] <= L.property[at[k]] BY <3>5, <2>1, <2>3
      <4>2. j \in best BY <4>1, <3>1, <3>2
      <4>3. Least(best) <= j /\ Least(best) \in 1 .. m BY <4>2, <2>3
      <4>4. b <= s BY <4>3, <3>1, <2>1, <1>6
      <4>5. QED BY <4>4, <3>5
    <3>6. QED BY <3>3, <3>4, <3>5
  <2>6. QED BY <1>8, <2>4, <2>5 DEF b
<1>9. QED BY <1>7, <1>8

\* The blocks of an exact list are the longest runs of free pages.
LEMMA RunsAre ==
  ASSUME NEW L, NEW S, NEW F, Exact(L, S, F)
  PROVE  /\ Abstract!Starts(F) = S
         /\ \A s \in S : Abstract!LengthOf(F, s) = L.property[s]
<1> DEFINE size == L.property
<1>1. S \subseteq Pages /\ S \subseteq Int /\ size \in [Pages -> Nat]
  BY ListType DEF Exact, PmType
<1>2. \A s \in S : s \in Int /\ size[s] \in Nat /\ size[s] >= 1 BY <1>1 DEF Exact, Tiles
<1>3. \A s \in S : \A x \in Int : s <= x /\ x < s + size[s] => x \in F BY DEF Exact, Tiles
<1>4. \A x \in F : \E s \in S : s <= x /\ x < s + size[s] BY DEF Exact, Tiles
<1>5. \A s, t \in S : s < t => s + size[s] < t BY DEF Exact
<1>6. F \subseteq Pages /\ F \subseteq Int /\ NP \in Nat /\ \A x \in F : 0 <= x /\ x < NP
  <2>1. NP \in Nat BY PagesAssumption
  <2>2. F \subseteq Pages BY DEF Exact, Tiles
  <2>3. \A x \in Pages : x \in Int /\ 0 <= x /\ x < NP BY <2>1 DEF Pages
  <2>4. QED BY <2>1, <2>2, <2>3
<1> HIDE DEF size
<1>7. Abstract!Starts(F) = {b \in F : b - 1 \notin F} BY DEF Abstract!Starts
<1>8. ASSUME NEW s \in S PROVE s \in F /\ s - 1 \notin F
  <2>1. s \in F BY <1>2, <1>3
  <2>2. SUFFICES ASSUME s - 1 \in F PROVE FALSE BY <2>1
  <2>3. PICK t \in S : t <= s - 1 /\ s - 1 < t + size[t] BY <2>2, <1>4
  <2>4. t < s BY <2>3, <1>2
  <2>5. t + size[t] < s BY <2>4, <1>5
  <2>6. QED BY <2>3, <2>5, <1>2
<1>9. ASSUME NEW b \in F, b - 1 \notin F PROVE b \in S
  <2>1. PICK t \in S : t <= b /\ b < t + size[t] BY <1>4
  <2>2. b \in Int /\ t \in Int /\ size[t] \in Nat BY <1>6, <1>2
  <2>3. ~(t <= b - 1) BY <2>1, <2>2, <1>3, <1>9
  <2>4. QED BY <2>1, <2>2, <2>3
<1>10. ASSUME NEW s \in S PROVE Abstract!LengthOf(F, s) = size[s]
  <2> DEFINE P(n) == Abstract!Run(s, n) \subseteq F /\ s + n \notin F
  <2>1. Abstract!LengthOf(F, s) = CHOOSE n \in 1 .. NP : P(n) BY DEF Abstract!LengthOf
  <2>2. s \in Int /\ size[s] \in Nat /\ size[s] >= 1 BY <1>2
  <2>3. \A n \in Nat : \A x \in Int : x \in Abstract!Run(s, n) <=> s <= x /\ x < s + n
    BY <2>2 DEF Abstract!Run
  <2>4. \A n \in Nat : Abstract!Run(s, n) \subseteq Int BY <2>2 DEF Abstract!Run
  <2>5. s + size[s] \notin F
    <3>1. SUFFICES ASSUME s + size[s] \in F PROVE FALSE OBVIOUS
    <3>2. PICK t \in S : t <= s + size[s] /\ s + size[s] < t + size[t] BY <3>1, <1>4
    <3>3. t \in Int /\ size[t] \in Nat BY <1>2
    <3>4. CASE t = s BY <3>4, <3>2, <2>2
    <3>5. CASE t < s
      <4>1. t + size[t] < s BY <3>5, <1>5
      <4>2. QED BY <4>1, <3>2, <3>3, <2>2
    <3>6. CASE s < t
      <4>1. s + size[s] < t BY <3>6, <1>5
      <4>2. QED BY <4>1, <3>2, <3>3, <2>2
    <3>7. QED BY <3>3, <3>4, <3>5, <3>6, <2>2
  <2>6. P(size[s]) BY <2>2, <2>3, <2>4, <2>5, <1>3
  <2>7. size[s] \in 1 .. NP
    <3>1. s + size[s] - 1 \in F BY <2>2, <1>3
    <3>2. s \in F BY <1>8
    <3>3. s + size[s] - 1 < NP /\ 0 <= s BY <3>1, <3>2, <1>6
    <3>4. QED BY <3>3, <2>2, <1>6
  <2>8. ASSUME NEW n \in 1 .. NP, P(n) PROVE n = size[s]
    <3>0. n \in Nat /\ n >= 1 BY <1>6
    <3>1. ~(n < size[s]) BY <2>8, <2>2, <1>3, <3>0
    <3>2. ~(size[s] < n)
      <4>1. SUFFICES ASSUME size[s] < n PROVE FALSE OBVIOUS
      <4>2. s + size[s] \in Abstract!Run(s, n) BY <4>1, <2>2, <2>3, <3>0
      <4>3. QED BY <4>2, <2>5, <2>8
    <3>3. QED BY <3>0, <3>1, <3>2, <2>2
  <2> HIDE DEF P
  <2>9. QED BY <2>1, <2>6, <2>7, <2>8
<1>11. QED BY <1>7, <1>8, <1>9, <1>10 DEF size

\* The block a request is served from is the place FreePages names.
LEMMA PlaceIs ==
  ASSUME NEW L, NEW S, NEW F, Exact(L, S, F), NEW n \in Nat, BlockFor(L, n) # Head,
         manager \in Managers
  PROVE  Abstract!Fits(F, n) # {} /\ Abstract!Place(F, n) = BlockFor(L, n)
<1> DEFINE b == BlockFor(L, n)
           size == L.property
           len(x) == Abstract!LengthOf(F, x)
           fits == Abstract!Fits(F, n)
<1>1. S \subseteq Pages /\ S \subseteq Int /\ size \in [Pages -> Nat]
  BY ListType DEF Exact, PmType
<1>2. \A s \in S : s \in Int /\ size[s] \in Nat BY <1>1
<1>3. /\ b \in S /\ size[b] >= n
      /\ manager = "default" => \A s \in S : size[s] >= n => b <= s
      /\ manager # "default" =>
           \A s \in S : size[s] >= n => size[b] < size[s] \/ (size[b] = size[s] /\ b <= s)
  BY BlockForIs
<1>4. Abstract!Starts(F) = S /\ \A s \in S : len(s) = size[s] BY RunsAre
<1>5. fits = {s \in Abstract!Starts(F) : len(s) >= n} BY DEF Abstract!Fits
<1>6. \A x, y : Abstract!Better(F, x, y) <=>
        \/ manager = "default" /\ x <= y
        \/ manager = "best_fit" /\ len(x) < len(y)
        \/ manager = "best_fit" /\ len(x) = len(y) /\ x <= y
  BY DEF Abstract!Better
<1>7. Abstract!Place(F, n) = CHOOSE x \in fits : \A y \in fits : Abstract!Better(F, x, y)
  BY DEF Abstract!Place
<1> HIDE DEF b, size, len, fits
<1>8. fits = {s \in S : size[s] >= n} BY <1>4, <1>5
<1>9. b \in fits BY <1>3, <1>8
<1>10. manager = "default" \/ manager = "best_fit" BY DEF Managers
<1>11. ASSUME NEW y \in fits PROVE Abstract!Better(F, b, y)
  <2>1. y \in S /\ size[y] >= n /\ len(y) = size[y] /\ len(b) = size[b] BY <1>8, <1>4, <1>3
  <2>2. CASE manager = "default" BY <2>1, <2>2, <1>3, <1>6
  <2>3. CASE manager = "best_fit" BY <2>1, <2>3, <1>3, <1>6
  <2>4. QED BY <2>2, <2>3, <1>10
<1>12. ASSUME NEW x \in fits, Abstract!Better(F, x, b) PROVE x = b
  <2>1. x \in S /\ b \in S /\ len(x) = size[x] /\ len(b) = size[b] /\ x \in Int /\ b \in Int
        /\ size[x] \in Nat /\ size[b] \in Nat
    BY <1>8, <1>4, <1>3, <1>2
  <2>2. Abstract!Better(F, b, x) BY <1>11, <1>12
  <2>3. CASE manager = "default"
    <3>1. x <= b /\ b <= x BY <2>2, <2>3, <1>6, <1>12
    <3>2. QED BY <3>1, <2>1
  <2>4. CASE manager = "best_fit"
    <3>1. size[x] < size[b] \/ (size[x] = size[b] /\ x <= b) BY <2>1, <2>4, <1>6, <1>12
    <3>2. size[b] < size[x] \/ (size[b] = size[x] /\ b <= x) BY <2>1, <2>2, <2>4, <1>6
    <3>3. QED BY <3>1, <3>2, <2>1
  <2>5. QED BY <2>3, <2>4, <1>10
<1>13. \A x \in fits : (\A y \in fits : Abstract!Better(F, x, y)) => x = b
  BY <1>9, <1>12
<1>14. Abstract!Place(F, n) = b BY <1>7, <1>9, <1>11, <1>13
<1>15. QED BY <1>9, <1>14 DEF b, fits

-----------------------------------------------------------------------------
(* Taking and giving back pages.                                           *)

\* The manager L and the pages g that were given out account for the memory,
\* and nobody got a page of the reserve.
Sound(L, g) ==
  /\ \E S : Exact(L, S, Pages \ g)
  /\ g \subseteq Pages
  /\ \A q \in g : q < NP - Reserve

\* A request that is served: where the pages come from, and that FreePages
\* would have taken the same.
LEMMA AllocKeeps ==
  ASSUME NEW L, NEW g, Sound(L, g), manager \in Managers, NEW n \in Nat, n >= 1,
         CanAlloc(L, n)
  PROVE  LET b == BlockFor(L, n)
         IN  /\ b \in Pages /\ b + n <= NP - Reserve
             /\ Run(b, n) \subseteq Pages \ g
             /\ Sound(take(L, b, n), g \cup Run(b, n))
             /\ Abstract!Fits(Pages \ g, n) # {}
             /\ Pages \ (g \cup Run(b, n)) = Abstract!Without(Pages \ g, n)
<1> DEFINE b == BlockFor(L, n)
           F == Pages \ g
<1>1. PICK S : Exact(L, S, F) BY DEF Sound
<1>2. b # Head /\ b + n <= NP - Reserve BY DEF CanAlloc
<1>3. b \in S /\ L.property[b] >= n BY <1>1, <1>2, BlockForIs
<1>4. Abstract!Fits(F, n) # {} /\ Abstract!Place(F, n) = b BY <1>1, <1>2, PlaceIs
<1> HIDE DEF b
<1>5. S \subseteq Pages /\ S \subseteq Int /\ L.property \in [Pages -> Nat]
  BY <1>1, ListType DEF Exact, PmType
<1>6. b \in Pages /\ b \in Int /\ L.property[b] \in Nat BY <1>3, <1>5
<1>7. Run(b, n) \subseteq Int /\ \A x \in Int : x \in Run(b, n) <=> b <= x /\ x < b + n
  <2>1. Run(b, n) \subseteq Int BY <1>6 DEF Run
  <2>2. QED BY <2>1, <1>6, RunIs
<1>8. Run(b, n) \subseteq F
  <2>1. \A x \in Int : b <= x /\ x < b + L.property[b] => x \in F
    BY <1>1, <1>3 DEF Exact, Tiles
  <2>2. \A x \in Int : x < b + n => x < b + L.property[b] BY <1>3, <1>6
  <2>3. QED BY <2>1, <2>2, <1>7
<1>9. PICK R : Exact(take(L, b, n), R, F \ Run(b, n)) BY <1>1, <1>3, TakeIs
<1>10. F \ Run(b, n) = Pages \ (g \cup Run(b, n)) OBVIOUS
<1>11. \A q \in g \cup Run(b, n) : q < NP - Reserve
  <2>1. \A q \in Run(b, n) : q < NP - Reserve
    <3>1. NP - Reserve \in Int BY PagesAssumption
    <3>2. \A q \in Run(b, n) : q \in Int /\ q < b + n BY <1>7
    <3>3. QED BY <3>1, <3>2, <1>2, <1>6
  <2>2. QED BY <2>1 DEF Sound
<1>12. g \cup Run(b, n) \subseteq Pages BY <1>8 DEF Sound
<1>13. Sound(take(L, b, n), g \cup Run(b, n)) BY <1>9, <1>10, <1>11, <1>12 DEF Sound
<1>14. Abstract!Without(F, n) = F \ Run(b, n) BY <1>4 DEF Abstract!Without, Abstract!Run, Run
<1>15. QED BY <1>2, <1>4, <1>6, <1>8, <1>10, <1>13, <1>14 DEF b

\* Pages that are given back.
LEMMA FreeKeeps ==
  ASSUME NEW L, NEW g, Sound(L, g), Reserve > 0, NEW b \in Pages, NEW n \in Nat, n >= 1,
         Run(b, n) \subseteq g
  PROVE  Sound(release(L, b, n), g \ Run(b, n))
<1> DEFINE F == Pages \ g
<1>1. PICK S : Exact(L, S, F) BY DEF Sound
<1>2. S \subseteq Pages /\ S \subseteq Int /\ L.property \in [Pages -> Nat]
  BY <1>1, ListType DEF Exact, PmType
<1>3. b \in Int /\ NP \in Int /\ NP - Reserve \in Int /\ Reserve \in Int /\ NP - 1 \in Pages
  BY PagesAssumption DEF Pages
<1>4. \A x \in Int : x \in Run(b, n) <=> b <= x /\ x < b + n BY <1>3, RunIs
<1>5. b \in g BY <1>3, <1>4
<1>6. b < NP - 1 /\ b \notin F /\ NP - 1 \in F
  <2>1. b < NP - Reserve BY <1>5 DEF Sound
  <2>2. NP - 1 \notin g
    <3>1. ~(NP - 1 < NP - Reserve) BY <1>3
    <3>2. QED BY <3>1 DEF Sound
  <2>3. QED BY <2>1, <2>2, <1>3, <1>5
<1>7. \E s \in S : b < s
  <2>1. PICK s \in S : s <= NP - 1 /\ NP - 1 < s + L.property[s]
    BY <1>1, <1>6 DEF Exact, Tiles
  <2>2. s \in Int /\ L.property[s] \in Nat BY <1>2
  <2>3. ~(s <= b)
    <3>1. SUFFICES ASSUME s <= b PROVE FALSE OBVIOUS
    <3>2. b < s + L.property[s] BY <2>1, <2>2, <1>3, <1>6
    <3>3. b \in F BY <3>1, <3>2, <1>3, <1>1 DEF Exact, Tiles
    <3>4. QED BY <3>3, <1>6
  <2>4. QED BY <2>2, <2>3, <1>3
<1>8. Run(b, n) \subseteq Pages \ F BY DEF Sound
<1>9. PICK R : Exact(release(L, b, n), R, F \cup Run(b, n))
  <2> HIDE DEF F
  <2>1. QED BY <1>1, <1>7, <1>8, ReleaseIs
<1>10. F \cup Run(b, n) = Pages \ (g \ Run(b, n)) BY <1>8
<1>11. QED BY <1>9, <1>10 DEF Sound

\* 1 << order is what it should be.
LEMMA PagesOfIs ==
  ASSUME NEW order \in Nat
  PROVE  PagesOf(order) \in Nat /\ PagesOf(order) > order
<1> DEFINE G(p) == [k \in 0 .. order |-> IF k = 0 THEN 1 ELSE 2 * p[k - 1]]
           pow == CHOOSE p : p = G(p)
<1>1. PICK g \in [0 .. order -> Nat] :
        g[0] = 1 /\ \A k \in 1 .. order : g[k] = 2 * g[k - 1]
  <2> DEFINE F == [x \in Nat |-> 2 * x]
  <2>1. F \in [Nat -> Nat] OBVIOUS
  <2>2. Iterable(Nat, F, 1, order)
    <3> HIDE DEF F
    <3>1. QED BY <2>1, Iterates
  <2>3. PICK g \in [0 .. order -> Nat] :
          g[0] = 1 /\ \A k \in 1 .. order : g[k] = F[g[k - 1]]
    BY <2>2 DEF Iterable
  <2>4. ASSUME NEW k \in 1 .. order PROVE g[k] = 2 * g[k - 1]
    <3>1. k - 1 \in 0 .. order OBVIOUS
    <3>2. g[k - 1] \in Nat BY <3>1
    <3>3. QED BY <2>3, <3>2
  <2>5. QED BY <2>3, <2>4
<1>2. g = G(g)
  <2>1. ASSUME NEW k \in 0 .. order PROVE g[k] = G(g)[k]
    <3>1. CASE k = 0 BY <3>1, <1>1
    <3>2. CASE k # 0
      <4>1. k \in 1 .. order BY <3>2
      <4>2. QED BY <4>1, <1>1, <3>2
    <3>3. QED BY <3>1, <3>2
  <2>2. QED BY <2>1
<1>3. pow = G(pow) BY <1>2
<1>4. PagesOf(order) = pow[order] BY DEF PagesOf
<1> HIDE DEF pow
<1>5. pow[0] = 1
  <2>1. 0 \in 0 .. order OBVIOUS
  <2>2. QED BY <1>3, <2>1
<1>6. \A k \in 1 .. order : pow[k] = 2 * pow[k - 1]
  <2>1. ASSUME NEW k \in 1 .. order PROVE pow[k] = 2 * pow[k - 1]
    <3>1. k \in 0 .. order /\ k # 0 OBVIOUS
    <3>2. QED BY <1>3, <3>1
  <2>2. QED BY <2>1
<1> DEFINE T == {k \in Nat : k <= order => pow[k] \in Nat /\ pow[k] > k}
<1>7. 0 \in T BY <1>5
<1>8. ASSUME NEW k \in Nat, k \in T PROVE k + 1 \in T
  <2>1. SUFFICES ASSUME k + 1 <= order PROVE pow[k + 1] \in Nat /\ pow[k + 1] > k + 1
    OBVIOUS
  <2>2. k + 1 \in 1 .. order /\ (k + 1) - 1 = k /\ k <= order BY <2>1
  <2>3. pow[k + 1] = 2 * pow[k] /\ pow[k] \in Nat /\ pow[k] > k BY <2>2, <1>6, <1>8
  <2>4. QED BY <2>3
<1>9. Nat \subseteq T
  <2> HIDE DEF T
  <2>1. QED BY <1>7, <1>8, SetInduction
<1>10. QED BY <1>4, <1>9

LEMMA FindOrderIs ==
  ASSUME NEW size \in Nat
  PROVE  find_order(size) \in Nat /\ size \div PagesOf(find_order(size)) <= U
<1> DEFINE T == {k \in 0 .. size : size \div PagesOf(k) <= U}
<1>1. size \in T
  <2>1. PagesOf(size) \in Nat /\ PagesOf(size) > size BY PagesOfIs
  <2>2. \A m \in Nat : m > size => size \div m = 0 OBVIOUS
  <2>3. size \div PagesOf(size) = 0 BY <2>1, <2>2
  <2>4. QED BY <2>3, SizesAssumption
<1>2. T \in SUBSET Nat OBVIOUS
<1>3. find_order(size) = Least(T) BY DEF find_order
<1>4. Least(T) \in T
  <2> HIDE DEF T
  <2>1. QED BY <1>1, <1>2, NatLeast
<1>5. QED BY <1>3, <1>4

-----------------------------------------------------------------------------
(* The page manager under the heap.                                        *)

\* The pages of a big object.
PagesOfBig(d) == Run(d.pages, PagesOf(d.order))

\* Every big object has pages of its own.
BigOwn(blocks, g) ==
  /\ \A d \in blocks : /\ d.pages \in Pages /\ PagesOf(d.order) \in 1 .. MaxN
                       /\ PagesOfBig(d) \subseteq g
  /\ \A d, e \in blocks : d # e => PagesOfBig(d) \cap PagesOfBig(e) = {}

\* ... the heap has others, and the manager knows the rest.
PageInv ==
  /\ manager \in Managers
  /\ Sound(pm, given)
  /\ BigOwn(bigblocks, given)
  /\ grown \subseteq given
  /\ \A d \in bigblocks : PagesOfBig(d) \cap grown = {}

\* The initial list is exact.
LEMMA PageInvInit == KInit => PageInv
<1> SUFFICES ASSUME KInit PROVE PageInv OBVIOUS
<1>1. NP \in Nat /\ NP > 0 /\ Reserve \in Nat BY PagesAssumption
<1>2. 0 \in Pages /\ Head = -1 /\ Head # 0 /\ Head \in Entries /\ 0 \in Entries
      /\ Pages \subseteq Int /\ \A q \in Pages : 0 <= q /\ q < NP
  BY <1>1 DEF Pages, Head, Entries
<1>3. /\ pm = [next |-> [e \in Entries |-> IF e = Head THEN 0 ELSE Head],
               prev |-> [e \in Entries |-> IF e = Head THEN 0 ELSE Head],
               property |-> [p \in Pages |-> IF p = 0 THEN NP ELSE 0],
               PG_property |-> {0},
               nr_free |-> NP]
      /\ manager \in Managers /\ given = {} /\ bigblocks = {} /\ grown = {}
  BY DEF KInit, Init, Managers
<1> DEFINE S == {0}
<1>4. pm \in PmType BY <1>1, <1>2, <1>3 DEF PmType
<1>5. /\ pm.next[Head] = 0 /\ pm.next[0] = Head /\ pm.prev[Head] = 0 /\ pm.prev[0] = Head
      /\ pm.property[0] = NP /\ pm.PG_property = {0} /\ pm.nr_free = NP
  BY <1>2, <1>3
<1>6. IsList(pm, S)
  <2>1. S \subseteq Pages BY <1>2
  <2>2. ASSUME NEW e \in S \cup {Head}
        PROVE  /\ pm.next[e] \in S \cup {Head} /\ pm.prev[pm.next[e]] = e
               /\ pm.prev[e] \in S \cup {Head} /\ pm.next[pm.prev[e]] = e
               /\ pm.next[e] # Head => e < pm.next[e]
               /\ \A s \in S : e < s => pm.next[e] # Head /\ pm.next[e] <= s
    BY <1>2, <1>5
  <2>3. QED BY <2>1, <2>2, <1>4 DEF IsList
<1>7. Tiles(pm.property, S, Pages)
  <2>1. \A q \in Int : 0 <= q /\ q < 0 + NP => q \in Pages BY <1>1 DEF Pages
  <2>2. \A q \in Pages : 0 <= q /\ q < 0 + NP BY <1>1, <1>2
  <2>3. QED BY <2>1, <2>2, <1>1, <1>5 DEF Tiles
<1>8. Cardinality(Pages) = NP
  <2>1. NP - 1 \in Int /\ ~(0 > NP - 1) /\ NP - 1 - 0 + 1 = NP BY <1>1
  <2>2. QED BY <2>1, FS_Interval DEF Pages
<1>9. Exact(pm, S, Pages \ given)
  <2>1. Pages \ given = Pages BY <1>3
  <2>2. QED BY <2>1, <1>5, <1>6, <1>7, <1>8 DEF Exact
<1>10. Sound(pm, given) BY <1>3, <1>9 DEF Sound
<1>11. QED BY <1>3, <1>10 DEF PageInv, BigOwn

\* A page slob_alloc may have to get on the way.
LEMMA GrowKeeps ==
  ASSUME PageInv, NEW n \in Nat, Grows(n) => CanAlloc(pm, 1)
  PROVE  /\ Sound(PmFor(n), given \cup GrownBy(n))
         /\ GrownBy(n) \subseteq Pages \ given
         /\ \/ GrownBy(n) = {} /\ ~Grows(n)
            \/ /\ Grows(n)
               /\ Abstract!Fits(Pages \ given, 1) # {}
               /\ Pages \ (given \cup GrownBy(n)) = Abstract!Without(Pages \ given, 1)
<1>1. CASE Grows(n)
  <2> DEFINE b == BlockFor(pm, 1)
  <2>1. /\ b \in Pages
        /\ Run(b, 1) \subseteq Pages \ given
        /\ Sound(take(pm, b, 1), given \cup Run(b, 1))
        /\ Abstract!Fits(Pages \ given, 1) # {}
        /\ Pages \ (given \cup Run(b, 1)) = Abstract!Without(Pages \ given, 1)
    <3> DEFINE k == 1
    <3>1. /\ Sound(pm, given) /\ manager \in Managers /\ CanAlloc(pm, k)
          /\ k \in Nat /\ k >= 1 /\ b = BlockFor(pm, k)
      BY <1>1 DEF PageInv
    <3> HIDE DEF k, b
    <3>2. /\ b \in Pages
          /\ Run(b, k) \subseteq Pages \ given
          /\ Sound(take(pm, b, k), given \cup Run(b, k))
          /\ Abstract!Fits(Pages \ given, k) # {}
          /\ Pages \ (given \cup Run(b, k)) = Abstract!Without(Pages \ given, k)
      BY <3>1, AllocKeeps
    <3>3. QED BY <3>2 DEF k
  <2>2. GrownBy(n) = {b} /\ PmFor(n) = take(pm, b, 1) BY <1>1 DEF GrownBy, PmFor
  <2> HIDE DEF b
  <2>3. Run(b, 1) = {b}
    <3>1. b \in Int BY <2>1, PagesAssumption DEF Pages
    <3>2. QED BY <3>1 DEF Run
  <2>4. QED BY <2>1, <2>2, <2>3, <1>1
<1>2. CASE ~Grows(n)
  <2>1. GrownBy(n) = {} /\ PmFor(n) = pm BY <1>2 DEF GrownBy, PmFor
  <2>2. given \cup GrownBy(n) = given BY <2>1
  <2>3. QED BY <2>1, <2>2, <1>2 DEF PageInv
<1>3. QED BY <1>1, <1>2

\* What a step of the page manager may be, seen from outside.
PageStep == Abstract!Next \/ UNCHANGED Abstract!vars

LEMMA OneIsRequest == 1 \in Nat /\ 1 \in 1 .. MaxN BY PagesAssumption

LEMMA kmalloc_small_keeps ==
  ASSUME PageInv, NEW size \in Sizes, kmalloc_small(size)
  PROVE  PageInv' /\ PageStep
<1> DEFINE n == size + 1
           new == GrownBy(n)
<1>1. n \in Nat BY SizesAssumption
<1>2. /\ Grows(n) => CanAlloc(pm, 1)
      /\ grown' = grown \cup new /\ pm' = PmFor(n) /\ given' = given \cup new
      /\ manager' = manager /\ bigblocks' = bigblocks
  BY DEF kmalloc_small
<1>3. /\ Sound(PmFor(n), given \cup new)
      /\ new \subseteq Pages \ given
      /\ \/ new = {} /\ ~Grows(n)
         \/ /\ Grows(n)
            /\ Abstract!Fits(Pages \ given, 1) # {}
            /\ Pages \ (given \cup new) = Abstract!Without(Pages \ given, 1)
  BY <1>1, <1>2, GrowKeeps
<1> HIDE DEF n, new
<1>4. BigOwn(bigblocks, given') BY <1>2 DEF PageInv, BigOwn
<1>5. \A d \in bigblocks : PagesOfBig(d) \cap grown' = {}
  BY <1>2, <1>3 DEF PageInv, BigOwn
<1>6. PageInv'
  <2>1. manager' \in Managers /\ Sound(pm', given') /\ grown' \subseteq given'
    BY <1>2, <1>3 DEF PageInv
  <2>2. BigOwn(bigblocks, given)' BY <1>4, <1>2 DEF BigOwn, PagesOfBig
  <2>3. (\A d \in bigblocks : PagesOfBig(d) \cap grown = {})' BY <1>5, <1>2 DEF PagesOfBig
  <2>4. Sound(pm, given)' BY <2>1 DEF Sound
  <2>5. QED BY <2>1, <2>2, <2>3, <2>4 DEF PageInv
<1>7. PageStep
  <2>1. CASE new = {}
    <3>1. UNCHANGED Abstract!vars BY <2>1, <1>2 DEF Abstract!vars
    <3>2. QED BY <3>1 DEF PageStep
  <2>2. CASE new # {}
    <3>1. Abstract!Alloc(1) BY <2>2, <1>2, <1>3 DEF Abstract!Alloc
    <3>2. QED BY <3>1, OneIsRequest DEF PageStep, Abstract!Next
  <2>3. QED BY <2>1, <2>2
<1>8. QED BY <1>6, <1>7

LEMMA kmalloc_big_keeps ==
  ASSUME PageInv, NEW size \in Sizes, kmalloc_big(size)
  PROVE  PageInv' /\ PageStep
<1> DEFINE new == GrownBy(BIGBLOCK)
           L == PmFor(BIGBLOCK)
           g == given \cup new
           n == PagesOf(find_order(size))
           p == BlockFor(L, n)
           d == [bb |-> Found(HeapFor(BIGBLOCK), BIGBLOCK), pages |-> p,
                 order |-> find_order(size)]
<1>1. /\ Grows(BIGBLOCK) => CanAlloc(pm, 1)
      /\ CanAlloc(L, n)
      /\ bigblocks' = bigblocks \cup {d}
      /\ grown' = grown \cup new /\ pm' = take(L, p, n) /\ given' = g \cup Run(p, n)
      /\ manager' = manager
  BY DEF kmalloc_big
<1>2. n \in Nat /\ n >= 1 /\ n \in 1 .. MaxN
  <2>1. size \in Nat BY SizesAssumption
  <2>2. find_order(size) \in Nat BY <2>1, FindOrderIs
  <2>3. n \in Nat /\ n > find_order(size) BY <2>2, PagesOfIs
  <2>4. n <= MaxN BY OrdersAssumption
  <2>5. QED BY <2>2, <2>3, <2>4, PagesAssumption
<1>3. /\ Sound(L, g)
      /\ new \subseteq Pages \ given
      /\ \/ new = {} /\ ~Grows(BIGBLOCK)
         \/ /\ Grows(BIGBLOCK)
            /\ Abstract!Fits(Pages \ given, 1) # {}
            /\ Pages \ g = Abstract!Without(Pages \ given, 1)
  <2>1. BIGBLOCK \in Nat BY DEF BIGBLOCK
  <2>2. QED BY <2>1, <1>1, GrowKeeps
<1> HIDE DEF new, L, g, n
<1>4. manager \in Managers BY DEF PageInv
<1>5. /\ p \in Pages
      /\ Run(p, n) \subseteq Pages \ g
      /\ Sound(take(L, p, n), g \cup Run(p, n))
      /\ Abstract!Fits(Pages \ g, n) # {}
      /\ Pages \ (g \cup Run(p, n)) = Abstract!Without(Pages \ g, n)
  BY <1>1, <1>2, <1>3, <1>4, AllocKeeps
<1>6. d.pages = p /\ PagesOf(d.order) = n BY DEF n
<1> HIDE DEF d, p
<1>7. PagesOfBig(d) = Run(p, n) BY <1>6 DEF PagesOfBig
<1>8. given \subseteq g /\ g \subseteq given' /\ Run(p, n) \cap given = {}
      /\ Run(p, n) \subseteq given' /\ grown' \subseteq g
  BY <1>1, <1>5 DEF g, PageInv
<1>9. BigOwn(bigblocks \cup {d}, given')
  <2>1. ASSUME NEW e \in bigblocks
        PROVE  /\ e.pages \in Pages /\ PagesOf(e.order) \in 1 .. MaxN
               /\ PagesOfBig(e) \subseteq given /\ PagesOfBig(e) \subseteq given'
               /\ PagesOfBig(e) \cap PagesOfBig(d) = {}
    BY <1>7, <1>8 DEF PageInv, BigOwn
  <2>2. /\ d.pages \in Pages /\ PagesOf(d.order) \in 1 .. MaxN
        /\ PagesOfBig(d) \subseteq given'
    BY <1>2, <1>5, <1>6, <1>7, <1>8
  <2>3. \A e, f \in bigblocks : e # f => PagesOfBig(e) \cap PagesOfBig(f) = {}
    BY DEF PageInv, BigOwn
  <2>4. QED BY <2>1, <2>2, <2>3 DEF BigOwn
<1>10. \A e \in bigblocks \cup {d} : PagesOfBig(e) \cap grown' = {}
  <2>1. ASSUME NEW e \in bigblocks PROVE PagesOfBig(e) \cap grown' = {}
    BY <1>1, <1>3 DEF PageInv, BigOwn
  <2>2. PagesOfBig(d) \cap grown' = {} BY <1>7, <1>5, <1>8
  <2>3. QED BY <2>1, <2>2
<1>11. PageInv'
  <2>1. manager' \in Managers /\ Sound(pm', given') /\ grown' \subseteq given'
    BY <1>1, <1>4, <1>5, <1>8
  <2>2. BigOwn(bigblocks, given)' BY <1>9, <1>1 DEF BigOwn, PagesOfBig
  <2>3. (\A e \in bigblocks : PagesOfBig(e) \cap grown = {})' BY <1>10, <1>1 DEF PagesOfBig
  <2>4. Sound(pm, given)' BY <2>1 DEF Sound
  <2>5. QED BY <2>1, <2>2, <2>3, <2>4 DEF PageInv
<1>12. PageStep
  <2>1. Pages \ given' = Abstract!Without(Pages \ g, n) BY <1>1, <1>5
  <2>2. CASE new = {}
    <3>1. g = given BY <2>2 DEF g
    <3>2. Abstract!Alloc(n) BY <2>1, <3>1, <1>1, <1>5 DEF Abstract!Alloc
    <3>3. QED BY <3>2, <1>2 DEF PageStep, Abstract!Next
  <2>3. CASE new # {}
    <3>1. Abstract!Fits(Pages \ given, 1) # {} /\ Pages \ g = Abstract!Without(Pages \ given, 1)
      BY <2>3, <1>3
    <3>2. Abstract!AllocTwo(n) BY <2>1, <3>1, <1>1, <1>5 DEF Abstract!AllocTwo
    <3>3. QED BY <3>2, <1>2 DEF PageStep, Abstract!Next
  <2>4. QED BY <2>2, <2>3
<1>13. QED BY <1>11, <1>12

LEMMA kmalloc_fails_keeps ==
  ASSUME PageInv, NEW size \in Sizes, kmalloc_fails(size)
  PROVE  PageInv' /\ PageStep
<1> DEFINE n == BIGBLOCK
           new == GrownBy(n)
<1>1. n \in Nat BY DEF BIGBLOCK
<1>2. /\ Grows(n) => CanAlloc(pm, 1)
      /\ grown' = grown \cup new /\ pm' = PmFor(n) /\ given' = given \cup new
      /\ manager' = manager /\ bigblocks' = bigblocks
  BY DEF kmalloc_fails
<1>3. /\ Sound(PmFor(n), given \cup new)
      /\ new \subseteq Pages \ given
      /\ \/ new = {} /\ ~Grows(n)
         \/ /\ Grows(n)
            /\ Abstract!Fits(Pages \ given, 1) # {}
            /\ Pages \ (given \cup new) = Abstract!Without(Pages \ given, 1)
  BY <1>1, <1>2, GrowKeeps
<1> HIDE DEF n, new
<1>4. BigOwn(bigblocks, given') BY <1>2 DEF PageInv, BigOwn
<1>5. \A d \in bigblocks : PagesOfBig(d) \cap grown' = {}
  BY <1>2, <1>3 DEF PageInv, BigOwn
<1>6. PageInv'
  <2>1. manager' \in Managers /\ Sound(pm', given') /\ grown' \subseteq given'
    BY <1>2, <1>3 DEF PageInv
  <2>2. BigOwn(bigblocks, given)' BY <1>4, <1>2 DEF BigOwn, PagesOfBig
  <2>3. (\A d \in bigblocks : PagesOfBig(d) \cap grown = {})' BY <1>5, <1>2 DEF PagesOfBig
  <2>4. Sound(pm, given)' BY <2>1 DEF Sound
  <2>5. QED BY <2>1, <2>2, <2>3, <2>4 DEF PageInv
<1>7. PageStep
  <2>1. CASE new = {}
    <3>1. UNCHANGED Abstract!vars BY <2>1, <1>2 DEF Abstract!vars
    <3>2. QED BY <3>1 DEF PageStep
  <2>2. CASE new # {}
    <3>1. Abstract!Alloc(1) BY <2>2, <1>2, <1>3 DEF Abstract!Alloc
    <3>2. QED BY <3>1, OneIsRequest DEF PageStep, Abstract!Next
  <2>3. QED BY <2>1, <2>2
<1>8. QED BY <1>6, <1>7

\* The pages b .. b+n-1 go back to the manager.
LEMMA FreeIsFree ==
  ASSUME PageInv, NEW b \in Pages, NEW n \in 1 .. MaxN, Run(b, n) \subseteq given,
         given' = given \ Run(b, n), manager' = manager
  PROVE  PageStep
<1>1. given \subseteq Pages BY DEF PageInv, Sound
<1>2. Run(b, n) = Abstract!Run(b, n) BY DEF Run, Abstract!Run
<1>3. b \in Abstract!Pages BY DEF Abstract!Pages, Pages
<1>4. Abstract!Free(b, n)
  <2>1. Pages \ given' = (Pages \ given) \cup Run(b, n) BY <1>1
  <2>2. Run(b, n) \subseteq Abstract!Pages \ (Pages \ given)
    BY <1>1 DEF Abstract!Pages, Pages
  <2>3. QED BY <2>1, <2>2, <1>2 DEF Abstract!Free
<1>5. QED BY <1>3, <1>4 DEF PageStep, Abstract!Next

LEMMA kfree_keeps ==
  ASSUME PageInv, Reserve > 0, NEW o \in objects, kfree(o)
  PROVE  PageInv' /\ PageStep
<1> DEFINE Of == {d \in bigblocks : o.at % U = 0 /\ d.pages * U = o.at}
<1>1. CASE UNCHANGED <<manager, pm, given, bigblocks, grown>>
  <2>1. PageInv' BY <1>1 DEF PageInv, Sound, BigOwn, PagesOfBig
  <2>2. UNCHANGED Abstract!vars BY <1>1 DEF Abstract!vars
  <2>3. QED BY <2>1, <2>2 DEF PageStep
<1>2. ASSUME NEW d \in Of,
             bigblocks' = bigblocks \ {d},
             pm' = release(pm, d.pages, PagesOf(d.order)),
             given' = given \ Run(d.pages, PagesOf(d.order)),
             manager' = manager, grown' = grown
      PROVE  PageInv' /\ PageStep
  <2> DEFINE b == d.pages
             n == PagesOf(d.order)
  <2>1. /\ b \in Pages /\ n \in 1 .. MaxN /\ Run(b, n) \subseteq given
        /\ PagesOfBig(d) = Run(b, n)
    BY DEF PageInv, BigOwn, PagesOfBig
  <2>2. n \in Nat /\ n >= 1 BY <2>1, PagesAssumption
  <2> HIDE DEF b, n
  <2>3. pm' = release(pm, b, n) /\ given' = given \ Run(b, n) BY <1>2 DEF b, n
  <2>4. Sound(pm', given') BY <2>1, <2>2, <2>3, FreeKeeps DEF PageInv
  <2>5. BigOwn(bigblocks', given')
    <3>1. ASSUME NEW e \in bigblocks'
          PROVE  /\ e.pages \in Pages /\ PagesOf(e.order) \in 1 .. MaxN
                 /\ PagesOfBig(e) \subseteq given'
      <4>1. e \in bigblocks /\ e # d BY <1>2
      <4>2. PagesOfBig(e) \cap PagesOfBig(d) = {} /\ PagesOfBig(e) \subseteq given
        BY <4>1 DEF PageInv, BigOwn
      <4>3. QED BY <4>1, <4>2, <2>1, <2>3 DEF PageInv, BigOwn
    <3>2. \A e, f \in bigblocks' : e # f => PagesOfBig(e) \cap PagesOfBig(f) = {}
      BY <1>2 DEF PageInv, BigOwn
    <3>3. QED BY <3>1, <3>2 DEF BigOwn
  <2>6. grown \subseteq given'
    <3>1. PagesOfBig(d) \cap grown = {} /\ grown \subseteq given BY DEF PageInv
    <3>2. QED BY <3>1, <2>1, <2>3
  <2>7. PageInv'
    <3>1. manager' \in Managers BY <1>2 DEF PageInv
    <3>2. Sound(pm, given)' BY <2>4 DEF Sound
    <3>3. BigOwn(bigblocks, given)' BY <2>5 DEF BigOwn, PagesOfBig
    <3>4. (\A e \in bigblocks : PagesOfBig(e) \cap grown = {})'
      BY <1>2 DEF PageInv, PagesOfBig
    <3>5. (grown \subseteq given)' BY <2>6, <1>2
    <3>6. QED BY <3>1, <3>2, <3>3, <3>4, <3>5 DEF PageInv
  <2>8. PageStep BY <2>1, <2>3, <1>2, FreeIsFree
  <2>9. QED BY <2>7, <2>8
<1>3. QED BY <1>1, <1>2 DEF kfree

LEMMA OtherPages_keeps ==
  ASSUME PageInv, Reserve > 0, OtherPages
  PROVE  PageInv' /\ PageStep
<1>1. UNCHANGED <<bigblocks, grown>> BY DEF OtherPages, kvars
<1>2. PICK n \in 1 .. MaxN :
        alloc_pages(n) \/ \E b \in Pages : Run(b, n) \subseteq Others /\ free_pages(b, n)
  BY DEF OtherPages
<1>3. n \in Nat /\ n >= 1 BY PagesAssumption
<1>4. CASE alloc_pages(n)
  <2> DEFINE b == BlockFor(pm, n)
  <2>1. /\ CanAlloc(pm, n) /\ pm' = take(pm, b, n) /\ given' = given \cup Run(b, n)
        /\ manager' = manager
    BY <1>4 DEF alloc_pages
  <2>2. Sound(pm, given) /\ manager \in Managers BY DEF PageInv
  <2>3. /\ Sound(take(pm, b, n), given \cup Run(b, n))
        /\ Abstract!Fits(Pages \ given, n) # {}
        /\ Pages \ (given \cup Run(b, n)) = Abstract!Without(Pages \ given, n)
    BY <2>1, <2>2, <1>3, AllocKeeps
  <2> HIDE DEF b
  <2>4. PageInv'
    <3>1. manager' \in Managers /\ Sound(pm', given') BY <2>1, <2>2, <2>3
    <3>2. Sound(pm, given)' BY <3>1 DEF Sound
    <3>3. BigOwn(bigblocks, given)' BY <2>1, <1>1 DEF BigOwn, PagesOfBig, PageInv
    <3>4. (\A d \in bigblocks : PagesOfBig(d) \cap grown = {})'
      BY <1>1 DEF PageInv, PagesOfBig
    <3>5. (grown \subseteq given)' BY <1>1, <2>1 DEF PageInv
    <3>6. QED BY <3>1, <3>2, <3>3, <3>4, <3>5 DEF PageInv
  <2>5. Abstract!Alloc(n) BY <2>1, <2>3 DEF Abstract!Alloc
  <2>6. PageStep BY <2>5 DEF PageStep, Abstract!Next
  <2>7. QED BY <2>4, <2>6
<1>5. ASSUME NEW b \in Pages, Run(b, n) \subseteq Others, free_pages(b, n)
      PROVE  PageInv' /\ PageStep
  <2>1. /\ Run(b, n) \subseteq given /\ pm' = release(pm, b, n)
        /\ given' = given \ Run(b, n) /\ manager' = manager
    BY <1>5 DEF free_pages
  <2>2. Run(b, n) \cap grown = {} /\ \A d \in bigblocks : Run(b, n) \cap PagesOfBig(d) = {}
    BY <1>5 DEF Others, BigPages, PagesOfBig
  <2>3. Sound(pm', given') BY <2>1, <1>3, FreeKeeps DEF PageInv
  <2>4. PageInv'
    <3>1. manager' \in Managers BY <2>1 DEF PageInv
    <3>2. Sound(pm, given)' BY <2>3 DEF Sound
    <3>3. BigOwn(bigblocks, given')
      <4>1. ASSUME NEW d \in bigblocks PROVE PagesOfBig(d) \subseteq given'
        <5>1. PagesOfBig(d) \subseteq given BY DEF PageInv, BigOwn
        <5>2. QED BY <5>1, <2>1, <2>2
      <4>2. QED BY <4>1 DEF PageInv, BigOwn
    <3>4. BigOwn(bigblocks, given)' BY <3>3, <1>1 DEF BigOwn, PagesOfBig
    <3>5. (\A d \in bigblocks : PagesOfBig(d) \cap grown = {})'
      BY <1>1 DEF PageInv, PagesOfBig
    <3>6. (grown \subseteq given)' BY <1>1, <2>1, <2>2 DEF PageInv
    <3>7. QED BY <3>1, <3>2, <3>4, <3>5, <3>6 DEF PageInv
  <2>5. PageStep BY <2>1, FreeIsFree
  <2>6. QED BY <2>4, <2>5
<1>6. QED BY <1>2, <1>4, <1>5

\* Every step keeps the invariant and is a step of FreePages.
LEMMA PageInvNext ==
  ASSUME PageInv, Reserve > 0, [KNext]_allvars
  PROVE  PageInv' /\ PageStep
<1>1. CASE UNCHANGED allvars
  <2>1. UNCHANGED <<manager, pm, given, bigblocks, grown>>
    BY <1>1 DEF allvars, pvars, kvars
  <2>2. PageInv' BY <2>1 DEF PageInv, Sound, BigOwn, PagesOfBig
  <2>3. UNCHANGED Abstract!vars BY <2>1 DEF Abstract!vars
  <2>4. QED BY <2>2, <2>3 DEF PageStep
<1>2. CASE KNext
  BY <1>2, kmalloc_small_keeps, kmalloc_big_keeps, kmalloc_fails_keeps, kfree_keeps,
     OtherPages_keeps DEF KNext
<1>3. QED BY <1>1, <1>2

\* The page manager's invariant holds of the kernel heap on top of it.
THEOREM PageInvariance ==
  ASSUME Reserve > 0
  PROVE  KSpec => []PageInv
<1>1. KInit => PageInv BY PageInvInit
<1>2. PageInv /\ [KNext]_allvars => PageInv' BY PageInvNext
<1>3. QED BY <1>1, <1>2, PTL DEF KSpec

\* For every size of memory and every reserve above 0 the free list of
\* default_pmm.c and best_fit_pmm.c is exact whatever is allocated and freed:
\* linked both ways in the order of addresses, merged as far as it goes,
\* nr_free right, no page lost.
THEOREM FreeListAlwaysExact ==
  ASSUME Reserve > 0
  PROVE  KSpec => []FreeListExact
<1>1. PageInv => FreeListExact
  <2> SUFFICES ASSUME PageInv PROVE FreeListExact OBVIOUS
  <2> DEFINE F == Pages \ given
  <2>1. PICK S : Exact(pm, S, F) BY DEF PageInv, Sound
  <2>2. ComesRound(pm) /\ Listed(pm) = S BY <2>1, WalkIs DEF Exact
  <2>3. /\ S \subseteq Pages /\ S \subseteq Int /\ pm.property \in [Pages -> Nat]
        /\ Head \notin S
    BY <2>1, ListType DEF Exact, PmType
  <2>4. FreeInList = UNION {Run(b, pm.property[b]) : b \in S} BY <2>2 DEF FreeInList
  <2>5. FreeInList = F
    <3>1. ASSUME NEW b \in S PROVE Run(b, pm.property[b]) \subseteq F
      <4>1. b \in Int /\ pm.property[b] \in Nat BY <2>3
      <4>2. Run(b, pm.property[b]) \subseteq Int BY <4>1 DEF Run
      <4>3. \A x \in Int : x \in Run(b, pm.property[b]) <=> b <= x /\ x < b + pm.property[b]
        BY <4>1, RunIs
      <4>4. QED BY <4>2, <4>3, <2>1 DEF Exact, Tiles
    <3>2. ASSUME NEW q \in F PROVE \E b \in S : q \in Run(b, pm.property[b])
      <4>1. PICK b \in S : b <= q /\ q < b + pm.property[b] BY <2>1 DEF Exact, Tiles
      <4>2. b \in Int /\ pm.property[b] \in Nat BY <2>3
      <4>3. q \in Int BY PagesAssumption DEF Pages
      <4>4. QED BY <4>1, <4>2, <4>3, RunIs
    <3> HIDE DEF F
    <3>3. QED BY <2>4, <3>1, <3>2
  <2>6. \A e \in S \cup {Head} : pm.prev[pm.next[e]] = e BY <2>1 DEF Exact, IsList
  <2>7. \A b \in S : pm.next[b] # Head => b + pm.property[b] < pm.next[b]
    <3>1. ASSUME NEW b \in S, pm.next[b] # Head PROVE b + pm.property[b] < pm.next[b]
      <4>1. pm.next[b] \in S /\ b < pm.next[b] BY <3>1, <2>1 DEF Exact, IsList
      <4>2. QED BY <4>1, <2>1 DEF Exact
    <3>2. QED BY <3>1
  <2>8. pm.PG_property = S /\ pm.nr_free = Cardinality(F) BY <2>1 DEF Exact
  <2> HIDE DEF F
  <2>9. QED BY <2>2, <2>5, <2>6, <2>7, <2>8 DEF FreeListExact, F
<1>2. QED BY <1>1, PageInvariance, PTL

\* Seen from outside the linked list is FreePages: every request gets the
\* place first fit, or best fit, chooses among all free pages, whatever was
\* split and merged before.
THEOREM PagesRefine ==
  ASSUME Reserve > 0
  PROVE  KSpec => FreePagesSpec
<1>1. KInit => Abstract!Init
  BY DEF KInit, Init, Abstract!Init, Abstract!Pages, Pages
<1>2. PageInv /\ [KNext]_allvars => [Abstract!Next]_(Abstract!vars)
  BY PageInvNext DEF PageStep
<1>3. QED BY <1>1, <1>2, PageInvariance, PTL DEF KSpec, FreePagesSpec, Abstract!Spec

-----------------------------------------------------------------------------
(* The ring of free blocks of the heap.                                    *)

\* The units of the memory are 0 .. Top-1.
Top == NP * U

LEMMA TopIs == Top \in Nat BY PagesAssumption, SizesAssumption DEF Top

\* f leads through the blocks R upwards, and from the last one to the arena.
Sorted(f, R) ==
  /\ f \in [R -> R]
  /\ R \subseteq 0 .. Top \cup {Arena} /\ Arena \in R
  /\ \A e \in R : f[e] # Arena => e < f[e]
  /\ \A e \in R : \A s \in R : e < s => f[e] # Arena /\ f[e] <= s

\* What a sorted ring is made of.
LEMMA SortedType ==
  ASSUME NEW f, NEW R, Sorted(f, R)
  PROVE  /\ R \subseteq Int /\ Arena \in Int /\ Arena \in R /\ Arena = -2
         /\ \A b \in R : b <= Top /\ Arena <= b /\ (b # Arena => Arena < b /\ b \in 0 .. Top)
<1>1. Top \in Nat BY TopIs
<1>2. Arena = -2 /\ Arena \in Int BY DEF Arena
<1>3. ASSUME NEW b \in R
      PROVE  b \in Int /\ b <= Top /\ Arena <= b /\ (b # Arena => Arena < b /\ b \in 0 .. Top)
  BY <1>1, <1>2 DEF Sorted
<1>4. QED BY <1>2, <1>3 DEF Sorted

\* A link goes to the next block above.
LEMMA SortedLinks ==
  ASSUME NEW f, NEW R, Sorted(f, R)
  PROVE  /\ \A e \in R : f[e] \in R /\ f[e] \in Int
         /\ \A e \in R : f[e] # Arena => e < f[e]
         /\ \A e, s \in R : e < s => f[e] # Arena /\ f[e] <= s
<1>1. \A e \in R : f[e] \in R
  <2>1. f \in [R -> R] BY DEF Sorted
  <2>2. QED BY <2>1
<1>2. R \subseteq Int BY SortedType
<1>3. \A e \in R : f[e] # Arena => e < f[e] BY Zenon DEF Sorted
<1>4. \A e \in R : \A s \in R : e < s => f[e] # Arena /\ f[e] <= s BY Zenon DEF Sorted
<1>5. QED BY <1>1, <1>2, <1>3, <1>4

IsRing(H) ==
  /\ H = [next |-> H.next, units |-> H.units, slobfree |-> H.slobfree]
  /\ Sorted(H.next, Ring(H))
  /\ H.slobfree \in Ring(H)
  /\ H.units \in [DOMAIN H.units -> Nat] /\ Ring(H) \subseteq DOMAIN H.units
  /\ H.units[Arena] = 1

\* What every ring has.
LEMMA RingType ==
  ASSUME NEW H, IsRing(H)
  PROVE  /\ IsFiniteSet(Ring(H)) /\ Ring(H) \subseteq Int /\ Arena = -2 /\ Arena \in Int
         /\ \A b \in Ring(H) : b <= Top /\ Arena <= b /\ (b # Arena => 0 <= b)
<1>1. Top \in Nat BY TopIs
<1>2. Arena = -2 /\ Arena \in Int BY DEF Arena
<1>3. IsFiniteSet(0 .. Top) BY <1>1, FS_Interval
<1>4. IsFiniteSet(0 .. Top \cup {Arena}) BY <1>3, FS_AddElement
<1>5. IsFiniteSet(Ring(H)) BY <1>4, FS_Subset DEF IsRing, Sorted
<1>6. ASSUME NEW b \in Ring(H)
      PROVE  b \in Int /\ b <= Top /\ Arena <= b /\ (b # Arena => 0 <= b)
  BY <1>1, <1>2 DEF IsRing, Sorted
<1>7. QED BY <1>2, <1>5, <1>6

\* Every nonempty set of blocks has a highest one.
LEMMA Highest ==
  ASSUME NEW H, IsRing(H), NEW V \in SUBSET Ring(H), V # {}
  PROVE  \E x \in V : \A y \in V : y <= x
<1> DEFINE D == {Top - y : y \in V}
<1>1. Top \in Nat BY TopIs
<1>2. \A y \in V : y \in Int /\ y <= Top BY RingType
<1>3. D \in SUBSET Nat /\ D # {} BY <1>1, <1>2
<1>4. Least(D) \in D /\ \A z \in D : Least(D) <= z
  <2> HIDE DEF D
  <2>1. QED BY <1>3, NatLeast
<1>5. PICK x \in V : Least(D) = Top - x BY <1>4
<1>6. ASSUME NEW y \in V PROVE y <= x
  <2>1. Top - x <= Top - y BY <1>4, <1>5
  <2>2. QED BY <2>1, <1>1, <1>2
<1>7. QED BY <1>6

\* A set of blocks that the links do not leave is the whole ring.
LEMMA ClosedIsAll ==
  ASSUME NEW H, IsRing(H), NEW V \in SUBSET Ring(H), V # {}, \A v \in V : H.next[v] \in V
  PROVE  V = Ring(H)
<1>1. /\ Ring(H) \subseteq Int /\ Arena \in Int
      /\ \A b \in Ring(H) : Arena <= b
  BY RingType
<1>2. Arena \in V
  <2>1. PICK x \in V : \A y \in V : y <= x BY Highest
  <2>2. H.next[x] \in V /\ x \in Ring(H) BY <2>1
  <2>3. CASE H.next[x] = Arena BY <2>2, <2>3
  <2>4. CASE H.next[x] # Arena
    <3>1. x < H.next[x] BY <2>2, <2>4, SortedLinks DEF IsRing
    <3>2. H.next[x] <= x BY <2>1, <2>2
    <3>3. x \in Int /\ H.next[x] \in Int BY <2>2, <1>1
    <3>4. QED BY <3>1, <3>2, <3>3
  <2>5. QED BY <2>3, <2>4
<1>3. SUFFICES ASSUME Ring(H) \ V # {} PROVE FALSE OBVIOUS
<1> DEFINE D == {y + 2 : y \in Ring(H) \ V}
<1>4. D \in SUBSET Nat /\ D # {}
  <2>1. \A y \in Ring(H) \ V : y \in Int /\ 0 <= y BY <1>2, RingType
  <2>2. QED BY <2>1, <1>3
<1>5. Least(D) \in D /\ \A z \in D : Least(D) <= z
  <2> HIDE DEF D
  <2>1. QED BY <1>4, NatLeast
<1>6. PICK b \in Ring(H) \ V : Least(D) = b + 2 BY <1>5
<1>7. \A y \in Ring(H) \ V : b <= y
  <2>1. ASSUME NEW y \in Ring(H) \ V PROVE b <= y
    <3>1. b + 2 <= y + 2 BY <1>5, <1>6
    <3>2. QED BY <3>1, <1>1
  <2>2. QED BY <2>1
<1> DEFINE E == {v \in Ring(H) : v < b}
<1>8. Arena \in E BY <1>1, <1>2 DEF IsRing, Sorted
<1>9. PICK a \in E : \A y \in E : y <= a
  <2>1. E \in SUBSET Ring(H) /\ E # {} BY <1>8
  <2> HIDE DEF E
  <2>2. QED BY <2>1, Highest
<1>10. a \in V BY <1>7, <1>1, <1>9
<1>11. H.next[a] = b
  <2>1. a \in Ring(H) /\ b \in Ring(H) /\ a < b BY <1>9
  <2>2. H.next[a] # Arena /\ H.next[a] <= b /\ a < H.next[a] /\ H.next[a] \in Ring(H)
    BY <2>1, SortedLinks DEF IsRing
  <2>3. ~(H.next[a] < b) BY <2>2, <1>9, <1>1, <2>1
  <2>4. QED BY <2>2, <2>3, <1>1
<1>12. QED BY <1>10, <1>11

\* The walk from slobfree goes along the links and meets every block, slobfree
\* itself last.
LEMMA RingWalkIs ==
  ASSUME NEW H, IsRing(H)
  PROVE  LET n == Cardinality(Ring(H))
             w == Walk(H)
         IN  /\ n \in Nat
             /\ w \in [0 .. n -> Ring(H)]
             /\ \A k \in 1 .. n : w[k] = H.next[w[k - 1]]
             /\ \A b \in Ring(H) : \E k \in 1 .. n : w[k] = b
<1> DEFINE n == Cardinality(Ring(H))
           w == Walk(H)
           R == Ring(H)
           G(f) == [k \in 0 .. n |-> IF k = 0 THEN H.slobfree ELSE H.next[f[k - 1]]]
<1>1. n \in Nat /\ IsFiniteSet(R) BY RingType, FS_CardinalityType
<1>2. w = CHOOSE f : f = G(f) BY DEF Walk
<1>3. H.next \in [R -> R] /\ H.slobfree \in R BY DEF IsRing, Sorted
<1> HIDE DEF n, w, R
<1>4. PICK g \in [0 .. n -> R] : g[0] = H.slobfree /\ \A k \in 1 .. n : g[k] = H.next[g[k - 1]]
  <2> DEFINE F == H.next
             a == H.slobfree
  <2>1. F \in [R -> R] /\ a \in R BY <1>3
  <2> HIDE DEF F, a, G
  <2>2. Iterable(R, F, a, n) BY <1>1, <2>1, Iterates
  <2>3. QED BY <2>2 DEF Iterable, F, a
<1>5. g = G(g)
  <2>1. ASSUME NEW k \in 0 .. n PROVE g[k] = G(g)[k]
    <3>1. CASE k = 0 BY <3>1, <1>4
    <3>2. CASE k # 0
      <4>1. k \in 1 .. n BY <3>2, <1>1
      <4>2. QED BY <4>1, <1>4, <3>2
    <3>3. QED BY <3>1, <3>2
  <2>2. QED BY <2>1
<1>6. w = G(w) BY <1>2, <1>5
<1>7. w[0] = H.slobfree
  <2>1. 0 \in 0 .. n BY <1>1
  <2>2. QED BY <1>6, <2>1
<1>8. \A k \in 1 .. n : w[k] = H.next[w[k - 1]]
  <2>1. ASSUME NEW k \in 1 .. n PROVE w[k] = H.next[w[k - 1]]
    <3>1. k \in 0 .. n /\ k # 0 BY <1>1
    <3>2. QED BY <1>6, <3>1
  <2>2. QED BY <2>1
<1>9. w \in [0 .. n -> R]
  <2> DEFINE T == {m \in Nat : m \in 0 .. n => w[m] \in R}
  <2>1. 0 \in T BY <1>7, <1>3
  <2>2. ASSUME NEW m \in Nat, m \in T PROVE m + 1 \in T
    <3>1. SUFFICES ASSUME m + 1 \in 0 .. n PROVE w[m + 1] \in R OBVIOUS
    <3>2. m + 1 \in 1 .. n /\ m \in 0 .. n /\ (m + 1) - 1 = m BY <3>1, <1>1
    <3>3. w[m + 1] = H.next[w[m]] BY <3>2, <1>8
    <3>4. QED BY <3>2, <3>3, <2>2, <1>3
  <2>3. Nat \subseteq T
    <3> HIDE DEF T
    <3>1. QED BY <2>1, <2>2, SetInduction
  <2>4. \A k \in 0 .. n : w[k] \in R BY <2>3
  <2>5. QED BY <1>6, <2>4
<1> DEFINE V(k) == {w[i] : i \in 1 .. k}
           T == {k \in Nat : k <= n => Cardinality(V(k)) = k \/ V(k) = R}
<1>10. ASSUME NEW k \in 0 .. n PROVE V(k) \subseteq R BY <1>1, <1>9
<1>11. 0 \in T
  <2>1. V(0) = {} OBVIOUS
  <2>2. QED BY <2>1, FS_EmptySet
<1>12. ASSUME NEW k \in Nat, k \in T PROVE k + 1 \in T
  <2>1. SUFFICES ASSUME k + 1 <= n PROVE Cardinality(V(k + 1)) = k + 1 \/ V(k + 1) = R
    OBVIOUS
  <2>2. k <= n /\ k \in 0 .. n /\ k + 1 \in 0 .. n /\ k + 1 \in 1 .. n BY <2>1, <1>1
  <2>3. V(k + 1) = V(k) \cup {w[k + 1]}
    <3>1. 1 .. k + 1 = (1 .. k) \cup {k + 1} OBVIOUS
    <3>2. QED BY <3>1
  <2>4. V(k) \subseteq R /\ w[k + 1] \in R BY <2>2, <1>9, <1>10
  <2>5. CASE V(k) = R BY <2>3, <2>4, <2>5
  <2>6. CASE V(k) # R /\ w[k + 1] \notin V(k)
    <3>1. Cardinality(V(k)) = k BY <2>2, <2>6, <1>12
    <3>2. IsFiniteSet(V(k)) BY <2>4, <1>1, FS_Subset
    <3> HIDE DEF V
    <3>3. QED BY <3>1, <3>2, <2>3, <2>6, FS_AddElement
  <2>7. CASE V(k) # R /\ w[k + 1] \in V(k)
    <3>1. V(k) # {} BY <2>7
    <3>2. ASSUME NEW v \in V(k) PROVE H.next[v] \in V(k)
      <4>1. PICK i \in 1 .. k : v = w[i] OBVIOUS
      <4>2. i + 1 \in 1 .. n /\ (i + 1) - 1 = i BY <2>2, <1>1
      <4>3. H.next[v] = w[i + 1] BY <4>1, <4>2, <1>8
      <4>4. i + 1 \in 1 .. k \/ i + 1 = k + 1 OBVIOUS
      <4>5. QED BY <4>3, <4>4, <2>7
    <3> HIDE DEF V
    <3>3. V(k) = R BY <2>4, <3>1, <3>2, ClosedIsAll DEF R
    <3>4. QED BY <3>3, <2>7
  <2>8. QED BY <2>5, <2>6, <2>7
<1>13. V(n) = R
  <2>1. Nat \subseteq T
    <3> HIDE DEF T
    <3>1. QED BY <1>11, <1>12, SetInduction
  <2>2. Cardinality(V(n)) = n \/ V(n) = R BY <2>1, <1>1
  <2>3. V(n) \subseteq R /\ n \in 0 .. n BY <1>1, <1>10
  <2> HIDE DEF V
  <2>4. CASE Cardinality(V(n)) = n BY <2>3, <2>4, <1>1, FS_Subset DEF n, R
  <2>5. QED BY <2>2, <2>4
<1>14. \A b \in R : \E k \in 1 .. n : w[k] = b
  <2>1. ASSUME NEW b \in R PROVE \E k \in 1 .. n : w[k] = b
    <3>1. b \in V(n) BY <1>13
    <3>2. QED BY <3>1
  <2>2. QED BY <2>1
<1>15. QED BY <1>1, <1>8, <1>9, <1>14 DEF n, w, R

\* Two blocks do not lead to the same one.
LEMMA SortedInjective ==
  ASSUME NEW f, NEW R, Sorted(f, R), NEW e \in R, NEW p \in R, f[e] = f[p], f[e] # Arena
  PROVE  e = p
<1>1. R \subseteq Int BY SortedType
<1>2. f[e] \in Int /\ e \in Int /\ p \in Int /\ e < f[e] /\ p < f[e] BY <1>1, SortedLinks
<1>3. ~(e < p)
  <2>1. SUFFICES ASSUME e < p PROVE FALSE OBVIOUS
  <2>2. f[e] <= p BY <2>1, SortedLinks
  <2>3. QED BY <2>2, <1>2
<1>4. ~(p < e)
  <2>1. SUFFICES ASSUME p < e PROVE FALSE OBVIOUS
  <2>2. f[e] <= e BY <2>1, SortedLinks
  <2>3. QED BY <2>2, <1>2
<1>5. QED BY <1>2, <1>3, <1>4

\* A block b is linked behind p.
LEMMA SortedAdd ==
  ASSUME NEW f, NEW R, Sorted(f, R), NEW p \in R, NEW b \in 0 .. Top, b \notin R, p < b,
         f[p] # Arena => b < f[p],
         NEW g, g \in [R \cup {b} -> R \cup {b}], g[p] = b, g[b] = f[p],
         \A e \in R : e # p => g[e] = f[e]
  PROVE  Sorted(g, R \cup {b})
<1>1. /\ R \subseteq Int /\ Arena \in Int /\ Arena \in R
      /\ \A c \in R : c # Arena => Arena < c
  BY SortedType
<1>2. b \in Int /\ Top \in Nat /\ b # Arena BY <1>1, TopIs
<1>3. f[p] \in R /\ f[p] \in Int /\ p \in Int BY <1>1, SortedLinks
<1>4. R \cup {b} \subseteq 0 .. Top \cup {Arena} BY DEF Sorted
<1>5. ASSUME NEW e \in R \cup {b}
      PROVE  /\ g[e] # Arena => e < g[e]
             /\ \A s \in R \cup {b} : e < s => g[e] # Arena /\ g[e] <= s
  <2>1. CASE e = b
    <3>1. ASSUME NEW s \in R \cup {b}, e < s PROVE g[e] # Arena /\ g[e] <= s
      <4>1. s \in R /\ p < s BY <3>1, <2>1, <1>1, <1>2
      <4>2. QED BY <4>1, <2>1, SortedLinks
    <3>2. QED BY <3>1, <2>1
  <2>2. CASE e = p
    <3>1. ASSUME NEW s \in R \cup {b}, e < s PROVE b # Arena /\ b <= s
      <4>1. CASE s = b BY <4>1, <1>2
      <4>2. CASE s # b
        <5>1. f[p] # Arena /\ f[p] <= s /\ s \in R BY <3>1, <4>2, <2>2, SortedLinks
        <5>2. s \in Int /\ b < f[p] BY <5>1, <1>1
        <5>3. QED BY <5>1, <5>2, <1>2, <1>3
      <4>3. QED BY <4>1, <4>2
    <3>2. QED BY <3>1, <2>2
  <2>3. CASE e # b /\ e # p
    <3>1. e \in R /\ e \in Int /\ g[e] = f[e] /\ f[e] \in R /\ f[e] \in Int
      BY <2>3, <1>1, SortedLinks
    <3>2. f[e] # Arena => e < f[e] BY <3>1, SortedLinks
    <3>3. ASSUME NEW s \in R \cup {b}, e < s PROVE f[e] # Arena /\ f[e] <= s
      <4>1. CASE s \in R BY <4>1, <3>1, <3>3, SortedLinks
      <4>2. CASE s = b
        <5>1. ~(p < e)
          <6>1. SUFFICES ASSUME p < e PROVE FALSE OBVIOUS
          <6>2. f[p] # Arena /\ f[p] <= e BY <6>1, <3>1, SortedLinks
          <6>3. b < f[p] /\ e < b BY <6>2, <3>3, <4>2
          <6>4. QED BY <6>2, <6>3, <3>1, <1>2, <1>3
        <5>2. e < p BY <5>1, <2>3, <3>1, <1>3
        <5>3. f[e] # Arena /\ f[e] <= p BY <5>2, <3>1, SortedLinks
        <5>4. f[e] <= b BY <5>3, <3>1, <1>2, <1>3
        <5>5. QED BY <5>3, <5>4, <4>2
      <4>3. QED BY <4>1, <4>2
    <3>4. QED BY <3>1, <3>2, <3>3
  <2>4. QED BY <2>1, <2>2, <2>3
<1>6. QED BY <1>1, <1>4, <1>5 DEF Sorted

\* The block x behind p is unlinked.
LEMMA SortedDel ==
  ASSUME NEW f, NEW R, Sorted(f, R), NEW p \in R, NEW x \in R, x # Arena, f[p] = x,
         NEW g, DOMAIN g = R \ {x}, g = [e \in DOMAIN g |-> g[e]], g[p] = f[x],
         \A e \in R : e # p /\ e # x => g[e] = f[e]
  PROVE  Sorted(g, R \ {x})
<1>1. R \subseteq Int /\ Arena \in R BY SortedType
<1>2. p < x /\ p # x
  <2>1. p < x BY SortedLinks
  <2>2. QED BY <2>1, <1>1
<1>3. \A e \in R : f[e] \in R BY SortedLinks
<1>4. f[x] # x
  <2>1. f[x] # Arena => x < f[x] BY SortedLinks
  <2>2. QED BY <2>1, <1>1, <1>3
<1>5. ASSUME NEW e \in R \ {x}
      PROVE  /\ g[e] \in R \ {x}
             /\ g[e] # Arena => e < g[e]
             /\ \A s \in R \ {x} : e < s => g[e] # Arena /\ g[e] <= s
  <2>1. CASE e = p
    <3>1. g[e] = f[x] /\ g[e] \in R \ {x} BY <2>1, <1>3, <1>4
    <3>2. ASSUME f[x] # Arena PROVE e < f[x]
      <4>1. x < f[x] BY <3>2, SortedLinks
      <4>2. QED BY <4>1, <2>1, <1>1, <1>2, <1>3
    <3>3. ASSUME NEW s \in R \ {x}, e < s PROVE f[x] # Arena /\ f[x] <= s
      <4>1. x <= s BY <3>3, <2>1, SortedLinks
      <4>2. x < s BY <4>1, <1>1
      <4>3. QED BY <4>2, SortedLinks
    <3>4. QED BY <3>1, <3>2, <3>3
  <2>2. CASE e # p
    <3>1. g[e] = f[e] BY <2>2
    <3>2. f[e] # x
      <4>1. SUFFICES ASSUME f[e] = x PROVE FALSE OBVIOUS
      <4>2. QED BY <4>1, <2>2, SortedInjective
    <3>3. QED BY <3>1, <3>2, <1>3, SortedLinks
  <2>3. QED BY <2>1, <2>2
<1>6. R \ {x} \subseteq 0 .. Top \cup {Arena} BY DEF Sorted
<1>7. g \in [R \ {x} -> R \ {x}] BY <1>5
<1>8. QED BY <1>1, <1>5, <1>6, <1>7 DEF Sorted

-----------------------------------------------------------------------------
(* The blocks of the heap, used and free.                                  *)

\* Blocks of the lengths u begin at B, do not overlap and make up W.
Cells(u, B, W) ==
  /\ B \subseteq Int /\ W \subseteq Int
  /\ \A b \in B : /\ u[b] \in Nat /\ u[b] >= 1
                  /\ \A x \in Int : b <= x /\ x < b + u[b] => x \in W
  /\ \A x \in W : \E b \in B : b <= x /\ x < b + u[b]
  /\ \A b, c \in B : b < c => b + u[b] <= c

\* A block b of n units is new.
LEMMA CellsAdd ==
  ASSUME NEW u, NEW B, NEW W, Cells(u, B, W), NEW b \in Int, NEW n \in Nat, n >= 1,
         Run(b, n) \cap W = {},
         NEW v, v[b] = n, \A c \in B : v[c] = u[c]
  PROVE  Cells(v, B \cup {b}, W \cup Run(b, n)) /\ b \notin B
<1>1. \A x \in Int : x \in Run(b, n) <=> b <= x /\ x < b + n BY RunIs
<1>2. Run(b, n) \subseteq Int BY DEF Run
<1>3. /\ B \subseteq Int /\ W \subseteq Int
      /\ \A c \in B : c \in Int /\ u[c] \in Nat /\ u[c] >= 1
      /\ \A c \in B : \A x \in Int : c <= x /\ x < c + u[c] => x \in W
      /\ \A x \in W : \E c \in B : c <= x /\ x < c + u[c]
      /\ \A c, d \in B : c < d => c + u[c] <= d
  BY DEF Cells
<1>4. \A c \in B : c \in W BY <1>3
<1>5. \A x \in Int : b <= x /\ x < b + n => x \notin W BY <1>1
<1>6. b \notin B BY <1>4, <1>5
<1>7. ASSUME NEW c \in B PROVE (c < b => c + u[c] <= b) /\ (b < c => b + n <= c)
  <2>1. c < b => c + u[c] <= b
    <3>1. SUFFICES ASSUME c < b, c + u[c] > b PROVE FALSE BY <1>3
    <3>2. b \in W BY <3>1, <1>3
    <3>3. QED BY <3>2, <1>5
  <2>2. b < c => b + n <= c
    <3>1. SUFFICES ASSUME b < c, b + n > c PROVE FALSE BY <1>3
    <3>2. c \notin W BY <3>1, <1>3, <1>5
    <3>3. QED BY <3>2, <1>4
  <2>3. QED BY <2>1, <2>2
<1>8. ASSUME NEW c \in B \cup {b}
      PROVE  /\ v[c] \in Nat /\ v[c] >= 1
             /\ \A x \in Int : c <= x /\ x < c + v[c] => x \in W \cup Run(b, n)
  <2>1. CASE c = b BY <2>1, <1>1
  <2>2. CASE c # b BY <2>2, <1>3
  <2>3. QED BY <2>1, <2>2
<1>9. ASSUME NEW x \in W \cup Run(b, n) PROVE \E c \in B \cup {b} : c <= x /\ x < c + v[c]
  <2>1. CASE x \in W BY <2>1, <1>3
  <2>2. CASE x \in Run(b, n) BY <2>2, <1>1, <1>2
  <2>3. QED BY <2>1, <2>2
<1>10. ASSUME NEW c \in B \cup {b}, NEW d \in B \cup {b}, c < d PROVE c + v[c] <= d
  <2>1. CASE c = b
    <3>1. d \in B BY <2>1, <1>10
    <3>2. QED BY <3>1, <2>1, <1>7, <1>10
  <2>2. CASE c # b /\ d = b BY <2>2, <1>7, <1>10
  <2>3. CASE c # b /\ d # b BY <2>3, <1>3, <1>10
  <2>4. QED BY <2>1, <2>2, <2>3
<1>11. B \cup {b} \subseteq Int /\ W \cup Run(b, n) \subseteq Int BY <1>2, <1>3
<1>12. Cells(v, B \cup {b}, W \cup Run(b, n)) BY <1>8, <1>9, <1>10, <1>11 DEF Cells
<1>13. QED BY <1>6, <1>12

\* The block y becomes part of x, on which it borders.
LEMMA CellsJoin ==
  ASSUME NEW u, NEW B, NEW W, Cells(u, B, W), NEW x \in B, NEW y \in B, x + u[x] = y,
         NEW v, v[x] = u[x] + u[y], \A c \in B : c # x /\ c # y => v[c] = u[c]
  PROVE  Cells(v, B \ {y}, W) /\ x # y
<1>1. /\ B \subseteq Int /\ W \subseteq Int
      /\ \A c \in B : c \in Int /\ u[c] \in Nat /\ u[c] >= 1
      /\ \A c \in B : \A z \in Int : c <= z /\ z < c + u[c] => z \in W
      /\ \A z \in W : \E c \in B : c <= z /\ z < c + u[c]
      /\ \A c, d \in B : c < d => c + u[c] <= d
  BY DEF Cells
<1>2. x < y /\ x # y BY <1>1
<1>3. ASSUME NEW c \in B \ {y}
      PROVE  /\ v[c] \in Nat /\ v[c] >= 1
             /\ \A z \in Int : c <= z /\ z < c + v[c] => z \in W
  <2>1. CASE c = x
    <3>1. v[c] \in Nat /\ v[c] >= 1 BY <2>1, <1>1
    <3>2. ASSUME NEW z \in Int, c <= z, z < c + v[c] PROVE z \in W
      <4>1. CASE z < y BY <4>1, <3>2, <2>1, <1>1
      <4>2. CASE ~(z < y)
        <5>1. y <= z /\ z < y + u[y] BY <4>2, <3>2, <2>1, <1>1
        <5>2. QED BY <5>1, <1>1
      <4>3. QED BY <4>1, <4>2
    <3>3. QED BY <3>1, <3>2
  <2>2. CASE c # x BY <2>2, <1>1
  <2>3. QED BY <2>1, <2>2
<1>4. ASSUME NEW z \in W PROVE \E c \in B \ {y} : c <= z /\ z < c + v[c]
  <2>1. PICK c \in B : c <= z /\ z < c + u[c] BY <1>1
  <2>2. CASE c = y
    <3>1. x <= z /\ z < x + v[x] BY <2>1, <2>2, <1>1, <1>2
    <3>2. QED BY <3>1, <1>2
  <2>3. CASE c = x
    <3>1. z < x + v[x] BY <2>1, <2>3, <1>1
    <3>2. QED BY <3>1, <2>1, <2>3, <1>2
  <2>4. CASE c # x /\ c # y BY <2>1, <2>4
  <2>5. QED BY <2>2, <2>3, <2>4
<1>5. ASSUME NEW c \in B \ {y}, NEW d \in B \ {y}, c < d PROVE c + v[c] <= d
  <2>1. CASE c = x
    <3>1. y <= d BY <2>1, <1>1, <1>5
    <3>2. y < d BY <3>1, <1>1
    <3>3. y + u[y] <= d BY <3>2, <1>1
    <3>4. QED BY <3>3, <2>1, <1>1
  <2>2. CASE c # x BY <2>2, <1>1, <1>5
  <2>3. QED BY <2>1, <2>2
<1>6. Cells(v, B \ {y}, W) BY <1>1, <1>3, <1>4, <1>5 DEF Cells
<1>7. QED BY <1>2, <1>6

\* A block x is cut in two behind its first n units.
LEMMA CellsSplit ==
  ASSUME NEW u, NEW B, NEW W, Cells(u, B, W), NEW x \in B, NEW n \in Nat, n >= 1, n < u[x],
         NEW v, v[x] = n, v[x + n] = u[x] - n, \A c \in B : c # x => v[c] = u[c]
  PROVE  Cells(v, B \cup {x + n}, W) /\ x + n \notin B
<1> DEFINE y == x + n
<1>1. /\ B \subseteq Int /\ W \subseteq Int
      /\ \A c \in B : c \in Int /\ u[c] \in Nat /\ u[c] >= 1
      /\ \A c \in B : \A z \in Int : c <= z /\ z < c + u[c] => z \in W
      /\ \A z \in W : \E c \in B : c <= z /\ z < c + u[c]
      /\ \A c, d \in B : c < d => c + u[c] <= d
  BY DEF Cells
<1>2. y \in Int /\ x \in Int /\ x < y /\ y < x + u[x] /\ y + v[y] = x + u[x] /\ y = x + v[x]
      /\ v[y] \in Nat /\ v[y] >= 1
  BY <1>1
<1> HIDE DEF y
<1>3. \A c \in B : c # x => c # y /\ (c < y => c < x) /\ (x < c => y < c)
  <2>1. ASSUME NEW c \in B, c # x PROVE c # y /\ (c < y => c < x) /\ (x < c => y < c)
    <3>1. CASE c < x BY <3>1, <1>1, <1>2
    <3>2. CASE x < c
      <4>1. x + u[x] <= c BY <3>2, <1>1
      <4>2. QED BY <4>1, <3>2, <1>1, <1>2
    <3>3. QED BY <3>1, <3>2, <2>1, <1>1, <1>2
  <2>2. QED BY <2>1
<1>4. y \notin B BY <1>2, <1>3
<1>5. ASSUME NEW c \in B \cup {y}
      PROVE  /\ v[c] \in Nat /\ v[c] >= 1
             /\ \A z \in Int : c <= z /\ z < c + v[c] => z \in W
  <2>1. CASE c = x
    <3>1. \A z \in Int : z < x + v[x] => z < x + u[x] BY <1>1, <1>2
    <3>2. QED BY <3>1, <2>1, <1>1
  <2>2. CASE c = y
    <3>1. \A z \in Int : y <= z /\ z < y + v[y] => x <= z /\ z < x + u[x] BY <1>1, <1>2
    <3>2. QED BY <3>1, <2>2, <1>1, <1>2
  <2>3. CASE c # x /\ c # y BY <2>3, <1>1
  <2>4. QED BY <2>1, <2>2, <2>3
<1>6. ASSUME NEW z \in W PROVE \E c \in B \cup {y} : c <= z /\ z < c + v[c]
  <2>1. PICK c \in B : c <= z /\ z < c + u[c] BY <1>1
  <2>2. CASE c = x
    <3>1. z \in Int BY <1>1
    <3>2. z < y \/ y <= z BY <3>1, <1>2
    <3>3. QED BY <2>1, <2>2, <3>1, <3>2, <1>2
  <2>3. CASE c # x BY <2>1, <2>3
  <2>4. QED BY <2>2, <2>3
<1>7. ASSUME NEW c \in B \cup {y}, NEW d \in B \cup {y}, c < d PROVE c + v[c] <= d
  <2>1. CASE c = x
    <3>1. CASE d = y BY <3>1, <2>1, <1>2
    <3>2. CASE d # y
      <4>1. d \in B /\ d # x /\ x < d BY <3>2, <2>1, <1>7, <1>1
      <4>2. y < d BY <4>1, <1>3
      <4>3. QED BY <4>1, <4>2, <2>1, <1>1, <1>2
    <3>3. QED BY <3>1, <3>2
  <2>2. CASE c = y
    <3>1. d \in B /\ d # x /\ x < d BY <2>2, <1>1, <1>2, <1>7
    <3>2. x + u[x] <= d BY <3>1, <1>1
    <3>3. QED BY <3>2, <2>2, <1>2
  <2>3. CASE c # x /\ c # y
    <3>1. c \in B /\ v[c] = u[c] BY <2>3
    <3>2. CASE d = y
      <4>1. c < x BY <3>1, <3>2, <2>3, <1>3, <1>7
      <4>2. c + u[c] <= x BY <4>1, <3>1, <1>1
      <4>3. QED BY <4>2, <3>1, <3>2, <1>1, <1>2
    <3>3. CASE d # y BY <3>1, <3>3, <1>1, <1>7
    <3>4. QED BY <3>2, <3>3
  <2>4. QED BY <2>1, <2>2, <2>3
<1>8. Cells(v, B \cup {y}, W) BY <1>1, <1>2, <1>5, <1>6, <1>7 DEF Cells
<1>9. QED BY <1>4, <1>8 DEF y

-----------------------------------------------------------------------------
(* The heap: its ring and the blocks in use.                               *)

\* H is a ring whose blocks, with the blocks A in use, make up the units W
\* and of which no two border on each other.
HeapOK(H, A, W) ==
  /\ IsRing(H)
  /\ A \subseteq DOMAIN H.units /\ A \cap Ring(H) = {}
  /\ W \subseteq 0 .. Top
  /\ Cells(H.units, (Ring(H) \ {Arena}) \cup A, W)
  /\ \A a, c \in Ring(H) : a < c => a + H.units[a] # c

\* The blocks in use, and the units of the pages g.
Used == {o.at - 1 : o \in SmallObjects} \cup {d.bb : d \in bigblocks}
HeapUnits(g) == {x \in 0 .. Top : x \div U \in g}

\* Objects and descriptors lie in blocks of their own, as long as they need;
\* a big object has a descriptor that leads to it.
Holdings ==
  /\ \A o \in objects : o = [at |-> o.at, size |-> o.size] /\ o.at \in Int /\ o.size \in Sizes
  /\ \A o \in SmallObjects : slob.units[o.at - 1] = o.size + 1
  /\ \A d \in bigblocks : slob.units[d.bb] = BIGBLOCK
  /\ \A d, e \in bigblocks : d.bb = e.bb => d = e
  /\ \A o \in SmallObjects : \A d \in bigblocks : o.at - 1 # d.bb
  /\ \A o, q \in objects : o.at = q.at => o = q
  /\ \A o \in objects \ SmallObjects :
       \E d \in bigblocks : d.pages * U = o.at /\ d.order = find_order(o.size)

Counted ==
  /\ IsFiniteSet(objects) /\ IsFiniteSet(bigblocks)
  /\ Cardinality(objects) = Cardinality(SmallObjects) + Cardinality(bigblocks)

HeapInv == HeapOK(slob, Used, HeapUnits(grown)) /\ Holdings /\ Counted

\* What the parts of HeapOK say of single blocks.
LEMMA HeapType ==
  ASSUME NEW H, NEW A, NEW W, HeapOK(H, A, W)
  PROVE  /\ Sorted(H.next, Ring(H)) /\ H.next \in [Ring(H) -> Ring(H)]
         /\ H.slobfree \in Ring(H)
         /\ H.units \in [DOMAIN H.units -> Nat] /\ Ring(H) \subseteq DOMAIN H.units
         /\ H.units[Arena] = 1
         /\ A \subseteq DOMAIN H.units /\ A \cap Ring(H) = {}
         /\ W \subseteq Int /\ W \subseteq 0 .. Top
         /\ Ring(H) \subseteq Int /\ Arena \in Ring(H) /\ A \subseteq Int
         /\ \A a \in A : a \in Nat /\ a \in W /\ H.units[a] >= 1
         /\ \A a \in Ring(H) : a # Arena => a \in Nat /\ a \in W /\ H.units[a] >= 1
         /\ \A a \in DOMAIN H.units : H.units[a] \in Nat
<1> DEFINE B == (Ring(H) \ {Arena}) \cup A
<1>1. /\ IsRing(H) /\ A \subseteq DOMAIN H.units /\ A \cap Ring(H) = {}
      /\ W \subseteq 0 .. Top /\ Cells(H.units, B, W)
  BY DEF HeapOK
<1> HIDE DEF B
<1>2. /\ Sorted(H.next, Ring(H)) /\ H.slobfree \in Ring(H)
      /\ H.units \in [DOMAIN H.units -> Nat] /\ Ring(H) \subseteq DOMAIN H.units
      /\ H.units[Arena] = 1
  BY <1>1 DEF IsRing
<1>3. H.next \in [Ring(H) -> Ring(H)] BY <1>2, Zenon DEF Sorted
<1>4. Ring(H) \subseteq Int /\ Arena \in Ring(H) BY <1>2, SortedType
<1>5. Top \in Nat BY TopIs
<1>6. W \subseteq Int /\ \A x \in W : x \in Nat BY <1>1, <1>5
<1>7. ASSUME NEW b \in B PROVE b \in Nat /\ b \in W /\ H.units[b] >= 1
  <2>1. /\ b \in Int /\ H.units[b] \in Nat /\ H.units[b] >= 1
        /\ \A x \in Int : b <= x /\ x < b + H.units[b] => x \in W
    BY <1>1 DEF Cells
  <2>2. b \in W BY <2>1
  <2>3. QED BY <2>1, <2>2, <1>6
<1>8. \A a \in A : a \in B BY DEF B
<1>9. \A a \in Ring(H) : a # Arena => a \in B BY DEF B
<1>10. A \subseteq Int BY <1>7, <1>8
<1>11. \A a \in DOMAIN H.units : H.units[a] \in Nat BY <1>2
<1>12. QED BY <1>1, <1>2, <1>3, <1>4, <1>6, <1>7, <1>8, <1>9, <1>10, <1>11

\* Blocks of the heap lie one behind the other.
LEMMA HeapApart ==
  ASSUME NEW H, NEW A, NEW W, HeapOK(H, A, W),
         NEW b \in Ring(H) \cup A, NEW c \in Ring(H) \cup A, b < c
  PROVE  b + H.units[b] <= c
<1>1. Ring(H) \subseteq Int /\ Arena \in Int /\ A \subseteq Int /\ H.units[Arena] = 1 /\ Arena = -2
      /\ \A a \in Ring(H) \cup A : a # Arena => a \in Nat
  BY HeapType DEF Arena
<1>2. CASE b = Arena
  <2>1. c \in Nat BY <1>1, <1>2
  <2>2. QED BY <1>1, <1>2, <2>1
<1>3. CASE b # Arena
  <2>1. c # Arena
    <3>1. b \in Nat /\ c \in Int BY <1>1, <1>3
    <3>2. QED BY <3>1, <1>1
  <2> DEFINE B == (Ring(H) \ {Arena}) \cup A
  <2>2. b \in B /\ c \in B BY <1>3, <2>1
  <2>3. Cells(H.units, B, W) BY DEF HeapOK
  <2> HIDE DEF B
  <2>4. QED BY <2>2, <2>3 DEF Cells
<1>4. QED BY <1>2, <1>3

\* A block in use that is no longer counted.
LEMMA CellsDel ==
  ASSUME NEW u, NEW B, NEW W, Cells(u, B, W), NEW b \in B, NEW n \in Nat, n = u[b]
  PROVE  Cells(u, B \ {b}, W \ Run(b, n))
<1>1. /\ B \subseteq Int /\ W \subseteq Int
      /\ \A c \in B : c \in Int /\ u[c] \in Nat /\ u[c] >= 1
      /\ \A c \in B : \A z \in Int : c <= z /\ z < c + u[c] => z \in W
      /\ \A z \in W : \E c \in B : c <= z /\ z < c + u[c]
      /\ \A c, d \in B : c < d => c + u[c] <= d
  BY DEF Cells
<1>2. \A x \in Int : x \in Run(b, n) <=> b <= x /\ x < b + n BY <1>1, RunIs
<1>3. ASSUME NEW c \in B \ {b}, NEW z \in Int, c <= z, z < c + u[c]
      PROVE  z \in W \ Run(b, n)
  <2>1. z \in W BY <1>1, <1>3
  <2>2. c < b \/ b < c BY <1>1
  <2>3. c < b => c + u[c] <= b BY <1>1
  <2>4. b < c => b + u[b] <= c BY <1>1
  <2>5. c \in Int /\ b \in Int /\ u[c] \in Int BY <1>1
  <2>6. ~(b <= z /\ z < b + n) BY <2>2, <2>3, <2>4, <2>5, <1>3
  <2>7. QED BY <2>1, <2>6, <1>2
<1>4. ASSUME NEW z \in W \ Run(b, n) PROVE \E c \in B \ {b} : c <= z /\ z < c + u[c]
  <2>1. PICK c \in B : c <= z /\ z < c + u[c] BY <1>1
  <2>2. c # b BY <2>1, <1>1, <1>2
  <2>3. QED BY <2>1, <2>2
<1>5. QED BY <1>1, <1>3, <1>4 DEF Cells

LEMMA ForgetBlock ==
  ASSUME NEW H, NEW A, NEW W, HeapOK(H, A, W), NEW b \in A
  PROVE  LET n == H.units[b]
         IN  /\ n \in Nat /\ n >= 1 /\ Run(b, n) \subseteq W
             /\ HeapOK(H, A \ {b}, W \ Run(b, n))
<1> DEFINE B == (Ring(H) \ {Arena}) \cup A
           n == H.units[b]
<1>1. n \in Nat /\ n >= 1 /\ b \in Int /\ b \in B /\ b \notin Ring(H) BY HeapType
<1>1a. n = H.units[b] OBVIOUS
<1>2. B \ {b} = (Ring(H) \ {Arena}) \cup (A \ {b}) BY <1>1
<1>3. Cells(H.units, B, W) BY DEF HeapOK
<1> HIDE DEF B, n
<1>4. Cells(H.units, B \ {b}, W \ Run(b, n)) BY <1>1, <1>1a, <1>3, CellsDel
<1>5. Run(b, n) \subseteq W
  <2>1. \A x \in Int : x \in Run(b, n) <=> b <= x /\ x < b + n BY <1>1, RunIs
  <2>2. Run(b, n) \subseteq Int BY <1>1 DEF Run
  <2>3. \A x \in Int : b <= x /\ x < b + n => x \in W BY <1>1, <1>1a, <1>3 DEF Cells
  <2>4. QED BY <2>1, <2>2, <2>3
<1>6. HeapOK(H, A \ {b}, W \ Run(b, n))
  <2>1. Cells(H.units, (Ring(H) \ {Arena}) \cup (A \ {b}), W \ Run(b, n)) BY <1>2, <1>4
  <2>2. /\ IsRing(H) /\ A \subseteq DOMAIN H.units /\ A \cap Ring(H) = {} /\ W \subseteq 0 .. Top
        /\ \A a, c \in Ring(H) : a < c => a + H.units[a] # c
    BY DEF HeapOK
  <2>3. QED BY <2>1, <2>2 DEF HeapOK
<1>7. QED BY <1>1, <1>5, <1>6 DEF n

\* What slob_alloc finds: a block that is long enough, and the one before it.
LEMMA FoundIs ==
  ASSUME NEW H, IsRing(H), NEW n \in Nat, n >= 2, Room(H, n) # {}
  PROVE  LET prev == Walk(H)[Least(Room(H, n)) - 1]
             cur  == Found(H, n)
         IN  /\ prev \in Ring(H) /\ cur \in Ring(H) /\ H.next[prev] = cur
             /\ H.units[cur] >= n /\ cur # Arena
<1> DEFINE m == Cardinality(Ring(H))
           w == Walk(H)
           k == Least(Room(H, n))
<1>1. /\ m \in Nat /\ w \in [0 .. m -> Ring(H)]
      /\ \A i \in 1 .. m : w[i] = H.next[w[i - 1]]
  BY RingWalkIs
<1>2. Room(H, n) = {i \in 1 .. m : H.units[w[i]] >= n} BY DEF Room
<1>3. k \in Room(H, n)
  <2>1. Room(H, n) \in SUBSET Nat BY <1>1, <1>2
  <2>2. QED BY <2>1, NatLeast
<1>4. Found(H, n) = w[k] BY DEF Found
<1> HIDE DEF m, w, k
<1>5. k \in 1 .. m /\ H.units[w[k]] >= n BY <1>2, <1>3
<1>6. k \in 0 .. m /\ k - 1 \in 0 .. m BY <1>1, <1>5
<1>7. w[k - 1] \in Ring(H) /\ w[k] \in Ring(H) /\ H.next[w[k - 1]] = w[k] BY <1>1, <1>5, <1>6
<1>8. w[k] # Arena
  <2>1. H.units[Arena] = 1 BY DEF IsRing
  <2>2. QED BY <2>1, <1>5
<1>9. QED BY <1>4, <1>5, <1>7, <1>8 DEF w, k

\* A long enough block is found.
LEMMA RoomIs ==
  ASSUME NEW H, IsRing(H), NEW n \in Nat, NEW b \in Ring(H), H.units[b] >= n
  PROVE  Room(H, n) # {}
<1> DEFINE m == Cardinality(Ring(H))
           w == Walk(H)
<1>1. PICK k \in 1 .. m : w[k] = b BY RingWalkIs
<1>2. k \in Room(H, n) BY <1>1 DEF Room
<1>3. QED BY <1>2

\* The first n units of the found block are in use.
LEMMA CutIs ==
  ASSUME NEW H, NEW A, NEW W, HeapOK(H, A, W), NEW n \in Nat, n >= 2, Room(H, n) # {}
  PROVE  LET cur == Found(H, n)
             K   == cut(H, n)
         IN  /\ HeapOK(K, A \cup {cur}, W) /\ K.units[cur] = n
             /\ \A a \in A : K.units[a] = H.units[a]
             /\ cur \notin A /\ cur \in Nat
<1> DEFINE prev == Walk(H)[Least(Room(H, n)) - 1]
           cur  == Found(H, n)
           rest == cur + n
           R    == Ring(H)
           f    == H.next
           u    == H.units
           B    == (R \ {Arena}) \cup A
           K    == cut(H, n)
<1>1. IsRing(H) BY DEF HeapOK
<1>2. /\ prev \in R /\ cur \in R /\ f[prev] = cur /\ u[cur] >= n /\ cur # Arena BY <1>1, FoundIs
<1>3. K = IF u[cur] = n
          THEN [H EXCEPT !.next = Drop(Put(f, prev, f[cur]), cur), !.slobfree = prev]
          ELSE [H EXCEPT !.next = Put(Drop(Put(f, prev, rest), cur), rest, f[cur]),
                         !.units = Put(Put(u, rest, u[cur] - n), cur, n),
                         !.slobfree = prev]
  BY DEF cut
<1>4. H = [next |-> f, units |-> u, slobfree |-> H.slobfree] BY <1>1 DEF IsRing
<1>5. /\ Sorted(f, R) /\ f \in [R -> R] /\ DOMAIN f = R
      /\ u \in [DOMAIN u -> Nat] /\ R \subseteq DOMAIN u /\ u[Arena] = 1
      /\ A \subseteq DOMAIN u /\ A \cap R = {} /\ W \subseteq Int /\ W \subseteq 0 .. Top
      /\ R \subseteq Int /\ Arena \in R /\ A \subseteq Int
      /\ \A a \in A : a \in Nat
      /\ \A a \in R : a # Arena => a \in Nat
      /\ \A a \in DOMAIN u : u[a] \in Nat
      /\ Cells(u, B, W)
      /\ \A a, c \in R : a < c => a + u[a] # c
  <2>1. DOMAIN f = R BY DEF Ring
  <2>2. /\ Cells(u, B, W)
        /\ \A a, c \in R : a < c => a + u[a] # c
    BY DEF HeapOK
  <2> HIDE DEF f, R, u, B
  <2>3. /\ Sorted(f, R) /\ f \in [R -> R]
        /\ u \in [DOMAIN u -> Nat] /\ R \subseteq DOMAIN u /\ u[Arena] = 1
        /\ A \subseteq DOMAIN u /\ A \cap R = {} /\ W \subseteq Int /\ W \subseteq 0 .. Top
        /\ R \subseteq Int /\ Arena \in R /\ A \subseteq Int
        /\ \A a \in A : a \in Nat
        /\ \A a \in R : a # Arena => a \in Nat
        /\ \A a \in DOMAIN u : u[a] \in Nat
    BY HeapType DEF f, R, u
  <2>4. QED BY <2>1, <2>2, <2>3
<1>6. Arena = -2 BY DEF Arena
<1>7. \A a \in R \cup A : \A c \in R \cup A : a < c => a + u[a] <= c BY HeapApart
<1> HIDE DEF prev, cur, rest, R, f, u, B, K
<1>8. cur \in Nat /\ cur \notin A /\ cur \in Int /\ prev \in Int BY <1>2, <1>5
<1>9. prev < cur BY <1>2, <1>5, SortedLinks
<1>10. prev # cur BY <1>8, <1>9
\* The ring without the block.
<1> DEFINE g == Drop(Put(f, prev, f[cur]), cur)
<1>11. /\ DOMAIN g = R \ {cur} /\ g = [e \in DOMAIN g |-> g[e]] /\ g[prev] = f[cur]
       /\ \A e \in R : e # prev /\ e # cur => g[e] = f[e]
  <2> DEFINE f1 == Put(f, prev, f[cur])
  <2>1. DOMAIN f1 = R /\ f1[prev] = f[cur] /\ \A e \in R : e # prev => f1[e] = f[e]
    BY <1>2, <1>5 DEF Put
  <2>2. /\ DOMAIN g = DOMAIN f1 \ {cur} /\ g = [e \in DOMAIN g |-> g[e]]
        /\ \A e \in DOMAIN f1 : e # cur => g[e] = f1[e]
    BY DEF Drop
  <2> HIDE DEF f1, g
  <2>3. QED BY <2>1, <2>2, <1>2, <1>10
<1> HIDE DEF g
<1>12. Sorted(g, R \ {cur}) BY <1>2, <1>5, <1>11, SortedDel
<1>13. CASE u[cur] = n
  <2>1. K = [next |-> g, units |-> u, slobfree |-> prev]
    <3>1. K = [H EXCEPT !.next = g, !.slobfree = prev] BY <1>3, <1>13 DEF g
    <3> DEFINE rover == H.slobfree
    <3>2. H = [next |-> f, units |-> u, slobfree |-> rover] BY <1>4
    <3> HIDE DEF rover
    <3>3. QED BY <3>1, <3>2
  <2>2. K.next = g /\ K.units = u /\ K.slobfree = prev /\ Ring(K) = R \ {cur}
    BY <2>1, <1>11 DEF Ring
  <2>3. IsRing(K)
    <3>1. prev \in R \ {cur} /\ R \ {cur} \subseteq DOMAIN u BY <1>2, <1>5, <1>10
    <3>2. K = [next |-> K.next, units |-> K.units, slobfree |-> K.slobfree] BY <2>1, <2>2
    <3>3. QED BY <2>2, <3>1, <3>2, <1>5, <1>12 DEF IsRing
  <2>4. ((R \ {cur}) \ {Arena}) \cup (A \cup {cur}) = B BY <1>2 DEF B
  <2>5. A \cup {cur} \subseteq DOMAIN u /\ (A \cup {cur}) \cap (R \ {cur}) = {} BY <1>2, <1>5
  <2>6. \A a, c \in R \ {cur} : a < c => a + u[a] # c BY <1>5
  <2>7. HeapOK(K, A \cup {cur}, W)
    <3>1. /\ A \cup {cur} \subseteq DOMAIN K.units /\ (A \cup {cur}) \cap Ring(K) = {}
          /\ Cells(K.units, (Ring(K) \ {Arena}) \cup (A \cup {cur}), W)
          /\ \A a, c \in Ring(K) : a < c => a + K.units[a] # c
      BY <2>2, <2>4, <2>5, <2>6, <1>5
    <3>2. QED BY <3>1, <2>3, <1>5 DEF HeapOK
  <2>8. QED BY <2>2, <2>7, <1>8, <1>13 DEF cur, K, u
<1>14. CASE u[cur] # n
  <2> DEFINE h == Put(Drop(Put(f, prev, rest), cur), rest, f[cur])
             v == Put(Put(u, rest, u[cur] - n), cur, n)
  <2>1. K = [next |-> h, units |-> v, slobfree |-> prev] BY <1>3, <1>4, <1>14
  <2>2. u[cur] \in Nat /\ n < u[cur] BY <1>2, <1>5, <1>14
  <2>3. rest \in Int /\ rest = cur + n /\ rest # cur /\ cur < rest /\ rest < cur + u[cur]
        /\ rest \in Nat /\ rest # Arena
    BY <2>2, <1>6, <1>8 DEF rest
  <2>4. /\ DOMAIN v = DOMAIN u \cup {cur, rest} /\ v[cur] = n /\ v[rest] = u[cur] - n
        /\ \A a \in DOMAIN u : a # cur /\ a # rest => v[a] = u[a]
    <3> DEFINE u1 == Put(u, rest, u[cur] - n)
    <3>1. /\ DOMAIN u1 = DOMAIN u \cup {rest} /\ u1[rest] = u[cur] - n
          /\ \A a \in DOMAIN u : a # rest => u1[a] = u[a]
      BY DEF Put
    <3>2. /\ DOMAIN v = DOMAIN u1 \cup {cur} /\ v[cur] = n
          /\ \A a \in DOMAIN u1 : a # cur => v[a] = u1[a]
      BY DEF Put
    <3> HIDE DEF u1, v
    <3>3. QED BY <3>1, <3>2, <2>3
  <2>4a. v = [a \in DOMAIN v |-> v[a]] BY DEF Put
  <2> HIDE DEF v
  <2>5. cur \in B /\ B \subseteq DOMAIN u BY <1>2, <1>5 DEF B
  <2>6. Cells(v, B \cup {rest}, W) /\ rest \notin B
    <3>1. ASSUME NEW c \in B PROVE c # cur /\ c # rest => v[c] = u[c] BY <2>4, <2>5
    <3>2. rest \notin B
      <4>1. SUFFICES ASSUME rest \in B PROVE FALSE OBVIOUS
      <4>2. cur + u[cur] <= rest BY <4>1, <2>3, <2>5, <1>5 DEF Cells
      <4>3. QED BY <4>2, <2>2, <2>3, <1>8
    <3>3. \A c \in B : c # cur => v[c] = u[c] BY <3>1, <3>2
    <3>4. v[cur + n] = u[cur] - n BY <2>3, <2>4
    <3>5. n >= 1 /\ v[cur] = n /\ Cells(u, B, W) BY <2>4, <1>5
    <3>5a. Cells(v, B \cup {cur + n}, W)
      BY <3>3, <3>4, <3>5, <2>2, <2>5, CellsSplit
    <3>6. QED BY <3>2, <3>5a, <2>3
  <2>7. rest \notin R /\ rest \notin A BY <2>3, <2>6 DEF B
  <2>8. rest \in 0 .. Top
    <3>1. \A x \in Int : cur <= x /\ x < cur + u[cur] => x \in W BY <2>5, <1>5 DEF Cells
    <3>2. cur <= rest BY <2>3, <1>8
    <3>3. rest \in W BY <3>1, <3>2, <2>3
    <3>4. QED BY <3>3, <1>5
  <2>9. /\ DOMAIN h = (R \ {cur}) \cup {rest} /\ h = [e \in DOMAIN h |-> h[e]]
        /\ h[rest] = f[cur] /\ h[prev] = rest
        /\ \A e \in R : e # prev /\ e # cur => h[e] = f[e]
    <3> DEFINE f1 == Put(f, prev, rest)
               f2 == Drop(f1, cur)
    <3>1. DOMAIN f1 = R /\ f1[prev] = rest /\ \A e \in R : e # prev => f1[e] = f[e]
      BY <1>2, <1>5 DEF Put
    <3>2. DOMAIN f2 = DOMAIN f1 \ {cur} /\ \A e \in DOMAIN f1 : e # cur => f2[e] = f1[e]
      BY DEF Drop
    <3>3. /\ DOMAIN h = DOMAIN f2 \cup {rest} /\ h[rest] = f[cur]
          /\ \A e \in DOMAIN f2 : e # rest => h[e] = f2[e]
          /\ h = [e \in DOMAIN h |-> h[e]]
      BY DEF Put
    <3> HIDE DEF f1, f2, h
    <3>4. DOMAIN f2 = R \ {cur} /\ prev \in R \ {cur} BY <3>1, <3>2, <1>2, <1>10
    <3>5. h[prev] = rest BY <3>1, <3>2, <3>3, <3>4, <2>7
    <3>6. ASSUME NEW e \in R, e # prev, e # cur PROVE h[e] = f[e]
      BY <3>1, <3>2, <3>3, <3>4, <3>6, <2>7
    <3>7. QED BY <3>3, <3>4, <3>5, <3>6
  <2> HIDE DEF h
  <2> DEFINE Q == R \ {cur}
  <2>10. Sorted(h, Q \cup {rest})
    <3>1. prev \in Q /\ rest \notin Q /\ prev < rest BY <2>3, <2>7, <1>2, <1>8, <1>9, <1>10
    <3>2. g[prev] # Arena => rest < g[prev]
      <4>1. SUFFICES ASSUME f[cur] # Arena PROVE rest < f[cur] BY <1>11
      <4>2. f[cur] \in R /\ f[cur] \in Int /\ cur < f[cur] BY <4>1, <1>2, <1>5, SortedLinks
      <4>3. cur + u[cur] <= f[cur] BY <4>2, <1>2, <1>7
      <4>4. QED BY <4>2, <4>3, <2>2, <2>3, <1>8
    <3>3. \A e \in Q : g[e] \in Q BY <1>12, SortedLinks
    <3>4. h[prev] = rest /\ h[rest] = g[prev] /\ \A e \in Q : e # prev => h[e] = g[e]
      BY <2>9, <1>11
    <3>5. h \in [Q \cup {rest} -> Q \cup {rest}]
      <4>1. ASSUME NEW e \in Q \cup {rest} PROVE h[e] \in Q \cup {rest} BY <3>1, <3>3, <3>4
      <4>2. DOMAIN h = Q \cup {rest} /\ h = [e \in DOMAIN h |-> h[e]] BY <2>9
      <4> HIDE DEF Q
      <4>3. QED BY <4>1, <4>2
    <3>6. Sorted(g, Q) BY <1>12
    <3> HIDE DEF Q
    <3>7. QED BY <3>1, <3>2, <3>4, <3>5, <3>6, <2>8, SortedAdd
  <2>11. K.next = h /\ K.units = v /\ K.slobfree = prev /\ Ring(K) = Q \cup {rest}
    BY <2>1, <2>9 DEF Ring
  <2>12. IsRing(K)
    <3>1. prev \in Q \cup {rest} /\ Q \cup {rest} \subseteq DOMAIN v
      BY <2>4, <1>2, <1>5, <1>10
    <3>2. K = [next |-> K.next, units |-> K.units, slobfree |-> K.slobfree] BY <2>1, <2>11
    <3>3. v[Arena] = 1 BY <2>3, <2>4, <1>2, <1>5
    <3>4. v \in [DOMAIN v -> Nat]
      <4>1. u[cur] - n \in Nat BY <2>2
      <4>2. ASSUME NEW a \in DOMAIN v PROVE v[a] \in Nat BY <4>1, <2>4, <1>5
      <4>3. QED BY <4>2, <2>4a
    <3>5. QED BY <2>10, <2>11, <3>1, <3>2, <3>3, <3>4 DEF IsRing
  <2>13. ((Q \cup {rest}) \ {Arena}) \cup (A \cup {cur}) = B \cup {rest}
    BY <2>3, <1>2 DEF B
  <2>14. A \cup {cur} \subseteq DOMAIN v /\ (A \cup {cur}) \cap (Q \cup {rest}) = {}
    BY <2>3, <2>4, <2>7, <1>5
  <2>15. ASSUME NEW a \in Q \cup {rest}, NEW c \in Q \cup {rest}, a < c PROVE a + v[a] # c
    <3>1. CASE a = rest
      <4>1. c \in R /\ c \in Int /\ cur < c BY <3>1, <2>3, <2>15, <1>5, <1>8
      <4>2. cur + u[cur] # c BY <4>1, <1>2, <1>5
      <4>3. rest + v[rest] = cur + u[cur] BY <2>2, <2>3, <2>4, <1>8
      <4>4. QED BY <3>1, <4>2, <4>3
    <3>2. CASE a # rest
      <4>1. a \in R /\ a \in Int /\ a # cur /\ u[a] \in Nat /\ v[a] = u[a]
        BY <3>2, <2>4, <1>5
      <4>2. CASE c # rest BY <4>1, <4>2, <2>15, <1>5
      <4>3. CASE c = rest
        <5>1. a < cur
          <6>1. SUFFICES ASSUME cur < a PROVE FALSE BY <4>1, <1>8
          <6>2. cur + u[cur] <= a BY <6>1, <4>1, <1>2, <1>7
          <6>3. QED BY <6>2, <4>1, <4>3, <2>2, <2>3, <2>15, <1>8
        <5>2. a + u[a] <= cur BY <5>1, <4>1, <1>2, <1>7
        <5>3. QED BY <5>2, <4>1, <4>3, <2>3, <1>8
      <4>4. QED BY <4>2, <4>3
    <3>3. QED BY <3>1, <3>2
  <2>16. HeapOK(K, A \cup {cur}, W)
    <3>1. /\ A \cup {cur} \subseteq DOMAIN K.units /\ (A \cup {cur}) \cap Ring(K) = {}
          /\ Cells(K.units, (Ring(K) \ {Arena}) \cup (A \cup {cur}), W)
          /\ \A a, c \in Ring(K) : a < c => a + K.units[a] # c
      BY <2>6, <2>11, <2>13, <2>14, <2>15
    <3>2. QED BY <3>1, <2>12, <1>5 DEF HeapOK
  <2>17. \A a \in A : v[a] = u[a] BY <2>4, <2>7, <1>5, <1>8
  <2>18. QED BY <2>4, <2>11, <2>16, <2>17, <1>8 DEF cur, K, u
<1>15. QED BY <1>13, <1>14

\* slob_free finds the block below b.
LEMMA InsertionIs ==
  ASSUME NEW H, IsRing(H), NEW b \in Nat, b \notin Ring(H)
  PROVE  LET cur == InsertionPoint(H, b)
         IN  cur \in Ring(H) /\ cur < b /\ (H.next[cur] # Arena => b < H.next[cur])
<1> DEFINE m == Cardinality(Ring(H))
           w == Walk(H)
           R == Ring(H)
           f == H.next
           stops(c) == \/ c < b /\ b < f[c]
                       \/ c >= f[c] /\ (b > c \/ b < f[c])
           T == {k \in DOMAIN w : stops(w[k])}
<1>1. /\ m \in Nat /\ w \in [0 .. m -> R] /\ \A c \in R : \E k \in 1 .. m : w[k] = c
  BY RingWalkIs
<1>2. InsertionPoint(H, b) = w[Least(T)] BY DEF InsertionPoint
<1>3. Sorted(f, R) BY DEF IsRing
<1>4. R \subseteq Int /\ Arena \in R /\ Arena \in Int /\ Arena = -2 /\ \A c \in R : Arena <= c
  BY <1>3, SortedType
<1> HIDE DEF m, w, R, f
<1>5. \A c \in R : f[c] \in R /\ f[c] \in Int /\ c \in Int BY <1>3, <1>4, SortedLinks
<1>6. ASSUME NEW c \in R, stops(c) PROVE c < b /\ (f[c] # Arena => b < f[c])
  <2>1. CASE c < b /\ b < f[c] BY <2>1
  <2>2. CASE c >= f[c] /\ (b > c \/ b < f[c])
    <3>1. f[c] = Arena
      <4>1. f[c] # Arena => c < f[c] BY <1>3, SortedLinks
      <4>2. QED BY <4>1, <2>2, <1>5
    <3>2. ~(b < f[c]) BY <3>1, <1>4
    <3>3. c < b BY <3>2, <2>2, <1>5
    <3>4. QED BY <3>1, <3>3
  <2>3. QED BY <1>6, <2>1, <2>2
<1>7. \E c \in R : stops(c)
  <2> DEFINE E == {e \in R : e < b}
  <2>1. E \in SUBSET R /\ Arena \in E BY <1>4
  <2>2. PICK c \in E : \A y \in E : y <= c
    <3> HIDE DEF E
    <3>1. QED BY <2>1, Highest DEF R
  <2>3. c \in R /\ c < b /\ c \in Int /\ f[c] \in R /\ f[c] \in Int BY <2>2, <1>5
  <2>4. CASE f[c] = Arena
    <3>1. c >= f[c] /\ b > c BY <2>3, <2>4, <1>4
    <3>2. QED BY <3>1, <2>3
  <2>5. CASE f[c] # Arena
    <3>1. c < f[c] BY <2>3, <2>5, <1>3, SortedLinks
    <3>2. ~(f[c] < b) BY <3>1, <2>2, <2>3
    <3>3. f[c] # b BY <2>3 DEF R
    <3>4. b < f[c] BY <3>2, <3>3, <2>3
    <3>5. QED BY <3>4, <2>3
  <2>6. QED BY <2>4, <2>5
<1>8. T \in SUBSET Nat /\ T # {}
  <2>1. T \subseteq Nat BY <1>1
  <2>2. PICK c \in R : stops(c) BY <1>7
  <2>3. PICK k \in 1 .. m : w[k] = c BY <1>1
  <2>4. k \in T BY <1>1, <2>2, <2>3
  <2>5. QED BY <2>1, <2>4
<1>9. Least(T) \in T
  <2> HIDE DEF T
  <2>1. QED BY <1>8, NatLeast
<1>10. w[Least(T)] \in R /\ stops(w[Least(T)]) BY <1>1, <1>9
<1>11. QED BY <1>2, <1>6, <1>10 DEF f, R

\* H is a heap in which the block b, between cur and its successor, has its
\* length and its link, while no link leads to it: without b the ring is g.
Hanging(H, A, W, cur, b, g) ==
  LET Q == Ring(H) \ {b} IN
  /\ H = [next |-> H.next, units |-> H.units, slobfree |-> H.slobfree]
  /\ H.next = [e \in Ring(H) |-> H.next[e]]
  /\ b \in Ring(H) /\ b \in 0 .. Top /\ b \notin A /\ cur \in Q /\ cur < b
  /\ Sorted(g, Q) /\ H.next[b] = g[cur] /\ (g[cur] # Arena => b < g[cur])
  /\ \A e \in Q : e # cur => H.next[e] = g[e]
  /\ H.units \in [DOMAIN H.units -> Nat] /\ Ring(H) \subseteq DOMAIN H.units
  /\ H.units[Arena] = 1
  /\ A \subseteq DOMAIN H.units /\ A \cap Q = {} /\ W \subseteq 0 .. Top
  /\ Cells(H.units, (Ring(H) \ {Arena}) \cup A, W)
  /\ \A a, c \in Q : a < c => a + H.units[a] # c
  /\ \A c \in Q : b < c => b + H.units[b] # c

\* The second half of slob_free, which links the block or joins it.
LEMMA JoinPrevIs ==
  ASSUME NEW H, NEW A, NEW W, NEW cur, NEW b, NEW g, Hanging(H, A, W, cur, b, g),
         NEW n \in Nat, H.units[b] >= n
  PROVE  LET K == [join_prev(H, cur, b) EXCEPT !.slobfree = cur]
         IN  /\ HeapOK(K, A, W)
             /\ \A a \in A : K.units[a] = H.units[a]
             /\ \E c \in Ring(K) : K.units[c] >= n
<1> DEFINE Q == Ring(H) \ {b}
           f == H.next
           u == H.units
           rover == H.slobfree
           B == (Ring(H) \ {Arena}) \cup A
           K == [join_prev(H, cur, b) EXCEPT !.slobfree = cur]
<1>1. /\ H = [next |-> f, units |-> u, slobfree |-> rover] /\ f = [e \in DOMAIN f |-> f[e]]
      /\ b \in 0 .. Top /\ b \notin A /\ cur \in Q /\ cur < b
      /\ Sorted(g, Q) /\ f[b] = g[cur] /\ (g[cur] # Arena => b < g[cur])
      /\ \A e \in Q : e # cur => f[e] = g[e]
      /\ u \in [DOMAIN u -> Nat] /\ u[Arena] = 1
      /\ A \subseteq DOMAIN u /\ A \cap Q = {} /\ W \subseteq 0 .. Top
      /\ Cells(u, B, W)
      /\ \A a, c \in Q : a < c => a + u[a] # c
      /\ \A c \in Q : b < c => b + u[b] # c
  BY DEF Hanging, Ring
<1>2. DOMAIN f = Q \cup {b} /\ Q \cup {b} \subseteq DOMAIN u /\ b \notin Q BY DEF Hanging, Ring
<1>3. K = IF cur + u[cur] = b
          THEN [[H EXCEPT !.next = Drop(Put(f, cur, f[b]), b),
                          !.units = Drop(Put(u, cur, u[cur] + u[b]), b)]
                  EXCEPT !.slobfree = cur]
          ELSE [[H EXCEPT !.next = Put(f, cur, b)] EXCEPT !.slobfree = cur]
  BY DEF join_prev
<1>4. B = ((Q \cup {b}) \ {Arena}) \cup A BY <1>2 DEF Ring
<1>5. u[b] >= n OBVIOUS
<1> HIDE DEF Q, f, u, rover, B, K
<1>6. /\ Q \subseteq Int /\ Arena \in Q /\ Arena = -2 /\ \A c \in Q : c # Arena => c \in Nat
      /\ \A e \in Q : g[e] \in Q
  <2>1. Top \in Nat BY TopIs
  <2>2. QED BY <2>1, <1>1, SortedType, SortedLinks
<1>7. /\ b \in Nat /\ b # Arena /\ cur \in Int /\ cur # b /\ u[b] \in Nat /\ u[cur] \in Nat
      /\ b \in DOMAIN u /\ cur \in DOMAIN u
  <2>1. Top \in Nat BY TopIs
  <2>2. QED BY <2>1, <1>1, <1>2, <1>6
<1>8. \A a \in Q \cup A \cup {b} : a # Arena => a \in B BY <1>4
<1>9. CASE cur + u[cur] # b
  <2> DEFINE h == Put(f, cur, b)
  <2>1. K = [next |-> h, units |-> u, slobfree |-> cur]
    <3>1. K = [[H EXCEPT !.next = h] EXCEPT !.slobfree = cur] BY <1>3, <1>9
    <3> HIDE DEF h
    <3>2. [H EXCEPT !.next = h] = [next |-> h, units |-> u, slobfree |-> rover] BY <1>1
    <3>3. QED BY <3>1, <3>2
  <2>2. /\ DOMAIN h = Q \cup {b} /\ h[cur] = b /\ h = [e \in DOMAIN h |-> h[e]]
        /\ \A e \in Q \cup {b} : e # cur => h[e] = f[e]
    BY <1>1, <1>2 DEF Put
  <2> HIDE DEF h
  <2>3. /\ h[b] = g[cur] /\ \A e \in Q : e # cur => h[e] = g[e]
    BY <2>2, <1>1, <1>7
  <2>4. h \in [Q \cup {b} -> Q \cup {b}]
    <3>1. ASSUME NEW e \in Q \cup {b} PROVE h[e] \in Q \cup {b} BY <2>2, <2>3, <1>1, <1>6
    <3>2. QED BY <3>1, <2>2
  <2>5. Sorted(h, Q \cup {b}) BY <2>2, <2>3, <2>4, <1>1, <1>2, SortedAdd
  <2>6. K.next = h /\ K.units = u /\ K.slobfree = cur /\ Ring(K) = Q \cup {b}
    BY <2>1, <2>2 DEF Ring
  <2>7. IsRing(K)
    <3>1. K = [next |-> K.next, units |-> K.units, slobfree |-> K.slobfree] BY <2>1, <2>6
    <3>2. QED BY <3>1, <2>5, <2>6, <1>1, <1>2 DEF IsRing
  <2>8. ASSUME NEW a \in Q \cup {b}, NEW c \in Q \cup {b}, a < c PROVE a + u[a] # c
    <3>1. CASE a = b
      <4>1. c \in Q BY <3>1, <2>8, <1>7
      <4>2. QED BY <4>1, <3>1, <2>8, <1>1
    <3>2. CASE a # b /\ c # b BY <3>2, <2>8, <1>1
    <3>3. CASE a # b /\ c = b
      <4>1. a \in Q /\ a \in Int /\ a < b BY <3>3, <2>8, <1>6
      <4>2. CASE a = cur BY <4>2, <3>3, <1>9
      <4>3. CASE a # cur
        <5>1. ~(cur < a)
          <6>1. SUFFICES ASSUME cur < a PROVE FALSE OBVIOUS
          <6>2. g[cur] # Arena /\ g[cur] <= a /\ g[cur] \in Int
            BY <6>1, <4>1, <1>1, SortedLinks
          <6>3. b < g[cur] BY <6>2, <1>1
          <6>4. QED BY <6>2, <6>3, <4>1, <1>7
        <5>2. a < cur BY <5>1, <4>1, <4>3, <1>7
        <5>3. CASE a = Arena BY <5>3, <3>3, <1>1, <1>6, <1>7
        <5>4. CASE a # Arena
          <6>1. cur # Arena BY <5>2, <5>4, <4>1, <1>6
          <6>2. a \in B /\ cur \in B BY <6>1, <5>4, <4>1, <1>1, <1>8
          <6>3. a + u[a] <= cur /\ u[a] \in Nat BY <6>2, <5>2, <1>1 DEF Cells
          <6>4. QED BY <6>3, <4>1, <3>3, <1>1, <1>7
        <5>5. QED BY <5>3, <5>4
      <4>4. QED BY <4>2, <4>3
    <3>4. QED BY <3>1, <3>2, <3>3
  <2>9. A \cap (Q \cup {b}) = {} BY <1>1
  <2>10. HeapOK(K, A, W)
    <3>1. /\ A \subseteq DOMAIN K.units /\ A \cap Ring(K) = {}
          /\ Cells(K.units, (Ring(K) \ {Arena}) \cup A, W)
          /\ \A a, c \in Ring(K) : a < c => a + K.units[a] # c
      BY <2>6, <2>8, <2>9, <1>1, <1>4
    <3>2. QED BY <3>1, <2>7, <1>1 DEF HeapOK
  <2>11. b \in Ring(K) /\ K.units[b] >= n BY <2>6, <1>5
  <2>12. QED BY <2>6, <2>10, <2>11 DEF K, u
<1>10. CASE cur + u[cur] = b
  <2> DEFINE f1 == Put(f, cur, f[b])
             h  == Drop(f1, b)
             u1 == Put(u, cur, u[cur] + u[b])
             v  == Drop(u1, b)
  <2>1. K = [next |-> h, units |-> v, slobfree |-> cur]
    <3>1. K = [[H EXCEPT !.next = h, !.units = v] EXCEPT !.slobfree = cur] BY <1>3, <1>10
    <3> HIDE DEF h, v
    <3>2. H = [next |-> f, units |-> u, slobfree |-> rover] BY <1>1
    <3>3. QED BY <3>1, <3>2
  <2>2. /\ DOMAIN f1 = Q \cup {b} /\ f1[cur] = f[b]
        /\ \A e \in Q \cup {b} : e # cur => f1[e] = f[e]
    BY <1>1, <1>2 DEF Put
  <2> HIDE DEF f1
  <2>3. /\ DOMAIN h = Q /\ h = [e \in DOMAIN h |-> h[e]]
        /\ \A e \in Q : h[e] = f1[e]
    BY <2>2, <1>2 DEF Drop
  <2> HIDE DEF h
  <2>4. h = g
    <3>1. ASSUME NEW e \in Q PROVE h[e] = g[e] BY <2>2, <2>3, <1>1
    <3>2. g \in [Q -> Q] BY <1>1, Zenon DEF Sorted
    <3>3. QED BY <3>1, <3>2, <2>3
  <2>5. /\ DOMAIN u1 = DOMAIN u /\ u1[cur] = u[cur] + u[b]
        /\ \A e \in DOMAIN u : e # cur => u1[e] = u[e]
    BY <1>7 DEF Put
  <2> HIDE DEF u1
  <2>6. /\ DOMAIN v = DOMAIN u \ {b} /\ v = [e \in DOMAIN v |-> v[e]]
        /\ \A e \in DOMAIN u : e # b => v[e] = u1[e]
    BY <2>5 DEF Drop
  <2> HIDE DEF v
  <2>7. v[cur] = u[cur] + u[b] /\ \A e \in DOMAIN u : e # cur /\ e # b => v[e] = u[e]
    BY <2>5, <2>6, <1>7
  <2>8. cur # Arena BY <1>1, <1>6, <1>7, <1>10
  <2>9. Cells(v, B \ {b}, W)
    <3>1. cur \in B /\ b \in B /\ B \subseteq DOMAIN u BY <2>8, <1>1, <1>2, <1>4, <1>7, <1>8
    <3>2. \A c \in B : c # cur /\ c # b => v[c] = u[c] BY <2>7, <3>1
    <3>3. QED BY <3>1, <3>2, <2>7, <1>1, <1>10, CellsJoin
  <2>10. K.next = g /\ K.units = v /\ K.slobfree = cur /\ Ring(K) = Q
    BY <2>1, <2>3, <2>4 DEF Ring
  <2>11. v \in [DOMAIN v -> Nat] /\ v[Arena] = 1 /\ Q \subseteq DOMAIN v /\ A \subseteq DOMAIN v
    <3>1. ASSUME NEW e \in DOMAIN v PROVE v[e] \in Nat
      <4>1. e \in DOMAIN u /\ e # b BY <2>6
      <4>2. CASE e = cur BY <4>2, <2>7, <1>7
      <4>3. CASE e # cur BY <4>1, <4>3, <2>7, <1>1
      <4>4. QED BY <4>2, <4>3
    <3>2. v \in [DOMAIN v -> Nat] BY <3>1, <2>6
    <3>3. v[Arena] = 1 BY <2>7, <2>8, <1>1, <1>2, <1>6, <1>7
    <3>4. Q \subseteq DOMAIN v /\ A \subseteq DOMAIN v BY <2>6, <1>1, <1>2
    <3>5. QED BY <3>2, <3>3, <3>4
  <2>12. IsRing(K)
    <3>1. K = [next |-> K.next, units |-> K.units, slobfree |-> K.slobfree]
      BY <2>1, <2>4, <2>10
    <3>2. QED BY <3>1, <2>10, <2>11, <1>1 DEF IsRing
  <2>13. (Q \ {Arena}) \cup A = B \ {b} BY <1>1, <1>2, <1>4, <1>7
  <2>14. ASSUME NEW a \in Q, NEW c \in Q, a < c PROVE a + v[a] # c
    <3>1. CASE a # cur
      <4>1. v[a] = u[a] BY <3>1, <2>7, <1>2
      <4>2. QED BY <4>1, <2>14, <1>1
    <3>2. CASE a = cur
      <4>1. cur + v[cur] = b + u[b] BY <2>7, <1>7, <1>10
      <4>2. c \in Int /\ b < c
        <5>1. g[cur] # Arena /\ g[cur] <= c /\ g[cur] \in Int
          BY <3>2, <2>14, <1>1, SortedLinks
        <5>2. QED BY <5>1, <1>1, <1>6, <1>7
      <4>3. QED BY <4>1, <4>2, <3>2, <1>1
    <3>3. QED BY <3>1, <3>2
  <2>15. HeapOK(K, A, W)
    <3>1. /\ A \subseteq DOMAIN K.units /\ A \cap Ring(K) = {}
          /\ Cells(K.units, (Ring(K) \ {Arena}) \cup A, W)
          /\ \A a, c \in Ring(K) : a < c => a + K.units[a] # c
      BY <2>9, <2>10, <2>11, <2>13, <2>14, <1>1
    <3>2. QED BY <3>1, <2>12, <1>1 DEF HeapOK
  <2>16. \A a \in A : v[a] = u[a] BY <2>7, <1>1
  <2>17. cur \in Ring(K) /\ K.units[cur] >= n
    <3>1. u[cur] + u[b] >= n BY <1>5, <1>7
    <3>2. QED BY <3>1, <2>7, <2>10, <1>1
  <2>18. QED BY <2>10, <2>15, <2>16, <2>17 DEF K, u
<1>11. QED BY <1>9, <1>10

\* The first half of slob_free, which gives the block its link and its length
\* and joins it with the block behind it.
Hung(H, cur, b, n) ==
  LET succ == H.next[cur]
  IN  IF b + n = succ
      THEN [H EXCEPT !.next = Put(Drop(@, succ), b, @[succ]),
                     !.units = Put(Drop(@, succ), b, n + @[succ])]
      ELSE [H EXCEPT !.next = Put(@, b, succ), !.units = Put(@, b, n)]

LEMMA HungIs ==
  ASSUME NEW H, NEW A, NEW W, HeapOK(H, A, W),
         NEW b \in Nat, NEW n \in Nat, n >= 1, Run(b, n) \subseteq 0 .. Top, Run(b, n) \cap W = {},
         NEW cur \in Ring(H), cur < b, H.next[cur] # Arena => b < H.next[cur]
  PROVE  LET K == Hung(H, cur, b, n)
         IN  /\ \E g : Hanging(K, A, W \cup Run(b, n), cur, b, g)
             /\ \A a \in A : K.units[a] = H.units[a]
             /\ K.units[b] >= n
<1> DEFINE R == Ring(H)
           f == H.next
           u == H.units
           rover == H.slobfree
           succ == H.next[cur]
           B == (R \ {Arena}) \cup A
           W1 == W \cup Run(b, n)
           K == Hung(H, cur, b, n)
<1>1. H = [next |-> f, units |-> u, slobfree |-> rover] BY DEF HeapOK, IsRing
<1>2. /\ Sorted(f, R) /\ f \in [R -> R]
      /\ u \in [DOMAIN u -> Nat] /\ R \subseteq DOMAIN u /\ u[Arena] = 1
      /\ A \subseteq DOMAIN u /\ A \cap R = {} /\ W \subseteq Int /\ W \subseteq 0 .. Top
      /\ R \subseteq Int /\ Arena \in R /\ A \subseteq Int
      /\ \A a \in A : a \in Nat /\ a \in W
      /\ \A a \in R : a # Arena => a \in Nat /\ a \in W
      /\ \A a \in DOMAIN u : u[a] \in Nat
  <2> HIDE DEF f, u, R
  <2>1. QED BY HeapType DEF f, u, R
<1>3. /\ Cells(u, B, W) /\ \A a, c \in R : a < c => a + u[a] # c BY DEF HeapOK
<1>4. K = IF b + n = succ
          THEN [H EXCEPT !.next = Put(Drop(f, succ), b, f[succ]),
                         !.units = Put(Drop(u, succ), b, n + u[succ])]
          ELSE [H EXCEPT !.next = Put(f, b, succ), !.units = Put(u, b, n)]
  BY DEF Hung
<1>5. cur \in R /\ f[cur] = succ /\ (succ # Arena => b < succ) OBVIOUS
<1>6. DOMAIN f = R BY DEF Ring
<1> HIDE DEF R, f, u, rover, succ, B, W1, K
<1>7. Arena = -2 BY DEF Arena
<1>8. succ \in R /\ succ \in Int /\ cur \in Int BY <1>2, <1>5
<1>9. b \in Run(b, n) /\ \A x \in Int : x \in Run(b, n) <=> b <= x /\ x < b + n BY RunIs
<1>10. b \in 0 .. Top /\ b \notin W /\ b # Arena BY <1>7, <1>9
<1>11. b \notin R /\ b \notin A /\ b \in Int BY <1>2, <1>10
<1>12. cur # b BY <1>5, <1>11
<1>13. W1 \subseteq 0 .. Top BY <1>2 DEF W1
<1>14. B \subseteq DOMAIN u /\ b \notin B BY <1>2, <1>11 DEF B
\* The block alone.
<1> DEFINE u1 == Put(u, b, n)
<1>15. /\ DOMAIN u1 = DOMAIN u \cup {b} /\ u1[b] = n /\ u1 = [a \in DOMAIN u1 |-> u1[a]]
       /\ \A a \in DOMAIN u : a # b => u1[a] = u[a]
  BY DEF Put
<1> HIDE DEF u1
<1>16. Cells(u1, B \cup {b}, W1)
  <2>1. \A c \in B : u1[c] = u[c] BY <1>14, <1>15
  <2>2. Run(b, n) \cap W = {} OBVIOUS
  <2>3. QED BY <2>1, <2>2, <1>3, <1>11, <1>15, CellsAdd DEF W1
<1>17. CASE b + n # succ
  <2> DEFINE h == Put(f, b, succ)
  <2>1. K = [next |-> h, units |-> u1, slobfree |-> rover]
    <3>1. K = [H EXCEPT !.next = h, !.units = u1] BY <1>4, <1>17 DEF u1
    <3> HIDE DEF h
    <3>2. QED BY <3>1, <1>1
  <2>2. /\ DOMAIN h = R \cup {b} /\ h[b] = succ /\ h = [e \in DOMAIN h |-> h[e]]
        /\ \A e \in R : e # b => h[e] = f[e]
    BY <1>6 DEF Put
  <2> HIDE DEF h
  <2>3. K.next = h /\ K.units = u1 /\ K.slobfree = rover /\ Ring(K) = R \cup {b}
    BY <2>1, <2>2 DEF Ring
  <2>4. Ring(K) \ {b} = R BY <2>3, <1>11
  <2>5. \A e \in R : h[e] = f[e] BY <2>2, <1>11
  <2>6. u1 \in [DOMAIN u1 -> Nat]
    <3>1. ASSUME NEW a \in DOMAIN u1 PROVE u1[a] \in Nat BY <1>2, <1>15
    <3>2. QED BY <3>1, <1>15
  <2>7. u1[Arena] = 1 BY <1>2, <1>10, <1>15
  <2>8. (Ring(K) \ {Arena}) \cup A = B \cup {b} BY <2>3, <1>10 DEF B
  <2>9. ASSUME NEW a \in R, NEW c \in R, a < c PROVE a + u1[a] # c
    <3>1. u1[a] = u[a] BY <1>2, <1>11, <1>15
    <3>2. QED BY <3>1, <2>9, <1>3
  <2>10. ASSUME NEW c \in R, b < c PROVE b + u1[b] # c
    <3>1. cur < c /\ c \in Int BY <2>10, <1>2, <1>5, <1>8, <1>11
    <3>2. succ # Arena /\ succ <= c BY <3>1, <1>2, <1>5, SortedLinks
    <3>3. b < succ BY <3>2, <1>5
    <3>4. b + u1[b] <= succ
      <4>1. b \in B \cup {b} /\ succ \in B \cup {b} BY <3>2, <1>8 DEF B
      <4>2. QED BY <4>1, <3>3, <1>16 DEF Cells
    <3>5. b + n <= succ BY <3>4, <1>15
    <3>6. b + n # c BY <3>1, <3>2, <3>5, <1>8, <1>17
    <3>7. QED BY <3>6, <1>15
  <2>11. Hanging(K, A, W1, cur, b, f)
    <3>1. K = [next |-> K.next, units |-> K.units, slobfree |-> K.slobfree] BY <2>1, <2>3
    <3>2. K.next = [e \in Ring(K) |-> K.next[e]] BY <2>2, <2>3
    <3>3. /\ b \in Ring(K) /\ cur \in R /\ cur < b /\ K.next[b] = f[cur]
          /\ f[cur] # Arena => b < f[cur]
      BY <2>2, <2>3, <1>5
    <3>4. \A e \in R : e # cur => K.next[e] = f[e] BY <2>3, <2>5
    <3>5. /\ K.units \in [DOMAIN K.units -> Nat] /\ Ring(K) \subseteq DOMAIN K.units
          /\ K.units[Arena] = 1 /\ A \subseteq DOMAIN K.units /\ A \cap R = {}
      BY <2>3, <2>6, <2>7, <1>2, <1>15
    <3>6. Cells(K.units, (Ring(K) \ {Arena}) \cup A, W1) BY <2>3, <2>8, <1>16
    <3>7. /\ \A a, c \in R : a < c => a + K.units[a] # c
          /\ \A c \in R : b < c => b + K.units[b] # c
      BY <2>3, <2>9, <2>10
    <3>8. Sorted(f, R) BY <1>2
    <3>9. QED BY <3>1, <3>2, <3>3, <3>4, <3>5, <3>6, <3>7, <3>8, <2>4, <1>10, <1>11, <1>13
              DEF Hanging
  <2>12. \A a \in A : u1[a] = u[a] BY <1>2, <1>11, <1>15
  <2>13. K.units[b] >= n BY <2>3, <1>15
  <2>14. QED BY <2>3, <2>11, <2>12, <2>13 DEF K, u, W1
<1>18. CASE b + n = succ
  <2> DEFINE Q  == R \ {succ}
             f1 == Drop(f, succ)
             h  == Put(f1, b, f[succ])
             g  == Put(f1, cur, f[succ])
             u2 == Drop(u, succ)
             v  == Put(u2, b, n + u[succ])
  <2>1. K = [next |-> h, units |-> v, slobfree |-> rover]
    <3>1. K = [H EXCEPT !.next = h, !.units = v] BY <1>4, <1>18
    <3> HIDE DEF h, v
    <3>2. QED BY <3>1, <1>1
  <2>2. DOMAIN f1 = Q /\ \A e \in Q : f1[e] = f[e] BY <1>6 DEF Drop
  <2>3. DOMAIN u2 = DOMAIN u \ {succ} /\ \A a \in DOMAIN u : a # succ => u2[a] = u[a]
    BY DEF Drop
  <2> HIDE DEF f1, u2
  <2>4. succ # Arena /\ b < succ /\ cur < succ /\ succ # b
    <3>1. succ # Arena BY <1>7, <1>18
    <3>2. b < succ BY <3>1, <1>5
    <3>3. QED BY <3>1, <3>2, <1>8, <1>11
  <2>5. cur # succ /\ cur \in Q BY <2>4, <1>5, <1>8
  <2>6. /\ DOMAIN h = Q \cup {b} /\ h[b] = f[succ] /\ h = [e \in DOMAIN h |-> h[e]]
        /\ \A e \in Q : e # b => h[e] = f1[e]
    BY <2>2 DEF Put
  <2> HIDE DEF h
  <2>7. /\ DOMAIN g = Q /\ g[cur] = f[succ] /\ g = [e \in DOMAIN g |-> g[e]]
        /\ \A e \in Q : e # cur => g[e] = f1[e]
    <3>1. Q \cup {cur} = Q BY <2>5
    <3> HIDE DEF Q
    <3>2. QED BY <3>1, <2>2 DEF Put
  <2> HIDE DEF g
  <2>8. /\ DOMAIN v = (DOMAIN u \ {succ}) \cup {b} /\ v[b] = n + u[succ]
        /\ v = [a \in DOMAIN v |-> v[a]]
        /\ \A a \in DOMAIN u \ {succ} : a # b => v[a] = u2[a]
    BY <2>3 DEF Put
  <2> HIDE DEF v
  <2>9. \A a \in DOMAIN u : a # succ /\ a # b => v[a] = u[a] BY <2>3, <2>8
  <2>10. Sorted(g, Q)
    <3>1. /\ DOMAIN g = R \ {succ} /\ g = [e \in DOMAIN g |-> g[e]] /\ g[cur] = f[succ]
          /\ \A e \in R : e # cur /\ e # succ => g[e] = f[e]
      BY <2>2, <2>7
    <3>2. QED BY <3>1, <2>4, <1>2, <1>5, <1>8, SortedDel
  <2>11. Cells(v, (B \cup {b}) \ {succ}, W1)
    <3>1. b \in B \cup {b} /\ succ \in B \cup {b} BY <2>4, <1>8 DEF B
    <3>2. b + u1[b] = succ BY <1>15, <1>18
    <3>3. u1[succ] = u[succ] BY <2>4, <1>2, <1>8, <1>15
    <3>4. v[b] = u1[b] + u1[succ] BY <3>3, <2>8, <1>15
    <3>5. \A c \in B \cup {b} : c # b /\ c # succ => v[c] = u1[c] BY <2>9, <1>14, <1>15
    <3> DEFINE B1 == B \cup {b}
               x  == b
    <3>6. Cells(u1, B1, W1) /\ x \in B1 /\ succ \in B1 BY <3>1, <1>16
    <3>7. \A c \in B1 : c # x /\ c # succ => v[c] = u1[c] BY <3>5
    <3>8. x + u1[x] = succ /\ v[x] = u1[x] + u1[succ] BY <3>2, <3>4
    <3> HIDE DEF B1, x
    <3>9. Cells(v, B1 \ {succ}, W1) BY <3>6, <3>7, <3>8, CellsJoin
    <3>10. QED BY <3>9 DEF B1
  <2>12. K.next = h /\ K.units = v /\ K.slobfree = rover /\ Ring(K) = Q \cup {b}
    BY <2>1, <2>6 DEF Ring
  <2>13. Ring(K) \ {b} = Q BY <2>12, <1>11
  <2>14. \A e \in Q : e # cur => h[e] = g[e] BY <2>6, <2>7, <1>11
  <2>15. u[succ] \in Nat /\ u[cur] \in Nat BY <1>2, <1>5, <1>8
  <2>16. v \in [DOMAIN v -> Nat]
    <3>1. ASSUME NEW a \in DOMAIN v PROVE v[a] \in Nat
      <4>1. CASE a = b BY <4>1, <2>8, <2>15
      <4>2. CASE a # b
        <5>1. a \in DOMAIN u /\ a # succ BY <4>2, <2>8
        <5>2. QED BY <4>2, <5>1, <2>9, <1>2
      <4>3. QED BY <4>1, <4>2
    <3>2. QED BY <3>1, <2>8
  <2>17. v[Arena] = 1 BY <2>4, <2>9, <1>2, <1>10
  <2>18. (Ring(K) \ {Arena}) \cup A = (B \cup {b}) \ {succ}
    <3>1. succ \notin A BY <1>2, <1>8
    <3>2. QED BY <3>1, <2>4, <2>12, <1>10, <1>11 DEF B
  <2>19. ASSUME NEW a \in Q, NEW c \in Q, a < c PROVE a + v[a] # c
    <3>1. v[a] = u[a] BY <2>9, <1>2, <1>11
    <3>2. QED BY <3>1, <2>19, <1>3
  <2>20. ASSUME NEW c \in Q, b < c PROVE b + v[b] # c
    <3>1. cur < c /\ c \in Int /\ c \in R /\ c # succ BY <2>20, <1>2, <1>5, <1>8, <1>11
    <3>2. succ <= c BY <3>1, <1>2, <1>5, SortedLinks
    <3>3. succ < c BY <3>1, <3>2, <1>8
    <3>4. succ + u[succ] # c BY <3>1, <3>3, <1>3, <1>8
    <3>5. b + v[b] = succ + u[succ] BY <2>8, <2>15, <1>8, <1>11, <1>18
    <3>6. QED BY <3>4, <3>5
  <2>21. f[succ] # Arena => b < f[succ]
    <3>1. SUFFICES ASSUME f[succ] # Arena PROVE b < f[succ] OBVIOUS
    <3>2. succ < f[succ] /\ f[succ] \in Int BY <3>1, <1>2, <1>8, SortedLinks
    <3>3. QED BY <3>2, <2>4, <1>8, <1>11
  <2>22. A \subseteq DOMAIN v /\ Q \cup {b} \subseteq DOMAIN v /\ A \cap Q = {}
    BY <2>8, <1>2, <1>8
  <2>23. Hanging(K, A, W1, cur, b, g)
    <3>1. K = [next |-> K.next, units |-> K.units, slobfree |-> K.slobfree] BY <2>1, <2>12
    <3>2. K.next = [e \in Ring(K) |-> K.next[e]] BY <2>6, <2>12
    <3>3. /\ b \in Ring(K) /\ cur \in Q /\ cur < b /\ K.next[b] = g[cur]
          /\ g[cur] # Arena => b < g[cur]
      BY <2>5, <2>6, <2>7, <2>12, <2>21, <1>5
    <3>4. \A e \in Q : e # cur => K.next[e] = g[e] BY <2>12, <2>14
    <3>5. /\ K.units \in [DOMAIN K.units -> Nat] /\ Ring(K) \subseteq DOMAIN K.units
          /\ K.units[Arena] = 1 /\ A \subseteq DOMAIN K.units /\ A \cap Q = {}
      BY <2>12, <2>16, <2>17, <2>22
    <3>6. Cells(K.units, (Ring(K) \ {Arena}) \cup A, W1) BY <2>11, <2>12, <2>18
    <3>7. /\ \A a, c \in Q : a < c => a + K.units[a] # c
          /\ \A c \in Q : b < c => b + K.units[b] # c
      BY <2>12, <2>19, <2>20
    <3> HIDE DEF Q
    <3>8. QED BY <3>1, <3>2, <3>3, <3>4, <3>5, <3>6, <3>7, <2>10, <2>13, <1>10, <1>11, <1>13
              DEF Hanging
  <2>24. \A a \in A : v[a] = u[a] BY <2>9, <1>2, <1>8, <1>11
  <2>25. K.units[b] >= n BY <2>8, <2>12, <2>15
  <2>26. QED BY <2>12, <2>23, <2>24, <2>25 DEF K, u, W1
<1>19. QED BY <1>17, <1>18

\* A block of units nobody uses becomes part of the free blocks.
LEMMA SlobFreeIs ==
  ASSUME NEW H, NEW A, NEW W, HeapOK(H, A, W),
         NEW b \in Nat, NEW n \in Nat, n >= 1, Run(b, n) \subseteq 0 .. Top, Run(b, n) \cap W = {}
  PROVE  LET K == slob_free(H, b, n)
         IN  /\ HeapOK(K, A, W \cup Run(b, n))
             /\ \A a \in A : K.units[a] = H.units[a]
             /\ \E c \in Ring(K) : K.units[c] >= n
<1> DEFINE cur == InsertionPoint(H, b)
           H1  == Hung(H, cur, b, n)
           W1  == W \cup Run(b, n)
           K   == slob_free(H, b, n)
<1>1. K = [join_prev(H1, cur, b) EXCEPT !.slobfree = cur] BY DEF slob_free, Hung
<1>2. IsRing(H) BY DEF HeapOK
<1>3. b \notin Ring(H)
  <2>1. b \in Run(b, n) BY RunIs
  <2>2. b \notin W /\ b # Arena BY <2>1 DEF Arena
  <2>3. QED BY <2>2, HeapType
<1>4. cur \in Ring(H) /\ cur < b /\ (H.next[cur] # Arena => b < H.next[cur])
  BY <1>2, <1>3, InsertionIs
<1> HIDE DEF cur
<1>5. /\ \E g : Hanging(H1, A, W1, cur, b, g)
      /\ \A a \in A : H1.units[a] = H.units[a]
      /\ H1.units[b] >= n
  BY <1>4, HungIs
<1> HIDE DEF H1, W1
<1>6. PICK g : Hanging(H1, A, W1, cur, b, g) BY <1>5
<1> DEFINE K1 == [join_prev(H1, cur, b) EXCEPT !.slobfree = cur]
<1>7. /\ HeapOK(K1, A, W1)
      /\ \A a \in A : K1.units[a] = H1.units[a]
      /\ \E c \in Ring(K1) : K1.units[c] >= n
  BY <1>5, <1>6, JoinPrevIs
<1>8. K = K1 BY <1>1
<1> HIDE DEF K1, K
<1>9. QED BY <1>5, <1>7, <1>8 DEF K, W1

-----------------------------------------------------------------------------
(* The heap and the pages.                                                 *)

\* The units of a page.
LEMMA UnitsOfPage ==
  ASSUME NEW p \in Nat
  PROVE  /\ p * U \in Nat
         /\ \A x \in Nat : x \in Run(p * U, U) <=> x \div U = p
         /\ Run(p * U, U) \subseteq Nat
         /\ (p * U) \div U = p /\ (p * U) % U = 0
         /\ p < NP => Run(p * U, U) \subseteq 0 .. Top
<1>1. U \in Nat /\ U > 3 /\ NP \in Nat BY SizesAssumption, PagesAssumption
<1>2. p * U \in Nat BY <1>1
<1>3. \A x \in Int : x \in Run(p * U, U) <=> p * U <= x /\ x < p * U + U BY <1>1, <1>2, RunIs
<1>4. ASSUME NEW x \in Nat PROVE (p * U <= x /\ x < p * U + U) <=> x \div U = p BY <1>1
<1>5. Run(p * U, U) \subseteq Nat BY <1>1, <1>2 DEF Run
<1>6. (p * U) \div U = p /\ (p * U) % U = 0 BY <1>1
<1>7. ASSUME p < NP PROVE Run(p * U, U) \subseteq 0 .. Top
  <2>1. p * U + U <= NP * U BY <1>1, <1>7
  <2>2. ASSUME NEW x \in Run(p * U, U) PROVE x \in 0 .. Top
    <3>1. x \in Nat /\ x < p * U + U BY <1>3, <1>5
    <3>2. x <= NP * U /\ NP * U \in Nat BY <3>1, <2>1, <1>1, <1>2
    <3>3. QED BY <3>1, <3>2 DEF Top
  <2>3. QED BY <2>2
<1>8. QED BY <1>2, <1>3, <1>4, <1>5, <1>6, <1>7

\* slob_alloc, if need be after it got a page.
LEMMA SlobAllocIs ==
  ASSUME PageInv, NEW A, HeapOK(slob, A, HeapUnits(grown)),
         NEW n \in Nat, n >= 2, n <= U, Grows(n) => CanAlloc(pm, 1)
  PROVE  LET H   == HeapFor(n)
             cur == Found(H, n)
             K   == cut(H, n)
         IN  /\ HeapOK(K, A \cup {cur}, HeapUnits(grown \cup GrownBy(n)))
             /\ K.units[cur] = n /\ cur \in Nat /\ cur \notin A
             /\ \A a \in A : K.units[a] = slob.units[a]
<1> DEFINE H == HeapFor(n)
           g == grown \cup GrownBy(n)
<1>1. U \in Nat /\ U > 3 BY SizesAssumption
<1>2. /\ HeapOK(H, A, HeapUnits(g)) /\ Room(H, n) # {}
      /\ \A a \in A : H.units[a] = slob.units[a]
  <2>1. CASE ~Grows(n)
    <3>1. H = slob /\ GrownBy(n) = {} /\ Room(slob, n) # {}
      BY <2>1 DEF HeapFor, GrownBy, Grows
    <3>2. g = grown BY <3>1
    <3>3. QED BY <3>1, <3>2
  <2>2. CASE Grows(n)
    <3> DEFINE p == BlockFor(pm, 1)
    <3>1. GrownBy(n) = {p} /\ H = slob_free(slob, p * U, U) BY <2>2 DEF GrownBy, HeapFor
    <3> HIDE DEF p
    <3>2. p \in Pages /\ p \notin given BY <3>1, GrowKeeps
    <3>3. p \notin grown /\ p \in Nat /\ p < NP
      BY <3>2, PagesAssumption DEF PageInv, Pages
    <3> DEFINE b == p * U
    <3>4. /\ b \in Nat /\ Run(b, U) \subseteq Nat /\ Run(b, U) \subseteq 0 .. Top
          /\ \A x \in Nat : x \in Run(b, U) <=> x \div U = p
      BY <3>3, UnitsOfPage
    <3> HIDE DEF b
    <3>5. Run(b, U) \cap HeapUnits(grown) = {} BY <3>3, <3>4 DEF HeapUnits
    <3>6. HeapUnits(grown) \cup Run(b, U) = HeapUnits(g)
      <4>1. ASSUME NEW x \in 0 .. Top
            PROVE  x \in HeapUnits(grown) \cup Run(b, U) <=> x \in HeapUnits(g)
        <5>1. x \in Nat BY TopIs
        <5>2. QED BY <5>1, <3>1, <3>4 DEF HeapUnits
      <4>2. QED BY <4>1, <3>4 DEF HeapUnits
    <3>7. H = slob_free(slob, b, U) BY <3>1 DEF b
    <3>8. U >= 1 BY <1>1
    <3> HIDE DEF H
    <3>9. /\ HeapOK(H, A, HeapUnits(grown) \cup Run(b, U))
          /\ \A a \in A : H.units[a] = slob.units[a]
          /\ \E c \in Ring(H) : H.units[c] >= U
      BY <3>4, <3>5, <3>7, <3>8, <1>1, SlobFreeIs
    <3>10. PICK c \in Ring(H) : H.units[c] >= U BY <3>9
    <3>11. HeapOK(H, A, HeapUnits(g)) BY <3>6, <3>9
    <3>12. H.units[c] >= n
      <4>1. H.units[c] \in Nat BY <3>11, HeapType
      <4>2. QED BY <4>1, <3>10, <1>1
    <3>13. IsRing(H) BY <3>11 DEF HeapOK
    <3>14. Room(H, n) # {} BY <3>12, <3>13, RoomIs
    <3>15. QED BY <3>9, <3>11, <3>14
  <2>3. QED BY <2>1, <2>2
<1> DEFINE cur == Found(H, n)
           K == cut(H, n)
           W == HeapUnits(g)
<1> HIDE DEF W, H
<1>3. HeapOK(H, A, W) BY <1>2 DEF W
<1>4. /\ HeapOK(K, A \cup {cur}, W) /\ K.units[cur] = n
      /\ \A a \in A : K.units[a] = H.units[a]
      /\ cur \notin A /\ cur \in Nat
  BY <1>2, <1>3, CutIs
<1> HIDE DEF K, cur
<1>5. \A a \in A : K.units[a] = slob.units[a] BY <1>2, <1>4
<1>6. QED BY <1>4, <1>5 DEF W, K, cur, H

\* slob_free of a block in use.
LEMMA SlobFreeUsed ==
  ASSUME NEW H, NEW A, NEW W, HeapOK(H, A, W), NEW b \in A
  PROVE  LET K == slob_free(H, b, H.units[b])
         IN  /\ HeapOK(K, A \ {b}, W)
             /\ \A a \in A \ {b} : K.units[a] = H.units[a]
<1> DEFINE n == H.units[b]
           V == W \ Run(b, n)
           C == A \ {b}
<1>1. HeapOK(H, C, V) /\ n \in Nat /\ n >= 1 /\ Run(b, n) \subseteq W BY ForgetBlock
<1>2. b \in Nat /\ W \subseteq 0 .. Top BY HeapType
<1>3. Run(b, n) \subseteq 0 .. Top /\ Run(b, n) \cap V = {} BY <1>1, <1>2
<1>4. V \cup Run(b, n) = W BY <1>1
<1> DEFINE K == slob_free(H, b, n)
<1>5. K = slob_free(H, b, n) OBVIOUS
<1> HIDE DEF V, C, K, n
<1>6. /\ HeapOK(K, C, V \cup Run(b, n))
      /\ \A a \in C : K.units[a] = H.units[a]
  BY <1>1, <1>2, <1>3, <1>5, SlobFreeIs
<1>7. QED BY <1>4, <1>6 DEF C, K, n

\* The second unit of a block in use belongs to the heap.
LEMMA UsedUnit ==
  ASSUME NEW H, NEW A, NEW g, HeapOK(H, A, HeapUnits(g)), NEW a \in A, H.units[a] >= 2
  PROVE  a \in Nat /\ a + 1 \in Nat /\ (a + 1) \div U \in g
<1> DEFINE B == (Ring(H) \ {Arena}) \cup A
           W == HeapUnits(g)
<1>1. a \in Nat /\ H.units[a] \in Nat BY HeapType
<1>2. a \in B /\ Cells(H.units, B, W) BY DEF HeapOK
<1> HIDE DEF B, W
<1>3. \A x \in Int : a <= x /\ x < a + H.units[a] => x \in W BY <1>2 DEF Cells
<1>4. a + 1 \in Int /\ a <= a + 1 /\ a + 1 < a + H.units[a] BY <1>1
<1>5. a + 1 \in W BY <1>3, <1>4
<1>6. QED BY <1>1, <1>5 DEF W, HeapUnits

\* A small object is in the pages of the heap, a big one is not.
LEMMA SmallAt ==
  ASSUME HeapInv, NEW o \in SmallObjects
  PROVE  o \in objects /\ o.at - 1 \in Used /\ o.at \in Nat /\ o.at \div U \in grown
<1> DEFINE a == o.at - 1
<1>1. /\ o \in objects /\ o.at \in Int /\ o.size \in Sizes /\ a \in Used
      /\ slob.units[a] = o.size + 1
  BY DEF HeapInv, Holdings, SmallObjects, Used
<1>2. o.size + 1 >= 2
  <2> DEFINE s == o.size
  <2>1. s \in Sizes BY <1>1
  <2> HIDE DEF s
  <2>2. s \in Nat /\ s # 0 BY <2>1, SizesAssumption
  <2>3. QED BY <2>2 DEF s
<1>3. HeapOK(slob, Used, HeapUnits(grown)) /\ slob.units[a] >= 2 BY <1>1, <1>2 DEF HeapInv
<1>4. a + 1 = o.at BY <1>1
<1> HIDE DEF a
<1>5. a + 1 \in Nat /\ (a + 1) \div U \in grown BY <1>1, <1>3, UsedUnit
<1>6. QED BY <1>1, <1>4, <1>5 DEF a

LEMMA BigAt ==
  ASSUME PageInv, NEW d \in bigblocks
  PROVE  /\ d.pages \in Pages /\ d.pages \in Nat /\ d.pages \in PagesOfBig(d)
         /\ d.pages \in given /\ d.pages \notin grown
         /\ (d.pages * U) \div U = d.pages /\ (d.pages * U) % U = 0 /\ d.pages * U \in Nat
<1> DEFINE p == d.pages
           n == PagesOf(d.order)
<1>1. p \in Pages /\ n \in 1 .. MaxN /\ PagesOfBig(d) \subseteq given /\ PagesOfBig(d) \cap grown = {}
  BY DEF PageInv, BigOwn
<1>2. PagesOfBig(d) = Run(p, n) BY DEF PagesOfBig
<1> HIDE DEF p, n
<1>3. p \in Nat /\ n \in Nat /\ n >= 1 BY <1>1, PagesAssumption DEF Pages
<1>4. p \in Run(p, n) BY <1>3, RunIs
<1>5. (p * U) \div U = p /\ (p * U) % U = 0 /\ p * U \in Nat BY <1>3, UnitsOfPage
<1>6. QED BY <1>1, <1>2, <1>3, <1>4, <1>5 DEF p

LEMMA SmallNotBig ==
  ASSUME PageInv, HeapInv, NEW o \in SmallObjects, NEW d \in bigblocks
  PROVE  o.at # d.pages * U
<1>1. o.at \div U \in grown BY SmallAt
<1>2. (d.pages * U) \div U \notin grown BY BigAt
<1>3. QED BY <1>1, <1>2

LEMMA HeapInvInit == KInit => HeapInv
<1> SUFFICES ASSUME KInit PROVE HeapInv OBVIOUS
<1>1. /\ slob = [next |-> [a \in {Arena} |-> Arena], units |-> [a \in {Arena} |-> 1],
                 slobfree |-> Arena]
      /\ bigblocks = {} /\ objects = {} /\ grown = {}
  BY DEF KInit
<1>2. SmallObjects = {} /\ Used = {} /\ HeapUnits(grown) = {}
  BY <1>1 DEF SmallObjects, Used, HeapUnits
<1>3. /\ DOMAIN slob.next = {Arena} /\ slob.next[Arena] = Arena /\ slob.slobfree = Arena
      /\ slob.next \in [{Arena} -> {Arena}]
      /\ DOMAIN slob.units = {Arena} /\ slob.units[Arena] = 1 /\ slob.units \in [{Arena} -> Nat]
      /\ slob = [next |-> slob.next, units |-> slob.units, slobfree |-> slob.slobfree]
  BY <1>1
<1>4. Ring(slob) = {Arena} BY <1>3 DEF Ring
<1>5. Arena \in Int /\ ~(Arena < Arena) BY DEF Arena
<1>6. Sorted(slob.next, {Arena}) BY <1>3, <1>5 DEF Sorted
<1>7. IsRing(slob) BY <1>3, <1>4, <1>6 DEF IsRing
<1>8. Cells(slob.units, {}, {}) BY DEF Cells
<1>9. (Ring(slob) \ {Arena}) \cup Used = {} BY <1>2, <1>4
<1>10. HeapOK(slob, Used, HeapUnits(grown))
  <2>1. Cells(slob.units, (Ring(slob) \ {Arena}) \cup Used, HeapUnits(grown))
    BY <1>2, <1>8, <1>9
  <2>2. \A a, c \in Ring(slob) : a < c => a + slob.units[a] # c BY <1>4, <1>5
  <2>3. QED BY <2>1, <2>2, <1>2, <1>7 DEF HeapOK
<1>11. Holdings BY <1>1, <1>2 DEF Holdings
<1>12. Counted
  <2>1. IsFiniteSet({}) /\ Cardinality({}) = 0 BY FS_EmptySet
  <2>2. QED BY <2>1, <1>1, <1>2 DEF Counted
<1>13. QED BY <1>10, <1>11, <1>12 DEF HeapInv

LEMMA kmalloc_small_heap ==
  ASSUME PageInv, HeapInv, PageInv', NEW size \in Sizes, kmalloc_small(size)
  PROVE  HeapInv'
<1> DEFINE n == size + 1
           H == HeapFor(n)
           cur == Found(H, n)
           K == cut(H, n)
           new == [at |-> cur + 1, size |-> size]
           g == grown \cup GrownBy(n)
<1>1. /\ IsSmall(size) /\ (Grows(n) => CanAlloc(pm, 1)) /\ slob' = K
      /\ objects' = objects \cup {new} /\ grown' = g /\ bigblocks' = bigblocks
  BY DEF kmalloc_small
<1>2. n \in Nat /\ n >= 2 /\ n <= U /\ size \in Nat BY <1>1, SizesAssumption DEF IsSmall
<1>3. HeapOK(slob, Used, HeapUnits(grown)) BY DEF HeapInv
<1>4. /\ HeapOK(K, Used \cup {cur}, HeapUnits(g))
      /\ K.units[cur] = n /\ cur \in Nat /\ cur \notin Used
      /\ \A a \in Used : K.units[a] = slob.units[a]
  <2> HIDE DEF n
  <2>1. QED BY <1>1, <1>2, <1>3, SlobAllocIs
<1>5. n = size + 1 OBVIOUS
<1> HIDE DEF n, H, cur, K, g
<1>6. new.at = cur + 1 /\ new.size = size /\ new = [at |-> new.at, size |-> new.size] OBVIOUS
<1> HIDE DEF new
<1>7. new.at \in Int /\ new.at - 1 = cur /\ new.size \in Sizes /\ IsSmall(new.size)
  BY <1>1, <1>4, <1>6
<1>8. SmallObjects' = SmallObjects \cup {new} BY <1>1, <1>7 DEF SmallObjects, IsSmall
<1>9. Used' = Used \cup {cur} BY <1>1, <1>7, <1>8 DEF Used
<1>10. HeapOK(slob', Used', HeapUnits(grown')) BY <1>1, <1>4, <1>9
<1>11. new.at \div U \in grown'
  <2>1. cur \in Used \cup {cur} /\ K.units[cur] >= 2 BY <1>2, <1>4
  <2>2. (cur + 1) \div U \in g BY <2>1, <1>4, UsedUnit
  <2>3. QED BY <2>2, <1>1, <1>6
<1>12. ASSUME NEW o \in objects PROVE o.at # new.at
  <2>1. CASE o \in SmallObjects
    <3>1. o.at - 1 \in Used /\ o.at \in Nat BY <2>1, SmallAt
    <3>2. o.at - 1 # cur BY <3>1, <1>4
    <3>3. QED BY <3>2, <1>7
  <2>2. CASE o \notin SmallObjects
    <3>1. PICK d \in bigblocks : d.pages * U = o.at
      BY <2>2 DEF HeapInv, Holdings
    <3>2. (d.pages * U) \div U = d.pages BY BigAt
    <3>3. d.pages \in PagesOfBig(d) BY BigAt
    <3>4. PagesOfBig(d) \cap grown' = {} BY <1>1 DEF PageInv, PagesOfBig
    <3>5. o.at \div U \notin grown' BY <3>1, <3>2, <3>3, <3>4
    <3>6. QED BY <3>5, <1>11
  <2>3. QED BY <2>1, <2>2
<1>13. new \notin objects BY <1>12
<1>14. Holdings'
  <2>1. \A o \in objects \cup {new} :
          o = [at |-> o.at, size |-> o.size] /\ o.at \in Int /\ o.size \in Sizes
    BY <1>6, <1>7 DEF HeapInv, Holdings
  <2>2. ASSUME NEW o \in SmallObjects \cup {new} PROVE K.units[o.at - 1] = o.size + 1
    <3>1. CASE o = new BY <3>1, <1>4, <1>5, <1>6, <1>7
    <3>2. CASE o \in SmallObjects
      <4>1. o.at - 1 \in Used BY <3>2, SmallAt
      <4>2. QED BY <4>1, <3>2, <1>4 DEF HeapInv, Holdings
    <3>3. QED BY <3>1, <3>2
  <2>3. ASSUME NEW d \in bigblocks PROVE K.units[d.bb] = BIGBLOCK
    <3>1. d.bb \in Used BY DEF Used
    <3>2. QED BY <3>1, <1>4 DEF HeapInv, Holdings
  <2>4. \A d, e \in bigblocks : d.bb = e.bb => d = e BY DEF HeapInv, Holdings
  <2>5. ASSUME NEW o \in SmallObjects \cup {new}, NEW d \in bigblocks PROVE o.at - 1 # d.bb
    <3>1. d.bb \in Used BY DEF Used
    <3>2. CASE o = new BY <3>1, <3>2, <1>4, <1>7
    <3>3. CASE o \in SmallObjects BY <3>3 DEF HeapInv, Holdings
    <3>4. QED BY <3>2, <3>3
  <2>6. ASSUME NEW o \in objects \cup {new}, NEW q \in objects \cup {new}, o.at = q.at PROVE o = q
    <3>1. o \in objects /\ q \in objects => o = q BY <2>6 DEF HeapInv, Holdings
    <3>2. QED BY <3>1, <2>6, <1>12
  <2>7. ASSUME NEW o \in (objects \cup {new}) \ (SmallObjects \cup {new})
        PROVE  \E d \in bigblocks : d.pages * U = o.at /\ d.order = find_order(o.size)
    BY DEF HeapInv, Holdings
  <2>8. QED BY <2>1, <2>2, <2>3, <2>4, <2>5, <2>6, <2>7, <1>1, <1>8 DEF Holdings
<1>15. Counted'
  <2>1. /\ IsFiniteSet(objects) /\ IsFiniteSet(bigblocks)
        /\ Cardinality(objects) = Cardinality(SmallObjects) + Cardinality(bigblocks)
    BY DEF HeapInv, Counted
  <2>2. SmallObjects \subseteq objects /\ new \notin SmallObjects BY <1>13 DEF SmallObjects
  <2>3. IsFiniteSet(SmallObjects) BY <2>1, <2>2, FS_Subset
  <2>4. /\ IsFiniteSet(objects \cup {new})
        /\ Cardinality(objects \cup {new}) = Cardinality(objects) + 1
    BY <2>1, <1>13, FS_AddElement
  <2>5. Cardinality(SmallObjects \cup {new}) = Cardinality(SmallObjects) + 1
    BY <2>2, <2>3, FS_AddElement
  <2>6. /\ Cardinality(SmallObjects) \in Nat /\ Cardinality(bigblocks) \in Nat
    BY <2>1, <2>3, FS_CardinalityType
  <2>7. Cardinality(objects \cup {new}) = Cardinality(SmallObjects \cup {new}) + Cardinality(bigblocks)
    BY <2>1, <2>4, <2>5, <2>6
  <2>8. QED BY <2>1, <2>4, <2>7, <1>1, <1>8 DEF Counted
<1>16. QED BY <1>10, <1>14, <1>15 DEF HeapInv, HeapOK, HeapUnits

LEMMA kmalloc_big_heap ==
  ASSUME PageInv, HeapInv, PageInv', NEW size \in Sizes, kmalloc_big(size)
  PROVE  HeapInv'
<1> DEFINE H == HeapFor(BIGBLOCK)
           cur == Found(H, BIGBLOCK)
           K == cut(H, BIGBLOCK)
           g == grown \cup GrownBy(BIGBLOCK)
           order == find_order(size)
           m == PagesOf(order)
           p == BlockFor(PmFor(BIGBLOCK), m)
           new == [at |-> p * U, size |-> size]
           d == [bb |-> cur, pages |-> p, order |-> order]
<1>1. /\ ~IsSmall(size) /\ (Grows(BIGBLOCK) => CanAlloc(pm, 1)) /\ slob' = K
      /\ objects' = objects \cup {new} /\ grown' = g /\ bigblocks' = bigblocks \cup {d}
      /\ given' = given \cup GrownBy(BIGBLOCK) \cup Run(p, m)
      /\ CanAlloc(PmFor(BIGBLOCK), m)
  BY DEF kmalloc_big
<1>2. U \in Nat /\ U > 3 BY SizesAssumption
<1>3. HeapOK(slob, Used, HeapUnits(grown)) BY DEF HeapInv
<1>4. /\ HeapOK(K, Used \cup {cur}, HeapUnits(g))
      /\ K.units[cur] = BIGBLOCK /\ cur \in Nat /\ cur \notin Used
      /\ \A a \in Used : K.units[a] = slob.units[a]
  <2> DEFINE n == BIGBLOCK
  <2>1. n \in Nat /\ n >= 2 /\ n <= U BY <1>2 DEF BIGBLOCK
  <2>2. Grows(n) => CanAlloc(pm, 1) BY <1>1
  <2> HIDE DEF n
  <2>3. /\ HeapOK(cut(HeapFor(n), n), Used \cup {Found(HeapFor(n), n)},
                  HeapUnits(grown \cup GrownBy(n)))
        /\ cut(HeapFor(n), n).units[Found(HeapFor(n), n)] = n
        /\ Found(HeapFor(n), n) \in Nat /\ Found(HeapFor(n), n) \notin Used
        /\ \A a \in Used : cut(HeapFor(n), n).units[a] = slob.units[a]
    BY <2>1, <2>2, <1>3, SlobAllocIs
  <2>4. QED BY <2>3 DEF n
<1>5. /\ new.at = p * U /\ new.size = size /\ new = [at |-> new.at, size |-> new.size]
      /\ d.bb = cur /\ d.pages = p /\ d.order = order
  OBVIOUS
\* The pages were free before and are not of the heap.
<1>6. p \in Nat /\ p \notin given /\ p \notin grown'
  <2>1. order \in Nat
    <3>1. size \in Nat BY SizesAssumption
    <3>2. QED BY <3>1, FindOrderIs
  <2>2. m \in Nat /\ m >= 1
    <3> HIDE DEF order
    <3>1. m \in Nat /\ m > order BY <2>1, PagesOfIs
    <3>2. QED BY <2>1, <3>1
  <2>3. /\ Sound(PmFor(BIGBLOCK), given \cup GrownBy(BIGBLOCK)) /\ manager \in Managers
    <3>1. BIGBLOCK \in Nat BY DEF BIGBLOCK
    <3>2. QED BY <3>1, <1>1, GrowKeeps DEF PageInv
  <2> DEFINE L == PmFor(BIGBLOCK)
             gg == given \cup GrownBy(BIGBLOCK)
  <2>4. CanAlloc(L, m) BY <1>1
  <2> HIDE DEF L, gg, m
  <2>5. BlockFor(L, m) \in Pages /\ Run(BlockFor(L, m), m) \subseteq Pages \ gg
    BY <2>2, <2>3, <2>4, AllocKeeps DEF L, gg
  <2>6. p = BlockFor(L, m) BY DEF L
  <2> HIDE DEF p
  <2>7. p \in Nat BY <2>5, <2>6, PagesAssumption DEF Pages
  <2>8. p \in Run(p, m) BY <2>2, <2>7, RunIs
  <2>9. p \notin gg BY <2>5, <2>6, <2>8
  <2>10. grown' \subseteq gg BY <1>1 DEF gg, g, PageInv
  <2>11. QED BY <2>7, <2>9, <2>10 DEF gg
<1> HIDE DEF H, cur, K, g, new, d, p, m
<1>7. new.at \in Int /\ new.size \in Sizes /\ ~IsSmall(new.size)
  <2>1. p * U \in Int BY <1>2, <1>6
  <2>2. QED BY <2>1, <1>1, <1>5
<1>8. SmallObjects' = SmallObjects BY <1>1, <1>7 DEF SmallObjects, IsSmall
<1>9. Used' = Used \cup {cur} BY <1>1, <1>5, <1>8 DEF Used
<1>10. HeapOK(slob', Used', HeapUnits(grown')) BY <1>1, <1>4, <1>9
<1>11. (p * U) \div U = p BY <1>6, UnitsOfPage
<1>12. ASSUME NEW o \in objects PROVE o.at # new.at
  <2>1. CASE o \in SmallObjects
    <3>1. o.at \div U \in grown BY <2>1, SmallAt
    <3>2. o.at \div U \in grown' BY <3>1, <1>1 DEF g
    <3>3. QED BY <3>2, <1>5, <1>6, <1>11
  <2>2. CASE o \notin SmallObjects
    <3>1. PICK e \in bigblocks : e.pages * U = o.at
      BY <2>2 DEF HeapInv, Holdings
    <3>2. (e.pages * U) \div U = e.pages /\ e.pages \in given BY BigAt
    <3>3. QED BY <3>1, <3>2, <1>5, <1>6, <1>11
  <2>3. QED BY <2>1, <2>2
<1>13. new \notin objects BY <1>12
<1>14. \A e \in bigblocks : e.bb \in Used BY DEF Used
<1>15. d \notin bigblocks BY <1>4, <1>5, <1>14
<1>16. Holdings'
  <2>1. \A o \in objects \cup {new} :
          o = [at |-> o.at, size |-> o.size] /\ o.at \in Int /\ o.size \in Sizes
    BY <1>5, <1>7 DEF HeapInv, Holdings
  <2>2. ASSUME NEW o \in SmallObjects PROVE K.units[o.at - 1] = o.size + 1
    <3>1. o.at - 1 \in Used BY SmallAt
    <3>2. QED BY <3>1, <1>4 DEF HeapInv, Holdings
  <2>3. ASSUME NEW e \in bigblocks \cup {d} PROVE K.units[e.bb] = BIGBLOCK
    <3>1. CASE e = d BY <3>1, <1>4, <1>5
    <3>2. CASE e \in bigblocks BY <3>2, <1>4, <1>14 DEF HeapInv, Holdings
    <3>3. QED BY <3>1, <3>2
  <2>4. ASSUME NEW e \in bigblocks \cup {d}, NEW f \in bigblocks \cup {d}, e.bb = f.bb PROVE e = f
    <3>1. e \in bigblocks /\ f \in bigblocks => e = f BY <2>4 DEF HeapInv, Holdings
    <3>2. QED BY <3>1, <2>4, <1>4, <1>5, <1>14
  <2>5. ASSUME NEW o \in SmallObjects, NEW e \in bigblocks \cup {d} PROVE o.at - 1 # e.bb
    <3>1. o.at - 1 \in Used BY SmallAt
    <3>2. CASE e = d BY <3>1, <3>2, <1>4, <1>5
    <3>3. CASE e \in bigblocks BY <3>3 DEF HeapInv, Holdings
    <3>4. QED BY <3>2, <3>3
  <2>6. ASSUME NEW o \in objects \cup {new}, NEW q \in objects \cup {new}, o.at = q.at PROVE o = q
    <3>1. o \in objects /\ q \in objects => o = q BY <2>6 DEF HeapInv, Holdings
    <3>2. QED BY <3>1, <2>6, <1>12
  <2>7. ASSUME NEW o \in (objects \cup {new}) \ SmallObjects
        PROVE  \E e \in bigblocks \cup {d} : e.pages * U = o.at /\ e.order = find_order(o.size)
    <3>1. CASE o = new
      <4>1. d.pages * U = o.at /\ d.order = find_order(o.size) BY <3>1, <1>5
      <4>2. QED BY <4>1
    <3>2. CASE o \in objects BY <3>2 DEF HeapInv, Holdings
    <3>3. QED BY <3>1, <3>2
  <2>8. QED BY <2>1, <2>2, <2>3, <2>4, <2>5, <2>6, <2>7, <1>1, <1>8 DEF Holdings
<1>17. Counted'
  <2>1. /\ IsFiniteSet(objects) /\ IsFiniteSet(bigblocks)
        /\ Cardinality(objects) = Cardinality(SmallObjects) + Cardinality(bigblocks)
    BY DEF HeapInv, Counted
  <2>2. IsFiniteSet(SmallObjects)
    <3>1. SmallObjects \subseteq objects BY DEF SmallObjects
    <3>2. QED BY <2>1, <3>1, FS_Subset
  <2>3. /\ IsFiniteSet(objects \cup {new})
        /\ Cardinality(objects \cup {new}) = Cardinality(objects) + 1
    BY <2>1, <1>13, FS_AddElement
  <2>4. /\ IsFiniteSet(bigblocks \cup {d})
        /\ Cardinality(bigblocks \cup {d}) = Cardinality(bigblocks) + 1
    BY <2>1, <1>15, FS_AddElement
  <2>5. /\ Cardinality(SmallObjects) \in Nat /\ Cardinality(bigblocks) \in Nat
    BY <2>1, <2>2, FS_CardinalityType
  <2>6. Cardinality(objects \cup {new}) = Cardinality(SmallObjects) + Cardinality(bigblocks \cup {d})
    BY <2>1, <2>3, <2>4, <2>5
  <2>7. QED BY <2>3, <2>4, <2>6, <1>1, <1>8 DEF Counted
<1>18. QED BY <1>10, <1>16, <1>17 DEF HeapInv, HeapOK, HeapUnits

LEMMA kmalloc_fails_heap ==
  ASSUME PageInv, HeapInv, NEW size \in Sizes, kmalloc_fails(size)
  PROVE  HeapInv'
<1> DEFINE n == BIGBLOCK
           H == HeapFor(n)
           cur == Found(H, n)
           K == cut(H, n)
           g == grown \cup GrownBy(n)
           W == HeapUnits(g)
<1>1. /\ (Grows(n) => CanAlloc(pm, 1)) /\ slob' = slob_free(K, cur, n)
      /\ objects' = objects /\ grown' = g /\ bigblocks' = bigblocks
  BY DEF kmalloc_fails
<1>2. n \in Nat /\ n >= 2 /\ n <= U BY SizesAssumption DEF BIGBLOCK
<1>3. HeapOK(slob, Used, HeapUnits(grown)) BY DEF HeapInv
<1> HIDE DEF n
<1>4. /\ HeapOK(K, Used \cup {cur}, W)
      /\ K.units[cur] = n /\ cur \in Nat /\ cur \notin Used
      /\ \A a \in Used : K.units[a] = slob.units[a]
  BY <1>1, <1>2, <1>3, SlobAllocIs
<1> HIDE DEF H, cur, K, g
<1>5. /\ HeapOK(slob', Used, W) /\ \A a \in Used : slob'.units[a] = slob.units[a]
  <2> DEFINE A == Used \cup {cur}
             F == slob_free(K, cur, K.units[cur])
  <2>1. HeapOK(K, A, W) /\ cur \in A BY <1>4
  <2>2. A \ {cur} = Used BY <1>4
  <2> HIDE DEF A, W
  <2>3. HeapOK(F, A \ {cur}, W) /\ \A a \in A \ {cur} : F.units[a] = K.units[a]
    BY <2>1, SlobFreeUsed
  <2>4. slob' = F BY <1>1, <1>4
  <2> HIDE DEF F
  <2>5. QED BY <2>2, <2>3, <2>4, <1>4
<1>6. SmallObjects' = SmallObjects /\ Used' = Used BY <1>1 DEF SmallObjects, IsSmall, Used
<1>7. HeapOK(slob', Used', HeapUnits(grown')) BY <1>1, <1>5, <1>6
<1>8. Holdings'
  <2>1. ASSUME NEW o \in SmallObjects PROVE slob'.units[o.at - 1] = o.size + 1
    <3>1. o.at - 1 \in Used BY SmallAt
    <3>2. QED BY <3>1, <1>5 DEF HeapInv, Holdings
  <2>2. ASSUME NEW d \in bigblocks PROVE slob'.units[d.bb] = BIGBLOCK
    <3>1. d.bb \in Used BY DEF Used
    <3>2. QED BY <3>1, <1>5 DEF HeapInv, Holdings
  <2>3. QED BY <2>1, <2>2, <1>1, <1>6 DEF HeapInv, Holdings
<1>9. Counted' BY <1>1, <1>6 DEF HeapInv, Counted
<1>10. QED BY <1>7, <1>8, <1>9 DEF HeapInv, HeapOK, HeapUnits

LEMMA kfree_heap ==
  ASSUME PageInv, HeapInv, NEW o \in objects, kfree(o)
  PROVE  HeapInv'
<1> DEFINE Of == {d \in bigblocks : o.at % U = 0 /\ d.pages * U = o.at}
           W == HeapUnits(grown)
<1>1. objects' = objects \ {o} /\ grown' = grown BY DEF kfree
<1>2. HeapOK(slob, Used, W) BY DEF HeapInv
<1>3. /\ IsFiniteSet(objects) /\ IsFiniteSet(bigblocks)
      /\ Cardinality(objects) = Cardinality(SmallObjects) + Cardinality(bigblocks)
  BY DEF HeapInv, Counted
<1>4. SmallObjects \subseteq objects /\ IsFiniteSet(SmallObjects)
  <2>1. SmallObjects \subseteq objects BY DEF SmallObjects
  <2>2. QED BY <2>1, <1>3, FS_Subset
<1>5. /\ IsFiniteSet(objects \ {o}) /\ Cardinality(objects \ {o}) = Cardinality(objects) - 1
  BY <1>3, FS_RemoveElement
<1>6. Cardinality(SmallObjects) \in Nat /\ Cardinality(bigblocks) \in Nat /\ Cardinality(objects) \in Nat
  BY <1>3, <1>4, FS_CardinalityType
<1>7. \A q, r \in objects : q.at = r.at => q = r BY DEF HeapInv, Holdings
<1>8. \A d \in bigblocks : d.bb \in Used BY DEF Used
<1>9. CASE /\ Of = {}
           /\ slob' = slob_free(slob, o.at - 1, slob.units[o.at - 1])
           /\ bigblocks' = bigblocks
  <2> DEFINE a == o.at - 1
  <2>1. o \in SmallObjects
    <3>1. SUFFICES ASSUME o \notin SmallObjects PROVE FALSE OBVIOUS
    <3>2. PICK d \in bigblocks : d.pages * U = o.at BY <3>1 DEF HeapInv, Holdings
    <3>3. (d.pages * U) % U = 0 BY BigAt
    <3>4. d \in Of BY <3>2, <3>3
    <3>5. QED BY <3>4, <1>9
  <2>2. a \in Used /\ o.at \in Nat BY <2>1, SmallAt
  <2>3. SmallObjects' = SmallObjects \ {o} BY <1>1 DEF SmallObjects, IsSmall
  <2>4. ASSUME NEW q \in SmallObjects \ {o} PROVE q.at - 1 \in Used \ {a}
    <3>1. q.at \in Nat /\ q.at - 1 \in Used /\ q \in objects BY SmallAt
    <3>2. q.at # o.at BY <3>1, <1>7
    <3>3. QED BY <3>1, <3>2, <2>2
  <2>5. ASSUME NEW d \in bigblocks PROVE d.bb \in Used \ {a}
    <3>1. a # d.bb BY <2>1 DEF HeapInv, Holdings
    <3>2. QED BY <3>1, <1>8
  <2>6. Used' = Used \ {a}
    <3>1. Used' = {q.at - 1 : q \in SmallObjects \ {o}} \cup {d.bb : d \in bigblocks}
      BY <2>3, <1>9 DEF Used
    <3>2. ASSUME NEW x \in Used \ {a} PROVE x \in Used'
      <4>1. CASE x \in {d.bb : d \in bigblocks} BY <4>1, <3>1
      <4>2. CASE x \in {q.at - 1 : q \in SmallObjects}
        <5>1. PICK q \in SmallObjects : x = q.at - 1 BY <4>2
        <5>2. q # o BY <5>1
        <5>3. QED BY <5>1, <5>2, <3>1
      <4>3. QED BY <4>1, <4>2 DEF Used
    <3>3. ASSUME NEW x \in Used' PROVE x \in Used \ {a} BY <3>1, <2>4, <2>5
    <3>4. QED BY <3>2, <3>3
  <2> DEFINE F == slob_free(slob, a, slob.units[a])
  <2>7. slob' = F BY <1>9
  <2> HIDE DEF a, W
  <2>8. HeapOK(F, Used \ {a}, W) /\ \A x \in Used \ {a} : F.units[x] = slob.units[x]
    BY <2>2, <1>2, SlobFreeUsed
  <2> HIDE DEF F
  <2>9. HeapOK(slob', Used', HeapUnits(grown')) BY <2>6, <2>7, <2>8, <1>1 DEF W
  <2>10. Holdings'
    <3>1. ASSUME NEW q \in SmallObjects \ {o} PROVE slob'.units[q.at - 1] = q.size + 1
      BY <2>4, <2>7, <2>8 DEF HeapInv, Holdings
    <3>2. ASSUME NEW d \in bigblocks PROVE slob'.units[d.bb] = BIGBLOCK
      BY <2>5, <2>7, <2>8 DEF HeapInv, Holdings
    <3>3. \A q \in (objects \ {o}) \ (SmallObjects \ {o}) :
            \E d \in bigblocks : d.pages * U = q.at /\ d.order = find_order(q.size)
      BY DEF HeapInv, Holdings
    <3>4. QED BY <3>1, <3>2, <3>3, <2>3, <1>1, <1>9 DEF HeapInv, Holdings
  <2>11. Counted'
    <3>1. Cardinality(SmallObjects \ {o}) = Cardinality(SmallObjects) - 1
      BY <2>1, <1>4, FS_RemoveElement
    <3>2. Cardinality(objects \ {o}) = Cardinality(SmallObjects \ {o}) + Cardinality(bigblocks)
      BY <3>1, <1>3, <1>5, <1>6
    <3>3. QED BY <3>2, <2>3, <1>1, <1>3, <1>5, <1>9 DEF Counted
  <2>12. QED BY <2>9, <2>10, <2>11 DEF HeapInv, HeapOK, HeapUnits
<1>10. ASSUME NEW d \in Of, bigblocks' = bigblocks \ {d},
              slob' = slob_free(slob, d.bb, BIGBLOCK)
       PROVE  HeapInv'
  <2> DEFINE a == d.bb
  <2>1. d \in bigblocks /\ d.pages * U = o.at OBVIOUS
  <2>2. o \notin SmallObjects BY <2>1, SmallNotBig
  <2>3. SmallObjects' = SmallObjects BY <2>2, <1>1 DEF SmallObjects, IsSmall
  <2>4. a \in Used /\ slob.units[a] = BIGBLOCK BY <2>1, <1>8 DEF HeapInv, Holdings
  <2>5. ASSUME NEW q \in SmallObjects PROVE q.at - 1 \in Used \ {a}
    <3>1. q.at - 1 \in Used BY SmallAt
    <3>2. q.at - 1 # a BY <2>1 DEF HeapInv, Holdings
    <3>3. QED BY <3>1, <3>2
  <2>6. ASSUME NEW e \in bigblocks \ {d} PROVE e.bb \in Used \ {a}
    <3>1. e.bb # a BY <2>1 DEF HeapInv, Holdings
    <3>2. QED BY <3>1, <1>8
  <2>7. Used' = Used \ {a}
    <3>1. Used' = {q.at - 1 : q \in SmallObjects} \cup {e.bb : e \in bigblocks \ {d}}
      BY <2>3, <1>10 DEF Used
    <3>2. ASSUME NEW x \in Used \ {a} PROVE x \in Used'
      <4>1. CASE x \in {q.at - 1 : q \in SmallObjects} BY <4>1, <3>1
      <4>2. CASE x \in {e.bb : e \in bigblocks}
        <5>1. PICK e \in bigblocks : x = e.bb BY <4>2
        <5>2. e # d BY <5>1
        <5>3. QED BY <5>1, <5>2, <3>1
      <4>3. QED BY <4>1, <4>2 DEF Used
    <3>3. ASSUME NEW x \in Used' PROVE x \in Used \ {a} BY <3>1, <2>5, <2>6
    <3>4. QED BY <3>2, <3>3
  <2> DEFINE F == slob_free(slob, a, slob.units[a])
  <2>8. slob' = F BY <2>4, <1>10
  <2> HIDE DEF a, W
  <2>9. HeapOK(F, Used \ {a}, W) /\ \A x \in Used \ {a} : F.units[x] = slob.units[x]
    BY <2>4, <1>2, SlobFreeUsed
  <2> HIDE DEF F
  <2>10. HeapOK(slob', Used', HeapUnits(grown')) BY <2>7, <2>8, <2>9, <1>1 DEF W
  <2>11. Holdings'
    <3>1. ASSUME NEW q \in SmallObjects PROVE slob'.units[q.at - 1] = q.size + 1
      BY <2>5, <2>8, <2>9 DEF HeapInv, Holdings
    <3>2. ASSUME NEW e \in bigblocks \ {d} PROVE slob'.units[e.bb] = BIGBLOCK
      BY <2>6, <2>8, <2>9 DEF HeapInv, Holdings
    <3>3. ASSUME NEW q \in (objects \ {o}) \ SmallObjects
          PROVE  \E e \in bigblocks \ {d} : e.pages * U = q.at /\ e.order = find_order(q.size)
      <4>1. PICK e \in bigblocks : e.pages * U = q.at /\ e.order = find_order(q.size)
        BY DEF HeapInv, Holdings
      <4>2. e # d BY <4>1, <2>1, <1>7
      <4>3. QED BY <4>1, <4>2
    <3>4. QED BY <3>1, <3>2, <3>3, <2>3, <1>1, <1>10 DEF HeapInv, Holdings
  <2>12. Counted'
    <3>1. /\ IsFiniteSet(bigblocks \ {d})
          /\ Cardinality(bigblocks \ {d}) = Cardinality(bigblocks) - 1
      BY <2>1, <1>3, FS_RemoveElement
    <3>2. Cardinality(objects \ {o}) = Cardinality(SmallObjects) + Cardinality(bigblocks \ {d})
      BY <3>1, <1>3, <1>5, <1>6
    <3>3. QED BY <3>1, <3>2, <2>3, <1>1, <1>5, <1>10 DEF Counted
  <2>13. QED BY <2>10, <2>11, <2>12 DEF HeapInv, HeapOK, HeapUnits
<1>11. QED BY <1>9, <1>10 DEF kfree

\* Every step keeps the invariant of the heap.
LEMMA HeapInvNext ==
  ASSUME PageInv, HeapInv, PageInv', [KNext]_allvars
  PROVE  HeapInv'
<1>1. CASE UNCHANGED kvars
  <2>1. /\ slob' = slob /\ bigblocks' = bigblocks /\ objects' = objects /\ grown' = grown
    BY <1>1 DEF kvars
  <2>2. SmallObjects' = SmallObjects /\ Used' = Used BY <2>1 DEF SmallObjects, IsSmall, Used
  <2>3. HeapOK(slob', Used', HeapUnits(grown')) BY <2>1, <2>2 DEF HeapInv
  <2>4. Holdings' /\ Counted' BY <2>1, <2>2 DEF HeapInv, Holdings, Counted
  <2>5. QED BY <2>3, <2>4 DEF HeapInv, HeapOK, HeapUnits
<1>2. CASE OtherPages BY <1>1, <1>2 DEF OtherPages
<1>3. CASE UNCHANGED allvars BY <1>1, <1>3 DEF allvars
<1>4. QED
  BY <1>2, <1>3, kmalloc_small_heap, kmalloc_big_heap, kmalloc_fails_heap, kfree_heap DEF KNext

\* The invariant of the heap, on top of that of the pages.
THEOREM HeapInvariance ==
  ASSUME Reserve > 0
  PROVE  KSpec => [](PageInv /\ HeapInv)
<1>1. KInit => PageInv /\ HeapInv BY PageInvInit, HeapInvInit
<1>2. PageInv /\ HeapInv /\ [KNext]_allvars => (PageInv /\ HeapInv)'
  BY PageInvNext, HeapInvNext
<1>3. QED BY <1>1, <1>2, PTL DEF KSpec

\* The blocks HeapExact speaks of are those of HeapOK.
LEMMA BlocksAre ==
  ASSUME HeapInv
  PROVE  LET B == (Ring(slob) \ {Arena}) \cup Used
         IN  /\ FreeBlocks \cup SmallBlocks \cup Descriptors = {<<b, slob.units[b]>> : b \in B}
             /\ \A b \in B : UnitsOf(<<b, slob.units[b]>>) = Run(b, slob.units[b])
             /\ \A b \in B : /\ b \in Nat /\ slob.units[b] \in Nat
                             /\ \A x \in Int : x \in Run(b, slob.units[b])
                                                  <=> b <= x /\ x < b + slob.units[b]
<1> DEFINE u == slob.units
           B == (Ring(slob) \ {Arena}) \cup Used
           P(b) == <<b, u[b]>>
<1>1. HeapOK(slob, Used, HeapUnits(grown)) BY DEF HeapInv
<1>2. \A b \in B : b \in Nat /\ u[b] \in Nat
  <2>1. \A b \in B : b \in DOMAIN u /\ b \in Nat BY <1>1, HeapType
  <2>2. QED BY <2>1, <1>1, HeapType
<1>3. FreeBlocks \cup SmallBlocks \cup Descriptors = {P(b) : b \in B}
  <2>1. Descriptors = {P(d.bb) : d \in bigblocks}
    <3>1. \A d \in bigblocks : u[d.bb] = BIGBLOCK BY DEF HeapInv, Holdings
    <3>2. QED BY <3>1 DEF Descriptors
  <2>2. SmallBlocks = {P(o.at - 1) : o \in SmallObjects} BY DEF SmallBlocks
  <2>3. FreeBlocks = {P(b) : b \in Ring(slob) \ {Arena}} BY DEF FreeBlocks
  <2> HIDE DEF P
  <2>4. {P(b) : b \in B} = {P(b) : b \in Ring(slob) \ {Arena}} \cup {P(b) : b \in Used} OBVIOUS
  <2>5. {P(b) : b \in Used} = {P(o.at - 1) : o \in SmallObjects} \cup {P(d.bb) : d \in bigblocks}
    BY DEF Used
  <2>6. QED BY <2>1, <2>2, <2>3, <2>4, <2>5
<1>4. ASSUME NEW b \in B PROVE UnitsOf(P(b)) = Run(b, u[b]) BY DEF UnitsOf
<1>5. ASSUME NEW b \in B PROVE \A x \in Int : x \in Run(b, u[b]) <=> b <= x /\ x < b + u[b]
  <2> DEFINE n == u[b]
  <2>1. b \in Int /\ n \in Nat BY <1>2
  <2> HIDE DEF n, B
  <2>2. \A x \in Int : x \in Run(b, n) <=> b <= x /\ x < b + n BY <2>1, RunIs
  <2>3. QED BY <2>2 DEF n
<1>6. QED BY <1>2, <1>3, <1>4, <1>5

\* For every memory and all sizes asked for, the free blocks of kmalloc.c are
\* a ring in the order of the addresses, joined as far as it goes, and make up
\* the pages of the heap together with the objects and the descriptors: no
\* order of kmalloc and kfree, with requests that fail half way, loses a unit.
THEOREM HeapAlwaysExact ==
  ASSUME Reserve > 0
  PROVE  KSpec => []HeapExact
<1>1. HeapInv => HeapExact
  <2> SUFFICES ASSUME HeapInv PROVE HeapExact OBVIOUS
  <2> DEFINE u == slob.units
             f == slob.next
             R == Ring(slob)
             B == (R \ {Arena}) \cup Used
             W == HeapUnits(grown)
             blocks == FreeBlocks \cup SmallBlocks \cup Descriptors
  <2>1. HeapOK(slob, Used, W) BY DEF HeapInv
  <2>2. /\ slob.slobfree \in R /\ Sorted(f, R) /\ R \subseteq Int /\ Arena \in R /\ u[Arena] = 1
        /\ \A a \in R : a # Arena => a \in Nat /\ u[a] >= 1
        /\ \A a \in R : u[a] \in Nat
    BY <2>1, HeapType
  <2>3. Cells(u, B, W) /\ \A a, c \in R : a < c => a + u[a] # c BY <2>1 DEF HeapOK
  <2>4. /\ blocks = {<<b, u[b]>> : b \in B}
        /\ \A b \in B : UnitsOf(<<b, u[b]>>) = Run(b, u[b])
        /\ \A b \in B : /\ b \in Nat /\ u[b] \in Nat
                        /\ \A x \in Int : x \in Run(b, u[b]) <=> b <= x /\ x < b + u[b]
    BY BlocksAre
  <2>5. W = {x \in 0 .. NP * U : x \div U \in grown} BY DEF HeapUnits, Top
  <2>6. Arena = -2 BY DEF Arena
  <2> HIDE DEF u, f, R, B, W, blocks
  <2>7. ASSUME NEW b \in R
        PROVE  LET above == {c \in R : c > b}
               IN  f[b] = IF above = {} THEN Arena ELSE Least(above)
    <3> DEFINE above == {c \in R : c > b}
    <3>1. b \in Int /\ f[b] \in R /\ f[b] \in Int BY <2>2, SortedLinks
    <3>2. f[b] # Arena => b < f[b] BY <2>2, SortedLinks
    <3>3. \A c \in R : b < c => f[b] # Arena /\ f[b] <= c BY <2>2, SortedLinks
    <3>4. CASE above = {}
      <4>1. f[b] = Arena BY <3>1, <3>2, <3>4
      <4>2. QED BY <4>1, <3>4
    <3>5. CASE above # {}
      <4>1. above \in SUBSET Int BY <2>2
      <4>2. PICK c \in R : b < c BY <3>1, <3>5, <2>2
      <4>3. f[b] # Arena BY <4>2, <3>3
      <4>4. f[b] \in above BY <4>3, <3>1, <3>2
      <4>5. \A y \in above : f[b] <= y BY <3>1, <3>3, <2>2
      <4> DEFINE x == f[b]
      <4> HIDE DEF above, x
      <4>6. Least(above) = x BY <4>1, <4>4, <4>5, LeastUnique DEF x
      <4>7. QED BY <4>6, <3>5 DEF x, above
    <3>6. QED BY <3>4, <3>5
  <2>8. ASSUME NEW b \in R PROVE b + u[b] \notin R
    <3>1. CASE b = Arena
      <4>1. b + u[b] = -1 BY <3>1, <2>2, <2>6
      <4>2. QED BY <4>1, <2>2, <2>6
    <3>2. CASE b # Arena
      <4>1. b \in Nat /\ u[b] \in Nat /\ u[b] >= 1 BY <3>2, <2>2
      <4>2. b < b + u[b] BY <4>1
      <4>3. QED BY <4>2, <2>3
    <3>3. QED BY <3>1, <3>2
  <2>9. UNION {UnitsOf(b) : b \in blocks} = W
    <3>1. ASSUME NEW blk \in blocks PROVE UnitsOf(blk) \subseteq W
      <4>1. PICK b \in B : blk = <<b, u[b]>> BY <2>4
      <4>2. UnitsOf(blk) = Run(b, u[b]) BY <4>1, <2>4
      <4>3. ASSUME NEW x \in Run(b, u[b]) PROVE x \in W
        <5>1. x \in Int BY <2>4 DEF Run
        <5>2. b <= x /\ x < b + u[b] BY <5>1, <2>4
        <5>3. QED BY <5>1, <5>2, <2>3 DEF Cells
      <4>4. QED BY <4>2, <4>3
    <3>2. ASSUME NEW x \in W PROVE \E blk \in blocks : x \in UnitsOf(blk)
      <4>1. PICK b \in B : b <= x /\ x < b + u[b] BY <2>3 DEF Cells
      <4>2. x \in Int BY <2>3 DEF Cells
      <4>3. x \in Run(b, u[b]) BY <4>1, <4>2, <2>4
      <4>4. <<b, u[b]>> \in blocks BY <2>4
      <4>5. x \in UnitsOf(<<b, u[b]>>) BY <4>3, <2>4
      <4>6. QED BY <4>4, <4>5
    <3>3. QED BY <3>1, <3>2
  <2>10. ASSUME NEW p \in blocks, NEW q \in blocks, p # q PROVE UnitsOf(p) \cap UnitsOf(q) = {}
    <3>1. PICK b \in B : p = <<b, u[b]>> BY <2>4
    <3>2. PICK c \in B : q = <<c, u[c]>> BY <2>4
    <3>3. b # c BY <3>1, <3>2, <2>10
    <3>4. UnitsOf(p) = Run(b, u[b]) /\ UnitsOf(q) = Run(c, u[c]) BY <3>1, <3>2, <2>4
    <3>5. SUFFICES ASSUME NEW x \in Run(b, u[b]), x \in Run(c, u[c]) PROVE FALSE BY <3>4
    <3>6. b \in Nat /\ c \in Nat /\ u[b] \in Nat /\ u[c] \in Nat BY <2>4
    <3>7. x \in Int BY <3>6 DEF Run
    <3>8. b <= x /\ x < b + u[b] /\ c <= x /\ x < c + u[c] BY <3>5, <3>7, <2>4
    <3>9. (b < c => b + u[b] <= c) /\ (c < b => c + u[c] <= b) BY <2>3 DEF Cells
    <3>10. QED BY <3>3, <3>6, <3>7, <3>8, <3>9
  <2>11. QED BY <2>2, <2>5, <2>7, <2>8, <2>9, <2>10 DEF HeapExact, u, f, R, blocks
<1>2. QED BY <1>1, HeapInvariance, PTL

\* find_order leaves enough pages for the sizes asked for.  It rounds down, so
\* that this is an assumption about the sizes and no fact of the code.
BigFits == \A size \in Sizes : IsSmall(size) \/ size <= U * PagesOf(find_order(size))

\* As long as the sizes of big objects fit the order find_order gives them, no
\* two objects share memory, none reaches into the header of another, into a
\* free block or a descriptor, and kfree gives back every page of a big one.
THEOREM ObjectsAlwaysApart ==
  ASSUME Reserve > 0, BigFits
  PROVE  KSpec => []ObjectsApart
<1>1. PageInv /\ HeapInv => ObjectsApart
  <2> SUFFICES ASSUME PageInv, HeapInv PROVE ObjectsApart OBVIOUS
  <2> DEFINE u == slob.units
             R == Ring(slob)
             B == (R \ {Arena}) \cup Used
             W == HeapUnits(grown)
             Big == objects \ SmallObjects
             headers == (UNION {UnitsOf(b) : b \in FreeBlocks \cup Descriptors}) \cup
                        {o.at - 1 : o \in SmallObjects}
  <2>1. U \in Nat /\ U > 3 BY SizesAssumption
  <2>2. HeapOK(slob, Used, W) BY DEF HeapInv
  <2>3. Cells(u, B, W) /\ Used \cap R = {} /\ Arena \in R BY <2>2, HeapType DEF HeapOK
  <2>4. \A b \in B : b \in Nat /\ u[b] \in Nat BY BlocksAre
  <2>5. \A o \in SmallObjects : o.at - 1 \in Used /\ u[o.at - 1] = o.size + 1
    BY SmallAt DEF HeapInv, Holdings
  <2>6. \A o \in objects : o.at \in Int /\ o.size \in Sizes /\ o.size \in Nat
    BY SizesAssumption DEF HeapInv, Holdings
  <2>7. /\ \A o, q \in objects : o.at = q.at => o = q
        /\ \A o \in SmallObjects : \A d \in bigblocks : o.at - 1 # d.bb
        /\ \A d \in bigblocks : u[d.bb] = BIGBLOCK /\ d.bb \in Used
        /\ \A o \in Big : \E d \in bigblocks : d.pages * U = o.at /\ d.order = find_order(o.size)
    BY DEF HeapInv, Holdings, Used
  <2>8. SmallObjects \subseteq objects BY DEF SmallObjects
  \* Every unit of the heap is of one block.
  <2>9. ASSUME NEW b \in B, NEW c \in B, NEW x \in Int,
               b <= x, x < b + u[b], c <= x, x < c + u[c]
        PROVE  b = c
    <3>1. (b < c => b + u[b] <= c) /\ (c < b => c + u[c] <= b) BY <2>3 DEF Cells
    <3>2. QED BY <3>1, <2>4, <2>9
  <2> HIDE DEF u, R, B, W, Big
  <2>10. Used \subseteq B /\ R \ {Arena} \subseteq B BY DEF B
  \* The units of an object.
  <2>11. ASSUME NEW o \in objects
         PROVE  \A x : x \in Memory(o) <=> x \in Int /\ o.at <= x /\ x < o.at + o.size
    <3> DEFINE a == o.at
               n == o.size
    <3>1. a \in Int /\ n \in Nat /\ Memory(o) = Run(a, n) BY <2>6 DEF Memory
    <3> HIDE DEF a, n
    <3>2. Run(a, n) \subseteq Int BY <3>1 DEF Run
    <3>3. \A x \in Int : x \in Run(a, n) <=> a <= x /\ x < a + n BY <3>1, RunIs
    <3>4. QED BY <3>1, <3>2, <3>3 DEF a, n
  <2>12. ASSUME NEW o \in SmallObjects, NEW x \in Memory(o)
         PROVE  /\ x \in Int /\ o.at - 1 <= x /\ x < (o.at - 1) + u[o.at - 1] /\ x # o.at - 1
                /\ x \div U \in grown
    <3>1. x \in Int /\ o.at <= x /\ x < o.at + o.size BY <2>8, <2>11
    <3>2. o.at \in Int /\ o.size \in Nat BY <2>6, <2>8
    <3>3. u[o.at - 1] = o.size + 1 BY <2>5
    <3>4. o.at - 1 <= x /\ x < (o.at - 1) + u[o.at - 1] /\ x # o.at - 1 BY <3>1, <3>2, <3>3
    <3>5. x \in W
      <4>1. o.at - 1 \in B BY <2>5, <2>10
      <4>2. QED BY <4>1, <3>1, <3>4, <2>3 DEF Cells
    <3>6. QED BY <3>1, <3>4, <3>5 DEF W, HeapUnits
  <2>13. ASSUME NEW o \in Big, NEW x \in Memory(o)
         PROVE  \E d \in bigblocks : d.pages * U = o.at /\ x \in Nat /\ x \div U \in PagesOfBig(d)
    <3>1. PICK d \in bigblocks : d.pages * U = o.at /\ d.order = find_order(o.size) BY <2>7
    <3>2. o \in objects BY DEF Big
    <3>3. x \in Int /\ o.at <= x /\ x < o.at + o.size BY <3>2, <2>11
    <3> DEFINE p == d.pages
               n == PagesOf(d.order)
    <3>4. p \in Nat BY BigAt
    <3>5. n \in Nat BY PagesAssumption DEF PageInv, BigOwn
    <3>6. PagesOfBig(d) = Run(p, n) BY DEF PagesOfBig
    <3>7. o.size <= U * n /\ o.size \in Nat
      <4>1. ~IsSmall(o.size) BY <3>2 DEF Big, SmallObjects
      <4>2. QED BY <4>1, <3>1, <3>2, <2>6 DEF BigFits
    <3>8. p * U <= x /\ x < p * U + U * n
      <4>1. U * n \in Nat /\ p * U \in Nat /\ p * U = o.at BY <2>1, <3>1, <3>4, <3>5
      <4> DEFINE un == U * n
                 pu == p * U
                 s == o.size
                 at == o.at
      <4>2. un \in Nat /\ pu \in Nat /\ pu = at /\ s \in Nat /\ s <= un /\ at <= x /\ x < at + s
        BY <4>1, <3>3, <3>7
      <4> HIDE DEF un, pu, s, at
      <4>3. pu <= x /\ x < pu + un BY <4>2, <3>3
      <4>4. QED BY <4>3 DEF un, pu
    <3> HIDE DEF p, n
    <3>9. x \in Nat /\ p <= x \div U /\ x \div U < p + n
      <4>1. x \in Nat
        <5>1. p * U \in Nat BY <2>1, <3>4
        <5>2. QED BY <5>1, <3>3, <3>8
      <4> DEFINE k == x \div U
                 r == x % U
      <4>2. k \in Int /\ r \in 0 .. U - 1 /\ x = U * k + r BY <4>1, <2>1
      <4> HIDE DEF k, r
      <4>3. p <= k
        <5>1. SUFFICES ASSUME k + 1 <= p PROVE FALSE BY <4>2, <3>4
        <5>2. U * (k + 1) <= U * p BY <5>1, <4>2, <3>4, <2>1
        <5>3. U * (k + 1) = U * k + U /\ U * p = p * U BY <4>2, <3>4, <2>1
        <5>4. QED BY <5>2, <5>3, <4>2, <3>8, <2>1, <3>4
      <4>4. k < p + n
        <5>1. SUFFICES ASSUME p + n <= k PROVE FALSE BY <4>2, <3>4, <3>5
        <5>2. U * (p + n) <= U * k BY <5>1, <4>2, <3>4, <3>5, <2>1
        <5>3. U * (p + n) = p * U + U * n BY <3>4, <3>5, <2>1
        <5>4. QED BY <5>2, <5>3, <4>2, <3>8, <2>1, <3>4, <3>5
      <4>5. QED BY <4>1, <4>3, <4>4 DEF k
    <3>10. x \div U \in Run(p, n)
      <4>1. x \div U \in Int BY <3>9, <2>1
      <4>2. QED BY <4>1, <3>4, <3>5, <3>9, RunIs
    <3>11. QED BY <3>1, <3>6, <3>9, <3>10
  <2>14. \A d \in bigblocks : PagesOfBig(d) \cap grown = {} /\ d.pages \in Nat
    BY BigAt DEF PageInv
  <2>15. ASSUME NEW o \in objects, NEW q \in objects, o # q PROVE Memory(o) \cap Memory(q) = {}
    <3>1. SUFFICES ASSUME NEW x \in Memory(o), x \in Memory(q) PROVE FALSE OBVIOUS
    <3>2. o.at # q.at BY <2>7, <2>15
    <3>3. CASE o \in SmallObjects /\ q \in SmallObjects
      <4> DEFINE b == o.at - 1
                 c == q.at - 1
      <4>1. b \in B /\ c \in B BY <3>3, <2>5, <2>10
      <4>2. x \in Int /\ b <= x /\ x < b + u[b] /\ c <= x /\ x < c + u[c] BY <3>1, <3>3, <2>12
      <4>3. b = c
        <5> HIDE DEF b, c
        <5>1. QED BY <4>1, <4>2, <2>9
      <4>4. QED BY <4>3, <3>2, <2>6
    <3>4. CASE o \in SmallObjects /\ q \notin SmallObjects
      <4>1. x \div U \in grown BY <3>4, <2>12
      <4>2. q \in Big BY <3>4 DEF Big
      <4>3. QED BY <4>1, <4>2, <3>1, <2>13, <2>14
    <3>5. CASE o \notin SmallObjects /\ q \in SmallObjects
      <4>1. x \div U \in grown BY <3>1, <3>5, <2>12
      <4>2. o \in Big BY <3>5 DEF Big
      <4>3. QED BY <4>1, <4>2, <2>13, <2>14
    <3>6. CASE o \notin SmallObjects /\ q \notin SmallObjects
      <4>1. o \in Big /\ q \in Big BY <3>6 DEF Big
      <4>2. PICK d \in bigblocks : d.pages * U = o.at /\ x \div U \in PagesOfBig(d)
        BY <4>1, <2>13
      <4>3. PICK e \in bigblocks : e.pages * U = q.at /\ x \div U \in PagesOfBig(e)
        BY <4>1, <3>1, <2>13
      <4>4. d # e BY <4>2, <4>3, <3>2
      <4>5. PagesOfBig(d) \cap PagesOfBig(e) = {} BY <4>4 DEF PageInv, BigOwn
      <4>6. QED BY <4>2, <4>3, <4>5
    <3>7. QED BY <3>3, <3>4, <3>5, <3>6
  \* What is neither an object nor outside the heap.
  <2>16. ASSUME NEW x \in headers
         PROVE  /\ x \div U \in grown
                /\ \E b \in B : /\ x \in Int /\ b <= x /\ x < b + u[b]
                                /\ \A o \in SmallObjects : b = o.at - 1 => x = b
    <3>1. ASSUME NEW b \in B, x \in Run(b, u[b]) PROVE x \in Int /\ b <= x /\ x < b + u[b]
      <4> DEFINE n == u[b]
      <4>1. b \in Nat /\ n \in Nat /\ x \in Run(b, n) BY <3>1, <2>4
      <4> HIDE DEF n
      <4>2. x \in Int BY <4>1 DEF Run
      <4>3. b <= x /\ x < b + n BY <4>1, <4>2, RunIs
      <4>4. QED BY <4>2, <4>3 DEF n
    <3>2. ASSUME NEW b \in B, x \in Int, b <= x, x < b + u[b] PROVE x \div U \in grown
      <4>1. x \in W BY <3>2, <2>3 DEF Cells
      <4>2. QED BY <4>1 DEF W, HeapUnits
    <3>3. CASE x \in UNION {UnitsOf(b) : b \in FreeBlocks}
      <4>1. PICK b \in R \ {Arena} : x \in UnitsOf(<<b, u[b]>>) BY <3>3 DEF FreeBlocks, u, R
      <4>2. x \in Run(b, u[b]) BY <4>1 DEF UnitsOf
      <4>3. b \in B BY <2>10
      <4>4. \A o \in SmallObjects : b # o.at - 1 BY <2>3, <2>5
      <4>5. QED BY <4>2, <4>3, <4>4, <3>1, <3>2
    <3>4. CASE x \in UNION {UnitsOf(b) : b \in Descriptors}
      <4>1. PICK d \in bigblocks : x \in UnitsOf(<<d.bb, BIGBLOCK>>) BY <3>4 DEF Descriptors
      <4>2. x \in Run(d.bb, u[d.bb]) BY <4>1, <2>7 DEF UnitsOf
      <4>3. d.bb \in B BY <2>7, <2>10
      <4>4. \A o \in SmallObjects : d.bb # o.at - 1 BY <2>7
      <4>5. QED BY <4>2, <4>3, <4>4, <3>1, <3>2
    <3>5. CASE x \in {o.at - 1 : o \in SmallObjects}
      <4>1. PICK o \in SmallObjects : x = o.at - 1 BY <3>5
      <4>2. x \in B /\ u[x] = o.size + 1 BY <4>1, <2>5, <2>10
      <4>3. x \in Int /\ o.size \in Nat BY <4>2, <2>4, <2>6, <2>8
      <4>4. x <= x /\ x < x + u[x] BY <4>2, <4>3
      <4>5. QED BY <4>2, <4>3, <4>4, <3>2
    <3>6. CASE x \in UNION {UnitsOf(b) : b \in FreeBlocks \cup Descriptors}
      <4>1. PICK blk \in FreeBlocks \cup Descriptors : x \in UnitsOf(blk) BY <3>6
      <4>2. CASE blk \in FreeBlocks
        <5>1. x \in UNION {UnitsOf(b) : b \in FreeBlocks} BY <4>1, <4>2
        <5>2. QED BY <5>1, <3>3
      <4>3. CASE blk \in Descriptors
        <5>1. x \in UNION {UnitsOf(b) : b \in Descriptors} BY <4>1, <4>3
        <5>2. QED BY <5>1, <3>4
      <4>4. QED BY <4>2, <4>3
    <3>7. QED BY <3>5, <3>6, Zenon
  <2>17. ASSUME NEW o \in objects PROVE Memory(o) \cap headers = {}
    <3>1. SUFFICES ASSUME NEW x \in Memory(o), x \in headers PROVE FALSE OBVIOUS
    <3>2. CASE o \in SmallObjects
      <4>1. PICK b \in B : /\ x \in Int /\ b <= x /\ x < b + u[b]
                           /\ \A q \in SmallObjects : b = q.at - 1 => x = b
        BY <3>1, <2>16
      <4> DEFINE c == o.at - 1
      <4>2. c \in B /\ c <= x /\ x < c + u[c] /\ x # c BY <3>2, <2>5, <2>10, <2>12
      <4>3. b = c
        <5> HIDE DEF c
        <5>1. QED BY <4>1, <4>2, <2>9
      <4>4. QED BY <4>1, <4>2, <4>3, <3>2
    <3>3. CASE o \notin SmallObjects
      <4>1. o \in Big BY <3>3 DEF Big
      <4>2. x \div U \in grown BY <3>1, <2>16
      <4>3. QED BY <4>1, <4>2, <2>13, <2>14
    <3>4. QED BY <3>2, <3>3
  <2>18. BigPages = UNION {PagesOfBig(d) : d \in bigblocks} BY DEF BigPages, PagesOfBig
  <2>19. ASSUME NEW o \in objects, NEW x \in Memory(o) PROVE x \div U \in grown \cup BigPages
    <3>1. CASE o \in SmallObjects BY <3>1, <2>12
    <3>2. CASE o \notin SmallObjects
      <4>1. o \in Big BY <3>2 DEF Big
      <4>2. QED BY <4>1, <2>13, <2>18
    <3>3. QED BY <3>1, <3>2
  <2>20. grown \cap BigPages = {} BY <2>14, <2>18
  <2>21. Cardinality(objects) = Cardinality(SmallObjects) + Cardinality(bigblocks)
    BY DEF HeapInv, Counted
  <2>22. QED BY <2>15, <2>17, <2>19, <2>20, <2>21 DEF ObjectsApart
<1>2. QED BY <1>1, HeapInvariance, PTL

=============================================================================
