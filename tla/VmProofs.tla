------------------------------ MODULE VmProofs ------------------------------
(***************************************************************************)
(* Theorems about address spaces.                                          *)
(*                                                                         *)
(* An address space is a set of slots, each with a page: the directory     *)
(* <<0, 0>>, the level-0 directories <<1, d>>, the tables <<2, t>> and the *)
(* user pages <<3, la>>.  Kept says that such slots and the free list      *)
(* make up a set A of pages without overlap, with the right reference      *)
(* counts; a call for one process neither takes from nor adds to its A,    *)
(* and touches nothing else (Only).                                        *)
(***************************************************************************)
EXTENDS Vm, FiniteSetTheorems, SequenceTheorems, WellFoundedInduction, TLAPS

-----------------------------------------------------------------------------
\* What the memory can be.
Maps(S) == UNION {[D -> S] : D \in SUBSET Nat}
Entries == [v : BOOLEAN, at : Nat]
Vmas == [start : Nat, end : Nat, w : BOOLEAN]
Spaces == [pgdir : Pages \cup {Boot, None}, vmas : Seq(Vmas),
           pde1 : Maps(Pages), pde0 : Maps(Pages), pte : Maps(Entries)]
Memories == [free : SUBSET Pages, ref : [Pages -> Int], content : [Pages -> Values],
             mm : [Procs -> Spaces], kstack : [Users -> Pages \cup {None}],
             cr3 : [Users -> Pages \cup {Boot}], check : BOOLEAN,
             pra : Seq([page : Pages, vaddr : Vas]), swap : Maps(Values)]

Slots(s) == {<<0, 0>>} \cup {<<1, d>> : d \in DOMAIN s.pde1}
            \cup {<<2, t>> : t \in DOMAIN s.pde0} \cup {<<3, la>> : la \in DOMAIN s.pte}
PageAt(s, u) == IF u[1] = 0 THEN s.pgdir ELSE IF u[1] = 1 THEN s.pde1[u[2]]
                ELSE IF u[1] = 2 THEN s.pde0[u[2]] ELSE s.pte[u[2]].at
Own(s) == {PageAt(s, u) : u \in Slots(s)}
Injective(s) == \A u, v \in Slots(s) : PageAt(s, u) = PageAt(s, v) => u = v

Kept(mem, p, A) ==
  LET s == mem.mm[p] IN
  /\ mem \in Memories /\ s.pgdir \in Pages /\ A \subseteq Pages
  /\ A = mem.free \cup Own(s) /\ mem.free \cap Own(s) = {}
  /\ Injective(s)
  /\ \A x \in A : mem.ref[x] = IF x \in mem.free \/ x = s.pgdir THEN 0 ELSE 1

\* The tables are there for pages of R, the directories for tables.
Shape(s, R) ==
  /\ \A la \in DOMAIN s.pte : s.pte[la].v /\ la \in R /\ la \div PTSIZE \in DOMAIN s.pde0
  /\ \A t \in DOMAIN s.pde0 : DirOf(t) \in DOMAIN s.pde1 /\ \E la \in R : t = la \div PTSIZE
  /\ \A d \in DOMAIN s.pde1 : \E t \in DOMAIN s.pde0 : d = DirOf(t)

Only(mem, m2, p, A) ==
  /\ m2.kstack = mem.kstack /\ m2.cr3 = mem.cr3 /\ m2.check = mem.check
  /\ m2.pra = mem.pra /\ m2.swap = mem.swap
  /\ \A q \in Procs \ {p} : m2.mm[q] = mem.mm[q]
  /\ \A x \in Pages \ A : m2.ref[x] = mem.ref[x] /\ m2.content[x] = mem.content[x]

\* There are free pages for the slots of K that are still empty.
Room(s, K, A) ==
  /\ IsFiniteSet(K) /\ Slots(s) \subseteq K
  /\ Cardinality(K) <= Cardinality(A)

-----------------------------------------------------------------------------
\* The assumptions on the constants in the form the provers use.
LEMMA Constants ==
  /\ NP \in Nat /\ CheckRp \in Nat /\ CheckRp >= 1 /\ CheckRp + 2 <= NP
  /\ PTSIZE \in Nat /\ PTSIZE >= 1 /\ PDSIZE \in Nat /\ PDSIZE >= 1 /\ PDSIZE % PTSIZE = 0
  /\ CheckVp \in Nat /\ CheckVp >= 1 /\ CheckVp <= PTSIZE
  /\ StackFrom \in Nat /\ StackTo \in Nat /\ LoadStack \in Nat /\ LoadStack >= 1
  /\ LoadStack <= StackTo - StackFrom /\ StackTo >= 1
  /\ 0 \in Values /\ Check \notin Users /\ MaxCalls \in Nat /\ None \notin Int
  /\ 0 \in Vas /\ Boot \notin Pages /\ None \notin Pages /\ None # Boot
  /\ Pages \subseteq Nat /\ Vas \subseteq Nat
BY VmAssumption DEF Vas, Pages, Boot

\* Maps: partial functions on Nat.
LEMMA MapsIs ==
  ASSUME NEW S, NEW f
  PROVE  f \in Maps(S) <=> /\ f \in [DOMAIN f -> S] /\ DOMAIN f \subseteq Nat
BY DEF Maps

LEMMA PutIs ==
  ASSUME NEW f, NEW x, NEW y
  PROVE  /\ DOMAIN Put(f, x, y) = DOMAIN f \cup {x}
         /\ Put(f, x, y)[x] = y
         /\ \A z \in DOMAIN f : z # x => Put(f, x, y)[z] = f[z]
         /\ \A S : f \in Maps(S) /\ x \in Nat /\ y \in S => Put(f, x, y) \in Maps(S)
<1>1. \A S : f \in Maps(S) /\ x \in Nat /\ y \in S => Put(f, x, y) \in [DOMAIN f \cup {x} -> S]
  BY MapsIs DEF Put
<1>2. DOMAIN Put(f, x, y) = DOMAIN f \cup {x} BY DEF Put
<1>3. QED BY <1>1, <1>2, MapsIs DEF Put

LEMMA WithoutIs ==
  ASSUME NEW f, NEW D
  PROVE  /\ DOMAIN Without(f, D) = DOMAIN f \ D
         /\ \A z \in DOMAIN f \ D : Without(f, D)[z] = f[z]
         /\ \A S : f \in Maps(S) => Without(f, D) \in Maps(S)
<1>1. \A S : f \in Maps(S) => Without(f, D) \in [DOMAIN f \ D -> S]
  BY MapsIs DEF Without
<1>2. DOMAIN Without(f, D) = DOMAIN f \ D BY DEF Without
<1>3. QED BY <1>1, <1>2, MapsIs DEF Without

LEMMA EmptyIs == DOMAIN Empty = {} /\ \A S : Empty \in Maps(S)
<1>1. DOMAIN Empty = {} BY DEF Empty
<1>2. \A S : Empty \in [{} -> S] BY DEF Empty
<1>3. QED BY <1>1, <1>2, MapsIs

\* The quotient of a division.
LEMMA Quotient ==
  ASSUME NEW n \in Nat, NEW b \in Nat, b >= 1
  PROVE  /\ n \div b \in Nat /\ b * (n \div b) <= n /\ n < b * (n \div b + 1)
         /\ n % b = 0 => n = b * (n \div b)
OBVIOUS

LEMMA QuotientIs ==
  ASSUME NEW n \in Nat, NEW b \in Nat, b >= 1, NEW q \in Nat, b * q <= n, n < b * (q + 1)
  PROVE  n \div b = q
<1> DEFINE r == n \div b
<1>1. r \in Nat /\ b * r <= n /\ n < b * (r + 1) BY Quotient
<1> HIDE DEF r
<1>2. b * q < b * (r + 1) /\ b * r < b * (q + 1) BY <1>1
<1>3. q < r + 1 /\ r < q + 1 BY <1>1, <1>2
<1>4. r = q BY <1>1, <1>3
<1>5. QED BY <1>4 DEF r

\* Where a page has its table and its directory.
LEMMA Division ==
  ASSUME NEW la \in Nat
  PROVE  /\ la \div PTSIZE \in Nat /\ la \div PDSIZE \in Nat
         /\ DirOf(la \div PTSIZE) = la \div PDSIZE
<1> DEFINE q == la \div PTSIZE
           d == la \div PDSIZE
           k == PDSIZE \div PTSIZE
<1>1. PTSIZE \in Nat /\ PTSIZE >= 1 /\ PDSIZE \in Nat /\ PDSIZE >= 1 /\ PDSIZE % PTSIZE = 0
  BY Constants
<1>2. q \in Nat /\ d \in Nat /\ k \in Nat BY <1>1, Quotient
<1>3. PTSIZE * q <= la /\ la < PTSIZE * (q + 1) BY <1>1, Quotient
<1>4. PDSIZE * d <= la /\ la < PDSIZE * (d + 1) BY <1>1, Quotient
<1>5. PDSIZE = PTSIZE * k BY <1>1, Quotient
<1> HIDE DEF q, d, k
<1>6. PTSIZE * (k * d) < PTSIZE * (q + 1) BY <1>1, <1>2, <1>3, <1>4, <1>5
<1>7. k * d < q + 1 BY <1>1, <1>2, <1>6
<1>8. PTSIZE * (k * d) <= PTSIZE * q BY <1>1, <1>2, <1>7
<1>9. PDSIZE * d <= q * PTSIZE /\ q * PTSIZE < PDSIZE * (d + 1)
  BY <1>1, <1>2, <1>3, <1>4, <1>5, <1>8
<1>10. q * PTSIZE \in Nat BY <1>1, <1>2
<1>11. (q * PTSIZE) \div PDSIZE = d BY <1>1, <1>2, <1>9, <1>10, QuotientIs
<1>12. QED BY <1>2, <1>11 DEF q, d, DirOf

-----------------------------------------------------------------------------
\* A page is taken off the free list.
LEMMA TakePage ==
  ASSUME NEW mem, NEW p, NEW A, Kept(mem, p, A), NEW x \in mem.free
  PROVE  Kept([mem EXCEPT !.free = @ \ {x}], p, A \ {x})
<1> DEFINE m2 == [mem EXCEPT !.free = @ \ {x}]
<1>1. m2 \in Memories /\ m2.free = mem.free \ {x} /\ m2.mm = mem.mm /\ m2.ref = mem.ref
  BY DEF Kept, Memories
<1> HIDE DEF m2
<1>2. Kept(m2, p, A \ {x}) BY <1>1 DEF Kept
<1>3. QED BY <1>2 DEF m2

\* A page x that is in no list becomes that of a slot u.
NewSlot(s, s2, u, x) ==
  /\ s2 \in Spaces /\ s2.pgdir = s.pgdir
  /\ u \notin Slots(s) /\ Slots(s2) = Slots(s) \cup {u} /\ PageAt(s2, u) = x
  /\ \A v \in Slots(s) : PageAt(s2, v) = PageAt(s, v)

Filled(mem, m2, p, B, u, x) ==
  /\ Kept(mem, p, B) /\ x \in Pages \ B
  /\ m2 \in Memories /\ m2.free = mem.free
  /\ NewSlot(mem.mm[p], m2.mm[p], u, x)
  /\ m2.ref[x] = 1 /\ \A y \in B : m2.ref[y] = mem.ref[y]

LEMMA FillSlot ==
  ASSUME NEW mem, NEW m2, NEW p, NEW B, NEW u, NEW x, Filled(mem, m2, p, B, u, x)
  PROVE  Kept(m2, p, B \cup {x})
<1> USE DEF Filled, NewSlot
<1>1. Own(m2.mm[p]) = Own(mem.mm[p]) \cup {x} BY DEF Own
<1>2. x \notin Own(mem.mm[p]) /\ x \notin mem.free BY DEF Kept
<1>3. Injective(m2.mm[p]) BY <1>2 DEF Kept, Injective, Own
<1>4. x # mem.mm[p].pgdir
  <2>1. <<0, 0>> \in Slots(mem.mm[p]) /\ PageAt(mem.mm[p], <<0, 0>>) = mem.mm[p].pgdir
    BY DEF Slots, PageAt
  <2>2. QED BY <1>2, <2>1 DEF Own
<1>5. QED BY <1>1, <1>2, <1>3, <1>4 DEF Kept

LEMMA HasFree ==
  ASSUME NEW mem, NEW p, NEW A, Kept(mem, p, A), NEW K, Room(mem.mm[p], K, A),
         NEW u \in K, u \notin Slots(mem.mm[p])
  PROVE  mem.free # {}
<1> DEFINE S == Slots(mem.mm[p])
           f == [v \in S |-> PageAt(mem.mm[p], v)]
<1>1. SUFFICES ASSUME mem.free = {} PROVE FALSE OBVIOUS
<1>2. A = Own(mem.mm[p]) BY <1>1 DEF Kept
<1>3. S \subseteq K \ {u} /\ IsFiniteSet(K) /\ Cardinality(K) <= Cardinality(A) BY DEF Room
<1> HIDE DEF S
<1>4. IsFiniteSet(K \ {u}) /\ Cardinality(K \ {u}) = Cardinality(K) - 1 BY <1>3, FS_RemoveElement
<1>5. IsFiniteSet(S) /\ Cardinality(S) <= Cardinality(K \ {u}) BY <1>3, <1>4, FS_Subset
<1>6. f \in Surjection(S, A) BY <1>2 DEF Surjection, Own, S
<1>7. IsFiniteSet(A) /\ Cardinality(A) <= Cardinality(S)
  <2> HIDE DEF f
  <2>1. QED BY <1>5, <1>6, FS_Surjection
<1>8. Cardinality(A) \in Nat /\ Cardinality(S) \in Nat /\ Cardinality(K) \in Nat
  BY <1>3, <1>5, <1>7, FS_CardinalityType
<1>9. QED BY <1>3, <1>4, <1>5, <1>7, <1>8

\* alloc_page with a free page gives the first one.
LEMMA NatLeast ==
  ASSUME NEW T \in SUBSET Nat, T # {}
  PROVE  \E x \in T : \A y \in T : x <= y
<1> DEFINE R == OpToRel(<, Nat)
<1>1. IsWellFoundedOn(R, Nat) BY NatLessThanWellFounded
<1>2. \A x, y \in Nat : x < y => <<x, y>> \in R BY DEF OpToRel
<1> HIDE DEF R
<1>3. PICK x \in T : \A y \in T : ~(<<y, x>> \in R) BY <1>1, WFMin
<1>4. \A y \in T : ~(y < x) BY <1>2, <1>3
<1>5. \A y \in T : x \in Nat /\ y \in Nat OBVIOUS
<1>6. QED BY <1>4, <1>5

LEMMA LeastIs ==
  ASSUME NEW S \in SUBSET Nat, S # {}
  PROVE  Least(S) \in S /\ \A x \in S : Least(S) <= x
BY NatLeast DEF Least

LEMMA AllocIs ==
  ASSUME NEW mem \in Memories, mem.free # {}
  PROVE  /\ NextPage(mem) \in mem.free
         /\ alloc_page(mem) = [mem EXCEPT !.free = @ \ {NextPage(mem)}]
<1>1. mem.free \in SUBSET Nat BY Constants DEF Memories
<1>2. Ready(mem) = mem BY DEF Ready
<1>3. QED BY <1>1, <1>2, LeastIs DEF NextPage, alloc_page

-----------------------------------------------------------------------------
\* The first part of get_pte: a directory for d.
PutDir(mem, p, d) ==
  [alloc_page(mem) EXCEPT !.ref[NextPage(mem)] = 1, !.mm[p].pde1 = Put(@, d, NextPage(mem))]
PutTable(mem, p, t) ==
  [alloc_page(mem) EXCEPT !.ref[NextPage(mem)] = 1, !.mm[p].pde0 = Put(@, t, NextPage(mem))]

\* A new entry is a new slot; the others are as they were.
LEMMA DirSlot ==
  ASSUME NEW s \in Spaces, NEW d \in Nat, d \notin DOMAIN s.pde1, NEW x \in Pages
  PROVE  LET s2 == [s EXCEPT !.pde1 = Put(@, d, x)] IN
         /\ s2.pgdir = s.pgdir /\ s2.vmas = s.vmas /\ s2.pde0 = s.pde0 /\ s2.pte = s.pte
         /\ s2.pde1 = Put(s.pde1, d, x)
         /\ NewSlot(s, s2, <<1, d>>, x)
<1> DEFINE f == Put(s.pde1, d, x)
           s2 == [s EXCEPT !.pde1 = f]
<1>1. f \in Maps(Pages) BY PutIs, Constants DEF Spaces
<1>2. DOMAIN f = DOMAIN s.pde1 \cup {d} /\ f[d] = x /\ \A z \in DOMAIN s.pde1 : f[z] = s.pde1[z]
  BY DEF Put
<1> HIDE DEF f
<1>3. s2 \in Spaces BY <1>1 DEF Spaces
<1>4. s2.pgdir = s.pgdir /\ s2.vmas = s.vmas /\ s2.pde0 = s.pde0 /\ s2.pte = s.pte /\ s2.pde1 = f
  BY DEF Spaces
<1> HIDE DEF s2
<1>5. Slots(s2) = Slots(s) \cup {<<1, d>>}
  <2>1. {<<1, z>> : z \in DOMAIN f} = {<<1, z>> : z \in DOMAIN s.pde1} \cup {<<1, d>>}
    BY <1>2
  <2>2. QED BY <1>4, <2>1, Zenon DEF Slots
<1>6. <<1, d>> \notin Slots(s) BY DEF Slots
<1>7. PageAt(s2, <<1, d>>) = x BY <1>2, <1>4 DEF PageAt
<1>8. \A v \in Slots(s) : PageAt(s2, v) = PageAt(s, v) BY <1>2, <1>4 DEF PageAt, Slots
<1>9. QED BY <1>3, <1>4, <1>5, <1>6, <1>7, <1>8 DEF s2, f, NewSlot

LEMMA TableSlot ==
  ASSUME NEW s \in Spaces, NEW d \in Nat, d \notin DOMAIN s.pde0, NEW x \in Pages
  PROVE  LET s2 == [s EXCEPT !.pde0 = Put(@, d, x)] IN
         /\ s2.pgdir = s.pgdir /\ s2.vmas = s.vmas /\ s2.pde1 = s.pde1 /\ s2.pte = s.pte
         /\ s2.pde0 = Put(s.pde0, d, x)
         /\ NewSlot(s, s2, <<2, d>>, x)
<1> DEFINE f == Put(s.pde0, d, x)
           s2 == [s EXCEPT !.pde0 = f]
<1>1. f \in Maps(Pages) BY PutIs, Constants DEF Spaces
<1>2. DOMAIN f = DOMAIN s.pde0 \cup {d} /\ f[d] = x /\ \A z \in DOMAIN s.pde0 : f[z] = s.pde0[z]
  BY DEF Put
<1> HIDE DEF f
<1>3. s2 \in Spaces BY <1>1 DEF Spaces
<1>4. s2.pgdir = s.pgdir /\ s2.vmas = s.vmas /\ s2.pde1 = s.pde1 /\ s2.pte = s.pte /\ s2.pde0 = f
  BY DEF Spaces
<1> HIDE DEF s2
<1>5. Slots(s2) = Slots(s) \cup {<<2, d>>}
  <2>1. {<<2, z>> : z \in DOMAIN f} = {<<2, z>> : z \in DOMAIN s.pde0} \cup {<<2, d>>}
    BY <1>2
  <2>2. QED BY <1>4, <2>1, Zenon DEF Slots
<1>6. <<2, d>> \notin Slots(s) BY DEF Slots
<1>7. PageAt(s2, <<2, d>>) = x BY <1>2, <1>4 DEF PageAt
<1>8. \A v \in Slots(s) : PageAt(s2, v) = PageAt(s, v) BY <1>2, <1>4 DEF PageAt, Slots
<1>9. QED BY <1>3, <1>4, <1>5, <1>6, <1>7, <1>8 DEF s2, f, NewSlot

LEMMA PageSlot ==
  ASSUME NEW s \in Spaces, NEW d \in Nat, d \notin DOMAIN s.pte, NEW x \in Pages
  PROVE  LET s2 == [s EXCEPT !.pte = Put(@, d, Valid(x))] IN
         /\ s2.pgdir = s.pgdir /\ s2.vmas = s.vmas /\ s2.pde1 = s.pde1 /\ s2.pde0 = s.pde0
         /\ s2.pte = Put(s.pte, d, Valid(x))
         /\ NewSlot(s, s2, <<3, d>>, x)
<1> DEFINE f == Put(s.pte, d, Valid(x))
           s2 == [s EXCEPT !.pte = f]
<1>1. f \in Maps(Entries) BY PutIs, Constants DEF Spaces, Entries, Valid
<1>2. DOMAIN f = DOMAIN s.pte \cup {d} /\ f[d] = Valid(x) /\ \A z \in DOMAIN s.pte : f[z] = s.pte[z]
  BY DEF Put
<1> HIDE DEF f
<1>3. s2 \in Spaces BY <1>1 DEF Spaces
<1>4. s2.pgdir = s.pgdir /\ s2.vmas = s.vmas /\ s2.pde1 = s.pde1 /\ s2.pde0 = s.pde0 /\ s2.pte = f
  BY DEF Spaces
<1> HIDE DEF s2
<1>5. Slots(s2) = Slots(s) \cup {<<3, d>>}
  <2>1. {<<3, z>> : z \in DOMAIN f} = {<<3, z>> : z \in DOMAIN s.pte} \cup {<<3, d>>}
    BY <1>2
  <2>2. QED BY <1>4, <2>1, Zenon DEF Slots
<1>6. <<3, d>> \notin Slots(s) BY DEF Slots
<1>7. PageAt(s2, <<3, d>>) = x BY <1>2, <1>4 DEF PageAt, Valid
<1>8. \A v \in Slots(s) : PageAt(s2, v) = PageAt(s, v) BY <1>2, <1>4 DEF PageAt, Slots
<1>9. QED BY <1>3, <1>4, <1>5, <1>6, <1>7, <1>8 DEF s2, f, NewSlot

\* A free page becomes the page of a new slot.
WithTable(mem, p, s2) ==
  [alloc_page(mem) EXCEPT !.ref[NextPage(mem)] = 1, !.mm[p] = s2]

LEMMA AddTable ==
  ASSUME NEW mem, NEW p \in Procs, NEW A, Kept(mem, p, A), mem.free # {},
         NEW s2, NEW u, NewSlot(mem.mm[p], s2, u, NextPage(mem))
  PROVE  LET m2 == WithTable(mem, p, s2) IN
         Kept(m2, p, A) /\ Only(mem, m2, p, A) /\ m2.content = mem.content /\ m2.mm[p] = s2
<1> DEFINE x == NextPage(mem)
           m1 == alloc_page(mem)
           r2 == [m1.ref EXCEPT ![x] = 1]
           mm2 == [m1.mm EXCEPT ![p] = s2]
           m2 == WithTable(mem, p, s2)
<1>1. mem \in Memories /\ A \subseteq Pages /\ s2 \in Spaces BY DEF Kept, NewSlot
<1>2. x \in mem.free /\ m1 = [mem EXCEPT !.free = @ \ {x}] BY <1>1, AllocIs
<1>3. x \in Pages /\ x \in A BY <1>1, <1>2 DEF Kept
<1>4. Kept(m1, p, A \ {x}) BY <1>2, TakePage
<1>5. m1 \in Memories /\ m1.mm = mem.mm /\ m1.ref = mem.ref /\ m1.content = mem.content
      /\ m1.kstack = mem.kstack /\ m1.cr3 = mem.cr3 /\ m1.check = mem.check
      /\ m1.pra = mem.pra /\ m1.swap = mem.swap
  BY <1>1, <1>2, <1>4 DEF Kept, Memories
<1>6. m2 = [m1 EXCEPT !.ref = r2, !.mm = mm2] BY <1>5 DEF Memories, WithTable
<1> HIDE DEF x, m1, m2
<1>7. r2 \in [Pages -> Int] /\ r2[x] = 1 /\ \A y \in Pages : y # x => r2[y] = m1.ref[y]
  BY <1>3, <1>5 DEF Memories
<1>8. mm2 \in [Procs -> Spaces] /\ mm2[p] = s2 /\ \A q \in Procs \ {p} : mm2[q] = m1.mm[q]
  BY <1>1, <1>5 DEF Memories
<1> HIDE DEF r2, mm2
<1>9. /\ m2 \in Memories /\ m2.free = m1.free /\ m2.content = m1.content
      /\ m2.ref = r2 /\ m2.mm = mm2
      /\ m2.kstack = m1.kstack /\ m2.cr3 = m1.cr3 /\ m2.check = m1.check
      /\ m2.pra = m1.pra /\ m2.swap = m1.swap
  BY <1>5, <1>6, <1>7, <1>8 DEF Memories
<1>10. Filled(m1, m2, p, A \ {x}, u, x)
  <2>1. x \in Pages \ (A \ {x}) BY <1>3
  <2>2. NewSlot(m1.mm[p], m2.mm[p], u, x) BY <1>5, <1>8, <1>9 DEF x
  <2>3. m2.ref[x] = 1 /\ \A y \in A \ {x} : m2.ref[y] = m1.ref[y] BY <1>1, <1>7, <1>9
  <2>4. QED BY <1>4, <1>9, <2>1, <2>2, <2>3 DEF Filled
<1>11. Kept(m2, p, A)
  <2>1. (A \ {x}) \cup {x} = A BY <1>3
  <2>2. QED BY <1>10, <2>1, FillSlot
<1>12. Only(mem, m2, p, A) BY <1>3, <1>5, <1>7, <1>8, <1>9 DEF Only
<1>13. QED BY <1>5, <1>8, <1>9, <1>11, <1>12 DEF m2, m1, x

LEMMA PutDirIs ==
  ASSUME NEW mem, NEW p \in Procs, NEW A, Kept(mem, p, A), mem.free # {},
         NEW d \in Nat, d \notin DOMAIN mem.mm[p].pde1
  PROVE  LET m2 == PutDir(mem, p, d) IN
         /\ Kept(m2, p, A) /\ Only(mem, m2, p, A) /\ m2.content = mem.content
         /\ m2.mm[p].pgdir = mem.mm[p].pgdir /\ m2.mm[p].vmas = mem.mm[p].vmas
         /\ m2.mm[p].pde0 = mem.mm[p].pde0 /\ m2.mm[p].pte = mem.mm[p].pte
         /\ DOMAIN m2.mm[p].pde1 = DOMAIN mem.mm[p].pde1 \cup {d}
         /\ Slots(m2.mm[p]) = Slots(mem.mm[p]) \cup {<<1, d>>}
<1> DEFINE x == NextPage(mem)
           s == mem.mm[p]
           s2 == [s EXCEPT !.pde1 = Put(@, d, x)]
           m2 == WithTable(mem, p, s2)
<1>1. mem \in Memories /\ s \in Spaces BY DEF Kept, Memories
<1>2. x \in Pages BY <1>1, AllocIs DEF Memories
<1>3. PutDir(mem, p, d) = m2 BY <1>1, AllocIs DEF PutDir, WithTable, Memories
<1>4. /\ s2.pgdir = s.pgdir /\ s2.vmas = s.vmas /\ s2.pde0 = s.pde0
      /\ s2.pte = s.pte /\ s2.pde1 = Put(s.pde1, d, x)
      /\ NewSlot(s, s2, <<1, d>>, x)
  BY <1>1, <1>2, DirSlot
<1> HIDE DEF s2
<1>5. Kept(m2, p, A) /\ Only(mem, m2, p, A) /\ m2.content = mem.content /\ m2.mm[p] = s2
  BY <1>4, AddTable
<1>6. DOMAIN s2.pde1 = DOMAIN s.pde1 \cup {d} BY <1>4 DEF Put
<1>7. Slots(s2) = Slots(s) \cup {<<1, d>>} BY <1>4 DEF NewSlot
<1>8. QED BY <1>3, <1>4, <1>5, <1>6, <1>7

LEMMA PutTableIs ==
  ASSUME NEW mem, NEW p \in Procs, NEW A, Kept(mem, p, A), mem.free # {},
         NEW t \in Nat, t \notin DOMAIN mem.mm[p].pde0
  PROVE  LET m2 == PutTable(mem, p, t) IN
         /\ Kept(m2, p, A) /\ Only(mem, m2, p, A) /\ m2.content = mem.content
         /\ m2.mm[p].pgdir = mem.mm[p].pgdir /\ m2.mm[p].vmas = mem.mm[p].vmas
         /\ m2.mm[p].pde1 = mem.mm[p].pde1 /\ m2.mm[p].pte = mem.mm[p].pte
         /\ DOMAIN m2.mm[p].pde0 = DOMAIN mem.mm[p].pde0 \cup {t}
         /\ Slots(m2.mm[p]) = Slots(mem.mm[p]) \cup {<<2, t>>}
<1> DEFINE x == NextPage(mem)
           s == mem.mm[p]
           s2 == [s EXCEPT !.pde0 = Put(@, t, x)]
           m2 == WithTable(mem, p, s2)
<1>1. mem \in Memories /\ s \in Spaces BY DEF Kept, Memories
<1>2. x \in Pages BY <1>1, AllocIs DEF Memories
<1>3. PutTable(mem, p, t) = m2 BY <1>1, AllocIs DEF PutTable, WithTable, Memories
<1>4. /\ s2.pgdir = s.pgdir /\ s2.vmas = s.vmas /\ s2.pde1 = s.pde1
      /\ s2.pte = s.pte /\ s2.pde0 = Put(s.pde0, t, x)
      /\ NewSlot(s, s2, <<2, t>>, x)
  BY <1>1, <1>2, TableSlot
<1> HIDE DEF s2
<1>5. Kept(m2, p, A) /\ Only(mem, m2, p, A) /\ m2.content = mem.content /\ m2.mm[p] = s2
  BY <1>4, AddTable
<1>6. DOMAIN s2.pde0 = DOMAIN s.pde0 \cup {t} BY <1>4 DEF Put
<1>7. Slots(s2) = Slots(s) \cup {<<2, t>>} BY <1>4 DEF NewSlot
<1>8. QED BY <1>3, <1>4, <1>5, <1>6, <1>7

LEMMA OnlyTrans ==
  ASSUME NEW m1, NEW m2, NEW m3, NEW p, NEW A, Only(m1, m2, p, A), Only(m2, m3, p, A)
  PROVE  Only(m1, m3, p, A)
BY DEF Only

\* get_pte for a page of R, when the slots it may need are among those of K.
Wanted(mem, p, A, R, K, la) ==
  /\ p \in Procs /\ Kept(mem, p, A)
  /\ Shape(mem.mm[p], R) /\ R \subseteq Nat /\ la \in R
  /\ Room(mem.mm[p], K, A) /\ <<1, la \div PDSIZE>> \in K /\ <<2, la \div PTSIZE>> \in K

Got(mem, m2, p, A, R, la) ==
  /\ Kept(m2, p, A) /\ Only(mem, m2, p, A) /\ m2.content = mem.content
  /\ Shape(m2.mm[p], R) /\ la \div PTSIZE \in DOMAIN m2.mm[p].pde0
  /\ m2.mm[p].pgdir = mem.mm[p].pgdir /\ m2.mm[p].vmas = mem.mm[p].vmas
  /\ m2.mm[p].pte = mem.mm[p].pte
  /\ Slots(mem.mm[p]) \subseteq Slots(m2.mm[p])
  /\ Slots(m2.mm[p]) \subseteq Slots(mem.mm[p]) \cup {<<1, la \div PDSIZE>>, <<2, la \div PTSIZE>>}

LEMMA GetPteIs ==
  ASSUME NEW mem, NEW p, NEW A, NEW R, NEW K, NEW la, Wanted(mem, p, A, R, K, la)
  PROVE  Got(mem, get_pte(mem, p, la), p, A, R, la)
<1> DEFINE pd == la \div PDSIZE
           pt == la \div PTSIZE
           s == mem.mm[p]
           m1 == IF pd \in DOMAIN s.pde1 THEN mem ELSE PutDir(mem, p, pd)
           s1 == m1.mm[p]
           m2 == IF pt \in DOMAIN s1.pde0 THEN m1 ELSE PutTable(m1, p, pt)
           s2 == m2.mm[p]
<1> USE DEF Wanted
<1>1. get_pte(mem, p, la) = m2 BY DEF get_pte, PutDir, PutTable
<1>2. la \in Nat /\ pd \in Nat /\ pt \in Nat /\ DirOf(pt) = pd BY Division
<1> HIDE DEF pd, pt
<1>3. /\ Kept(m1, p, A) /\ Only(mem, m1, p, A) /\ m1.content = mem.content
      /\ s1.pgdir = s.pgdir /\ s1.vmas = s.vmas /\ s1.pte = s.pte /\ s1.pde0 = s.pde0
      /\ DOMAIN s1.pde1 = DOMAIN s.pde1 \cup {pd}
      /\ Slots(s1) = Slots(s) \cup {<<1, pd>>}
  <2>1. CASE pd \in DOMAIN s.pde1
    <3>1. m1 = mem /\ <<1, pd>> \in Slots(s) BY <2>1 DEF Slots
    <3>2. Only(mem, mem, p, A) BY DEF Only
    <3>3. QED BY <2>1, <3>1, <3>2
  <2>2. CASE pd \notin DOMAIN s.pde1
    <3>1. <<1, pd>> \notin Slots(s) /\ <<1, pd>> \in K BY <2>2 DEF Slots, pd
    <3>2. mem.free # {} BY <3>1, HasFree
    <3>3. m1 = PutDir(mem, p, pd) BY <2>2
    <3>4. QED BY <1>2, <2>2, <3>2, <3>3, PutDirIs
  <2>3. QED BY <2>1, <2>2
<1> HIDE DEF m1
<1>4. Room(s1, K, A) BY <1>3 DEF Room, pd
<1>5. /\ Kept(m2, p, A) /\ Only(m1, m2, p, A) /\ m2.content = m1.content
      /\ s2.pgdir = s1.pgdir /\ s2.vmas = s1.vmas /\ s2.pte = s1.pte /\ s2.pde1 = s1.pde1
      /\ DOMAIN s2.pde0 = DOMAIN s1.pde0 \cup {pt}
      /\ Slots(s2) = Slots(s1) \cup {<<2, pt>>}
  <2>1. CASE pt \in DOMAIN s1.pde0
    <3>1. m2 = m1 /\ <<2, pt>> \in Slots(s1) BY <2>1 DEF Slots
    <3>2. Only(m1, m1, p, A) BY DEF Only
    <3>3. QED BY <1>3, <2>1, <3>1, <3>2
  <2>2. CASE pt \notin DOMAIN s1.pde0
    <3>1. <<2, pt>> \notin Slots(s1) /\ <<2, pt>> \in K BY <2>2 DEF Slots, pt
    <3>2. m1.free # {} BY <1>3, <1>4, <3>1, HasFree
    <3>3. m2 = PutTable(m1, p, pt) BY <2>2
    <3>4. QED BY <1>2, <1>3, <2>2, <3>2, <3>3, PutTableIs
  <2>3. QED BY <2>1, <2>2
<1> HIDE DEF m2
<1>6. Shape(s2, R)
  <2>1. \A a \in DOMAIN s2.pte : s2.pte[a].v /\ a \in R /\ a \div PTSIZE \in DOMAIN s2.pde0
    BY <1>3, <1>5 DEF Shape
  <2>2. \A t \in DOMAIN s2.pde0 : DirOf(t) \in DOMAIN s2.pde1 /\ \E a \in R : t = a \div PTSIZE
    BY <1>2, <1>3, <1>5 DEF Shape, pt
  <2>3. \A d \in DOMAIN s2.pde1 : \E t \in DOMAIN s2.pde0 : d = DirOf(t)
    BY <1>2, <1>3, <1>5 DEF Shape
  <2>4. QED BY <2>1, <2>2, <2>3 DEF Shape
<1>7. Only(mem, m2, p, A) BY <1>3, <1>5, OnlyTrans
<1>8. Got(mem, m2, p, A, R, la) BY <1>3, <1>5, <1>6, <1>7 DEF Got, pd, pt
<1>9. QED BY <1>1, <1>8

-----------------------------------------------------------------------------
\* page_insert of a page x that nobody has, where nothing is mapped.
LEMMA InsertIs ==
  ASSUME NEW mem, NEW p, NEW B, NEW R, NEW K, NEW la, Wanted(mem, p, B, R, K, la),
         NEW x \in Pages \ B, mem.ref[x] = 0, la \notin DOMAIN mem.mm[p].pte
  PROVE  LET m2 == page_insert(mem, p, x, la) IN
         /\ Kept(m2, p, B \cup {x}) /\ Only(mem, m2, p, B \cup {x}) /\ m2.content = mem.content
         /\ Shape(m2.mm[p], R)
         /\ m2.mm[p].pgdir = mem.mm[p].pgdir /\ m2.mm[p].vmas = mem.mm[p].vmas
         /\ m2.mm[p].pte = Put(mem.mm[p].pte, la, Valid(x))
         /\ Slots(m2.mm[p]) \subseteq Slots(mem.mm[p])
              \cup {<<1, la \div PDSIZE>>, <<2, la \div PTSIZE>>, <<3, la>>}
<1> DEFINE m0 == get_pte(mem, p, la)
           s0 == m0.mm[p]
           s2 == [s0 EXCEPT !.pte = Put(@, la, Valid(x))]
           r2 == [m0.ref EXCEPT ![x] = 1]
           mm2 == [m0.mm EXCEPT ![p] = s2]
           m2 == page_insert(mem, p, x, la)
<1>1. Got(mem, m0, p, B, R, la) BY GetPteIs
<1>2. p \in Procs /\ la \in Nat /\ la \in R BY DEF Wanted
<1>3. m0 \in Memories /\ s0 \in Spaces /\ B \subseteq Pages BY <1>1, <1>2 DEF Got, Kept, Memories
<1>4. m0.ref[x] = 0 BY <1>1 DEF Got, Only
<1> HIDE DEF m0
<1>5. la \notin DOMAIN s0.pte BY <1>1 DEF Got
<1>6. m2 = [m0 EXCEPT !.ref = r2, !.mm = mm2]
  <2> DEFINE a == [m0 EXCEPT !.ref[x] = @ + 1]
  <2>1. a = [m0 EXCEPT !.ref = r2] BY <1>3, <1>4 DEF Memories
  <2>2. a.mm = m0.mm BY <1>3, <2>1 DEF Memories
  <2> HIDE DEF a
  <2>3. ~IsValid(a, p, la) BY <1>5, <2>2 DEF IsValid
  <2>4. m2 = [a EXCEPT !.mm[p].pte = Put(@, la, Valid(x))] BY <2>3 DEF page_insert, a, m0
  <2>5. m2 = [a EXCEPT !.mm = mm2] BY <1>2, <1>3, <2>1, <2>2, <2>4 DEF Memories
  <2>6. QED BY <1>3, <2>1, <2>5 DEF Memories
<1>7. s2.pgdir = s0.pgdir /\ s2.vmas = s0.vmas /\ s2.pde1 = s0.pde1 /\ s2.pde0 = s0.pde0
      /\ s2.pte = Put(s0.pte, la, Valid(x)) /\ NewSlot(s0, s2, <<3, la>>, x)
  BY <1>2, <1>3, <1>5, PageSlot
<1> HIDE DEF s2, m2
<1>8. r2 \in [Pages -> Int] /\ r2[x] = 1 /\ \A y \in Pages : y # x => r2[y] = m0.ref[y]
  BY <1>3 DEF Memories
<1>9. mm2 \in [Procs -> Spaces] /\ mm2[p] = s2 /\ \A q \in Procs \ {p} : mm2[q] = m0.mm[q]
  BY <1>2, <1>3, <1>7 DEF Memories, NewSlot
<1> HIDE DEF r2, mm2
<1>10. /\ m2 \in Memories /\ m2.free = m0.free /\ m2.content = m0.content
       /\ m2.ref = r2 /\ m2.mm = mm2
       /\ m2.kstack = m0.kstack /\ m2.cr3 = m0.cr3 /\ m2.check = m0.check
       /\ m2.pra = m0.pra /\ m2.swap = m0.swap
  BY <1>3, <1>6, <1>8, <1>9 DEF Memories
<1>11. Kept(m2, p, B \cup {x})
  <2>1. Kept(m0, p, B) BY <1>1 DEF Got
  <2>2. NewSlot(m0.mm[p], m2.mm[p], <<3, la>>, x) BY <1>7, <1>9, <1>10
  <2>3. m2.ref[x] = 1 /\ \A y \in B : m2.ref[y] = m0.ref[y] BY <1>3, <1>8, <1>10
  <2>4. Filled(m0, m2, p, B, <<3, la>>, x) BY <1>10, <2>1, <2>2, <2>3 DEF Filled
  <2>5. QED BY <2>4, FillSlot
<1>12. Only(mem, m2, p, B \cup {x})
  <2>1. Only(mem, m0, p, B) BY <1>1 DEF Got
  <2>2. Only(mem, m0, p, B \cup {x}) BY <2>1 DEF Only
  <2>3. Only(m0, m2, p, B \cup {x}) BY <1>8, <1>9, <1>10 DEF Only
  <2>4. QED BY <2>2, <2>3, OnlyTrans
<1>13. Shape(s2, R)
  <2>1. DOMAIN s2.pte = DOMAIN s0.pte \cup {la} /\ s2.pte[la].v
        /\ \A a \in DOMAIN s0.pte : s2.pte[a] = s0.pte[a]
    BY <1>5, <1>7 DEF Put, Valid
  <2>2. Shape(s0, R) /\ la \div PTSIZE \in DOMAIN s0.pde0 BY <1>1 DEF Got
  <2>3. QED BY <1>2, <1>7, <2>1, <2>2 DEF Shape
<1>14. Slots(s2) = Slots(s0) \cup {<<3, la>>} BY <1>7 DEF NewSlot
<1>15. s0.pgdir = mem.mm[p].pgdir /\ s0.vmas = mem.mm[p].vmas /\ s0.pte = mem.mm[p].pte
       /\ m0.content = mem.content
       /\ Slots(s0) \subseteq Slots(mem.mm[p]) \cup {<<1, la \div PDSIZE>>, <<2, la \div PTSIZE>>}
  BY <1>1 DEF Got
<1>16. m2.mm[p] = s2 BY <1>9, <1>10
<1>17. QED BY <1>7, <1>10, <1>11, <1>12, <1>13, <1>14, <1>15, <1>16 DEF m2

\* A new page at la, with c in it.
Missing(mem, p, A, R, K, la) ==
  /\ Wanted(mem, p, A, R, K, la) /\ <<3, la>> \in K
  /\ la \notin DOMAIN mem.mm[p].pte /\ ~mem.check

NewSlots(la) == {<<1, la \div PDSIZE>>, <<2, la \div PTSIZE>>, <<3, la>>}

Added(mem, m2, p, A, R, la, c) ==
  /\ Kept(m2, p, A) /\ Only(mem, m2, p, A) /\ Shape(m2.mm[p], R)
  /\ m2.mm[p].pgdir = mem.mm[p].pgdir /\ m2.mm[p].vmas = mem.mm[p].vmas
  /\ Seen(m2, p) = Put(Seen(mem, p), la, c)
  /\ Slots(m2.mm[p]) \subseteq Slots(mem.mm[p]) \cup NewSlots(la)

LEMMA PgdirAllocIs ==
  ASSUME NEW mem, NEW p, NEW A, NEW R, NEW K, NEW la, Missing(mem, p, A, R, K, la),
         NEW c \in Values
  PROVE  Added(mem, pgdir_alloc_page(mem, p, la, c), p, A, R, la, c)
<1> DEFINE x == NextPage(mem)
           s == mem.mm[p]
           m1 == [alloc_page(mem) EXCEPT !.content[x] = c]
           m2 == page_insert(m1, p, x, la)
           s2 == m2.mm[p]
           L == K \ {<<3, la>>}
<1>1. Wanted(mem, p, A, R, K, la) /\ <<3, la>> \in K /\ la \notin DOMAIN s.pte /\ ~mem.check
  BY DEF Missing
<1>2. mem \in Memories /\ s \in Spaces /\ Kept(mem, p, A) /\ Room(s, K, A) /\ A \subseteq Pages
  BY <1>1 DEF Wanted, Kept, Memories
<1>3. <<3, la>> \notin Slots(s) BY <1>1 DEF Slots
<1>4. mem.free # {} BY <1>1, <1>2, <1>3, HasFree
<1>5. x \in mem.free /\ alloc_page(mem) = [mem EXCEPT !.free = @ \ {x}] BY <1>2, <1>4, AllocIs
<1>6. x \in Pages /\ x \in A /\ mem.ref[x] = 0 BY <1>2, <1>5 DEF Kept
<1> HIDE DEF x
<1>7. /\ m1 \in Memories /\ m1.free = mem.free \ {x} /\ m1.ref = mem.ref /\ m1.mm = mem.mm
      /\ m1.content = [mem.content EXCEPT ![x] = c]
      /\ m1.kstack = mem.kstack /\ m1.cr3 = mem.cr3 /\ m1.check = mem.check
      /\ m1.pra = mem.pra /\ m1.swap = mem.swap
  <2> DEFINE c2 == [mem.content EXCEPT ![x] = c]
  <2>1. m1 = [mem EXCEPT !.free = @ \ {x}, !.content = c2] BY <1>2, <1>5 DEF Memories
  <2>2. c2 \in [Pages -> Values] BY <1>2, <1>6 DEF Memories
  <2> HIDE DEF c2, m1
  <2>3. QED BY <1>2, <2>1, <2>2 DEF Memories, c2
<1> HIDE DEF m1
<1>8. m1.content[x] = c /\ \A y \in Pages : y # x => m1.content[y] = mem.content[y]
  BY <1>2, <1>6, <1>7 DEF Memories
<1>9. Kept(m1, p, A \ {x})
  <2>1. Kept([mem EXCEPT !.free = @ \ {x}], p, A \ {x}) BY <1>2, <1>5, TakePage
  <2>2. Own(m1.mm[p]) = Own(s) BY <1>7
  <2>3. A \ {x} = m1.free \cup Own(s)
    BY <1>2, <1>5, <1>7 DEF Kept
  <2>4. QED BY <1>2, <1>7, <2>3 DEF Kept
<1>10. Room(m1.mm[p], L, A \ {x})
  <2>1. IsFiniteSet(K) /\ IsFiniteSet(A) /\ Slots(s) \subseteq K /\ Cardinality(K) <= Cardinality(A)
    <3>1. IsFiniteSet(Pages) BY Constants, FS_Interval DEF Pages
    <3>2. QED BY <1>2, <3>1, FS_Subset DEF Room
  <2>2. IsFiniteSet(L) /\ Cardinality(L) = Cardinality(K) - 1 BY <1>1, <2>1, FS_RemoveElement
  <2>3. IsFiniteSet(A \ {x}) /\ Cardinality(A \ {x}) = Cardinality(A) - 1
    BY <1>6, <2>1, FS_RemoveElement
  <2>4. Cardinality(K) \in Nat /\ Cardinality(A) \in Nat BY <2>1, FS_CardinalityType
  <2>5. Slots(m1.mm[p]) \subseteq L BY <1>3, <1>7, <2>1
  <2> HIDE DEF L
  <2>6. QED BY <2>1, <2>2, <2>3, <2>4, <2>5 DEF Room
<1>11. Wanted(m1, p, A \ {x}, R, L, la) BY <1>1, <1>7, <1>9, <1>10 DEF Wanted
<1>12. /\ Kept(m2, p, (A \ {x}) \cup {x}) /\ Only(m1, m2, p, (A \ {x}) \cup {x})
       /\ m2.content = m1.content /\ Shape(s2, R)
       /\ s2.pgdir = s.pgdir /\ s2.vmas = s.vmas /\ s2.pte = Put(s.pte, la, Valid(x))
       /\ Slots(s2) \subseteq Slots(s) \cup NewSlots(la)
  <2>1. x \in Pages \ (A \ {x}) /\ m1.ref[x] = 0 /\ la \notin DOMAIN m1.mm[p].pte
    BY <1>1, <1>6, <1>7
  <2>2. QED BY <1>7, <1>11, <2>1, InsertIs DEF NewSlots
<1> HIDE DEF m2
<1>13. Kept(m2, p, A) /\ Only(mem, m2, p, A)
  <2>1. (A \ {x}) \cup {x} = A BY <1>6
  <2>2. Only(mem, m1, p, A) BY <1>6, <1>7, <1>8 DEF Only
  <2>3. QED BY <1>12, <2>1, <2>2, OnlyTrans
<1>14. Seen(m2, p) = Put(Seen(mem, p), la, c)
  <2>1. \A a \in DOMAIN s.pte : s.pte[a].v /\ s.pte[a].at # x
    <3>1. Shape(s, R) BY <1>1 DEF Wanted
    <3>2. \A a \in DOMAIN s.pte : <<3, a>> \in Slots(s) /\ PageAt(s, <<3, a>>) = s.pte[a].at
      BY DEF Slots, PageAt
    <3>3. x \notin Own(s) BY <1>2, <1>5 DEF Kept
    <3>4. QED BY <3>1, <3>2, <3>3 DEF Shape, Own
  <2>2. \A a \in DOMAIN s.pte : s.pte[a].at \in Pages
    <3>1. \A a \in DOMAIN s.pte : <<3, a>> \in Slots(s) /\ PageAt(s, <<3, a>>) = s.pte[a].at
      BY DEF Slots, PageAt
    <3>2. QED BY <1>2, <3>1 DEF Kept, Own
  <2>3. DOMAIN s2.pte = DOMAIN s.pte \cup {la} /\ s2.pte[la] = Valid(x)
        /\ \A a \in DOMAIN s.pte : s2.pte[a] = s.pte[a]
    BY <1>1, <1>12 DEF Put
  <2>4. m2.content[x] = c /\ \A y \in Pages : y # x => m2.content[y] = mem.content[y]
    BY <1>8, <1>12
  <2> DEFINE f == Seen(m2, p)
             g == Seen(mem, p)
             h == Put(g, la, c)
  <2>5. f = [a \in DOMAIN s2.pte |-> f[a]] /\ f[la] = c
        /\ \A a \in DOMAIN s.pte : f[a] = m2.content[s.pte[a].at]
    <3>1. Valid(x).v /\ Valid(x).at = x BY DEF Valid
    <3>2. f = [a \in DOMAIN s2.pte |-> IF s2.pte[a].v THEN m2.content[s2.pte[a].at]
                                      ELSE m2.swap[s2.pte[a].at]]
      BY DEF Seen
    <3> HIDE DEF f
    <3>3. f[la] = c BY <2>3, <2>4, <3>1, <3>2
    <3>4. \A a \in DOMAIN s.pte : f[a] = m2.content[s.pte[a].at] BY <2>1, <2>3, <3>2
    <3>5. QED BY <3>2, <3>3, <3>4
  <2>6. g = [a \in DOMAIN s.pte |-> g[a]] /\ \A a \in DOMAIN s.pte : g[a] = mem.content[s.pte[a].at]
    BY <2>1 DEF Seen
  <2> HIDE DEF f, g
  <2>7. DOMAIN f = DOMAIN s.pte \cup {la} /\ DOMAIN g = DOMAIN s.pte BY <2>3, <2>5, <2>6
  <2>8. h = [a \in DOMAIN s.pte \cup {la} |-> h[a]] /\ h[la] = c
        /\ \A a \in DOMAIN s.pte : h[a] = g[a]
    BY <1>1, <2>7 DEF Put
  <2>9. \A a \in DOMAIN s.pte : f[a] = g[a]
    <3>1. SUFFICES ASSUME NEW a \in DOMAIN s.pte PROVE f[a] = g[a] OBVIOUS
    <3>2. s.pte[a].at \in Pages /\ s.pte[a].at # x BY <2>1, <2>2
    <3>3. QED BY <2>4, <2>5, <2>6, <3>2
  <2> HIDE DEF h
  <2>10. \A a \in DOMAIN s.pte \cup {la} : f[a] = h[a] BY <2>5, <2>8, <2>9
  <2>11. f = h BY <2>3, <2>5, <2>8, <2>10
  <2>12. QED BY <2>11 DEF f, g, h
<1>15. pgdir_alloc_page(mem, p, la, c) = m2 BY <1>1 DEF pgdir_alloc_page, m2, m1, x
<1>16. QED BY <1>12, <1>13, <1>14, <1>15 DEF Added

-----------------------------------------------------------------------------
(***************************************************************************)
(* Loops.  Every loop that maps pages goes through addresses at[1], at[2], *)
(* ... and maps those for which there is something to put there, im.       *)
(***************************************************************************)
LEMMA SetInduction ==
  ASSUME NEW S, 0 \in S, \A n \in Nat : n \in S => n + 1 \in S
  PROVE  Nat \subseteq S
<1>1. SUFFICES ASSUME Nat \ S # {} PROVE FALSE OBVIOUS
<1>2. PICK x \in Nat \ S : \A y \in Nat \ S : x <= y BY <1>1, NatLeast
<1>3. x # 0 OBVIOUS
<1>4. x - 1 \in Nat /\ x - 1 \notin Nat \ S BY <1>2, <1>3
<1>5. QED BY <1>4

\* f with the part of im that lies in S.
Over(f, im, S) ==
  [la \in DOMAIN f \cup (DOMAIN im \cap S) |-> IF la \in DOMAIN im \cap S THEN im[la] ELSE f[la]]

LEMMA OverPut ==
  ASSUME NEW f, NEW im, NEW S, NEW la \in DOMAIN im
  PROVE  Put(Over(f, im, S), la, im[la]) = Over(f, im, S \cup {la})
<1> DEFINE g == Over(f, im, S)
<1>1. DOMAIN g = DOMAIN f \cup (DOMAIN im \cap S)
      /\ \A a \in DOMAIN g : g[a] = IF a \in DOMAIN im \cap S THEN im[a] ELSE f[a]
  BY DEF Over
<1> HIDE DEF g
<1>2. DOMAIN g \cup {la} = DOMAIN f \cup (DOMAIN im \cap (S \cup {la})) BY <1>1
<1>3. \A a \in DOMAIN g \cup {la} :
        (IF a = la THEN im[la] ELSE g[a])
        = IF a \in DOMAIN im \cap (S \cup {la}) THEN im[a] ELSE f[a]
  BY <1>1
<1>4. Put(g, la, im[la]) = Over(f, im, S \cup {la}) BY <1>2, <1>3 DEF Put, Over
<1>5. QED BY <1>4 DEF g

LEMMA OverOver ==
  ASSUME NEW f, NEW im, NEW S, NEW T
  PROVE  Over(Over(f, im, S), im, T) = Over(f, im, S \cup T)
<1> DEFINE g == Over(f, im, S)
<1>1. DOMAIN g = DOMAIN f \cup (DOMAIN im \cap S)
      /\ \A a \in DOMAIN g : g[a] = IF a \in DOMAIN im \cap S THEN im[a] ELSE f[a]
  BY DEF Over
<1> HIDE DEF g
<1>2. DOMAIN g \cup (DOMAIN im \cap T) = DOMAIN f \cup (DOMAIN im \cap (S \cup T)) BY <1>1
<1>3. \A a \in DOMAIN g \cup (DOMAIN im \cap T) :
        (IF a \in DOMAIN im \cap T THEN im[a] ELSE g[a])
        = IF a \in DOMAIN im \cap (S \cup T) THEN im[a] ELSE f[a]
  BY <1>1
<1>4. Over(g, im, T) = Over(f, im, S \cup T) BY <1>2, <1>3 DEF Over
<1>5. QED BY <1>4 DEF g

AtsOf(at, n) == {at[i] : i \in 1 .. n}

\* m0 has become m1 while pages for addresses of R were added to p.
Grown(m0, m1, p, A, R, K) ==
  /\ Kept(m1, p, A) /\ Only(m0, m1, p, A) /\ Shape(m1.mm[p], R) /\ Room(m1.mm[p], K, A)
  /\ m1.mm[p].pgdir = m0.mm[p].pgdir /\ m1.mm[p].vmas = m0.mm[p].vmas

Steps(g, n, at, im, p, A, R, K) ==
  /\ n \in Nat /\ p \in Procs /\ R \subseteq Nat /\ ~g[0].check
  /\ \A i \in 1 .. n : at[i] \in DOMAIN im => at[i] \in R /\ NewSlots(at[i]) \subseteq K
  /\ \A i, j \in 1 .. n : at[i] = at[j] => i = j
  /\ \A i \in 1 .. n : at[i] \in DOMAIN im => at[i] \notin DOMAIN g[0].mm[p].pte
  /\ \A i \in 1 .. n :
       at[i] \notin DOMAIN im /\ Grown(g[0], g[i - 1], p, A, R, K) => g[i] = g[i - 1]
  /\ \A i \in 1 .. n :
       /\ at[i] \in DOMAIN im
       /\ Grown(g[0], g[i - 1], p, A, R, K) /\ Missing(g[i - 1], p, A, R, K, at[i])
       => Added(g[i - 1], g[i], p, A, R, at[i], im[at[i]])

LEMMA Chain ==
  ASSUME NEW g, NEW n, NEW at, NEW im, NEW p, NEW A, NEW R, NEW K,
         Steps(g, n, at, im, p, A, R, K), Grown(g[0], g[0], p, A, R, K)
  PROVE  /\ Grown(g[0], g[n], p, A, R, K)
         /\ Seen(g[n], p) = Over(Seen(g[0], p), im, AtsOf(at, n))
<1> USE DEF Steps
<1> DEFINE Done(k) == AtsOf(at, k)
           Good(k) == /\ Grown(g[0], g[k], p, A, R, K)
                      /\ Seen(g[k], p) = Over(Seen(g[0], p), im, Done(k))
           S == {k \in Nat : k <= n => Good(k)}
<1>1. Good(0)
  <2>1. Done(0) = {} BY DEF AtsOf
  <2>2. Over(Seen(g[0], p), im, {}) = Seen(g[0], p) BY DEF Over, Seen
  <2>3. QED BY <2>1, <2>2
<1>2. ASSUME NEW k \in Nat, k + 1 <= n, Good(k) PROVE Good(k + 1)
  <2> DEFINE la == at[k + 1]
             h == g[k]
             h2 == g[k + 1]
  <2>1. k + 1 \in 1 .. n /\ (k + 1) - 1 = k BY <1>2
  <2>2. Done(k + 1) = Done(k) \cup {la}
    <3>1. \A i : i \in 1 .. k + 1 <=> i \in 1 .. k \/ i = k + 1 OBVIOUS
    <3>2. QED BY <3>1 DEF AtsOf
  <2>3. CASE la \notin DOMAIN im
    <3>1. h2 = h BY <1>2, <2>1, <2>3
    <3>2. Over(Seen(g[0], p), im, Done(k)) = Over(Seen(g[0], p), im, Done(k + 1))
      <4>1. DOMAIN im \cap Done(k) = DOMAIN im \cap Done(k + 1) BY <2>2, <2>3
      <4>2. QED BY <4>1 DEF Over
    <3>3. QED BY <1>2, <3>1, <3>2
  <2>4. CASE la \in DOMAIN im
    <3>1. Grown(g[0], h, p, A, R, K) /\ Seen(h, p) = Over(Seen(g[0], p), im, Done(k)) BY <1>2
    <3>2. la \notin Done(k)
      <4>1. \A i \in 1 .. k : i \in 1 .. n /\ i # k + 1 BY <1>2
      <4>2. \A i \in 1 .. k : at[i] # la BY <2>1, <4>1
      <4>3. QED BY <4>2 DEF AtsOf
    <3>3. la \notin DOMAIN h.mm[p].pte
      <4>1. DOMAIN Seen(h, p) = DOMAIN Seen(g[0], p) \cup (DOMAIN im \cap Done(k))
        BY <3>1 DEF Over
      <4>2. DOMAIN Seen(h, p) = DOMAIN h.mm[p].pte /\ DOMAIN Seen(g[0], p) = DOMAIN g[0].mm[p].pte
        BY DEF Seen
      <4>3. la \notin DOMAIN g[0].mm[p].pte BY <2>1, <2>4
      <4>4. QED BY <3>2, <4>1, <4>2, <4>3
    <3>4. la \in R /\ NewSlots(la) \subseteq K BY <2>1, <2>4
    <3>5. Missing(h, p, A, R, K, la)
      BY <3>1, <3>3, <3>4 DEF Missing, Wanted, Grown, Only, NewSlots
    <3>6. Added(h, h2, p, A, R, la, im[la]) BY <2>1, <2>4, <3>1, <3>5
    <3>7. Seen(h2, p) = Over(Seen(g[0], p), im, Done(k + 1))
      <4>1. Seen(h2, p) = Put(Over(Seen(g[0], p), im, Done(k)), la, im[la])
        BY <3>1, <3>6 DEF Added
      <4>2. Put(Over(Seen(g[0], p), im, Done(k)), la, im[la])
            = Over(Seen(g[0], p), im, Done(k) \cup {la})
        BY <2>4, OverPut
      <4>3. QED BY <2>2, <4>1, <4>2
    <3>8. Grown(g[0], h2, p, A, R, K)
      <4>1. Only(g[0], h2, p, A) BY <3>1, <3>6, OnlyTrans DEF Grown, Added
      <4>2. Room(h2.mm[p], K, A) BY <3>1, <3>4, <3>6 DEF Grown, Added, Room
      <4>3. QED BY <3>1, <3>6, <4>1, <4>2 DEF Grown, Added
    <3>9. QED BY <3>7, <3>8
  <2>5. QED BY <2>3, <2>4
<1> HIDE DEF Good
<1>3. Nat \subseteq S
  <2>1. 0 \in S BY <1>1
  <2>2. \A k \in Nat : k \in S => k + 1 \in S BY <1>2
  <2> HIDE DEF S
  <2>3. QED BY <2>1, <2>2, SetInduction
<1>4. Good(n) BY <1>3
<1>5. QED BY <1>4 DEF Good

\* The loops have values.
FillLoop(f, b, n, p, at, im) ==
  f = [i \in 0 .. n |-> IF i = 0 THEN b
                                     ELSE pgdir_alloc_page(f[i - 1], p, at[i], im[at[i]])]

LEMMA FillExists ==
  ASSUME NEW b, NEW p, NEW at, NEW im, NEW n \in Nat
  PROVE  \E f : FillLoop(f, b, n, p, at, im)
<1> DEFINE Is(f, k) == FillLoop(f, b, k, p, at, im)
           S == {k \in Nat : \E f : Is(f, k)}
<1>1. 0 \in S
  <2>1. Is([i \in 0 .. 0 |-> b], 0) BY DEF FillLoop
  <2> HIDE DEF Is
  <2>2. QED BY <2>1
<1>2. ASSUME NEW k \in Nat, k \in S PROVE k + 1 \in S
  <2>1. PICK f : Is(f, k) BY <1>2
  <2> DEFINE g == [i \in 0 .. k + 1 |->
                  IF i = k + 1 THEN pgdir_alloc_page(f[k], p, at[k + 1], im[at[k + 1]]) ELSE f[i]]
  <2>2. f[0] = b /\ \A i \in 1 .. k : f[i] = pgdir_alloc_page(f[i - 1], p, at[i], im[at[i]])
    BY <2>1 DEF FillLoop
  <2>3. g[0] = b /\ \A i \in 1 .. k : g[i] = pgdir_alloc_page(g[i - 1], p, at[i], im[at[i]])
    BY <2>2
  <2>4. g[k + 1] = pgdir_alloc_page(g[(k + 1) - 1], p, at[k + 1], im[at[k + 1]]) OBVIOUS
  <2>5. DOMAIN g = 0 .. k + 1 /\ g = [i \in 0 .. k + 1 |-> g[i]] OBVIOUS
  <2> HIDE DEF g
  <2>6. \A i \in 0 .. k + 1 : i = 0 \/ i \in 1 .. k \/ i = k + 1 OBVIOUS
  <2>7. \A i \in 0 .. k + 1 :
          g[i] = IF i = 0 THEN b ELSE pgdir_alloc_page(g[i - 1], p, at[i], im[at[i]])
    BY <2>3, <2>4, <2>6
  <2>8. Is(g, k + 1) BY <2>5, <2>7 DEF FillLoop
  <2> HIDE DEF Is
  <2>9. QED BY <2>8
<1> HIDE DEF S
<1>3. Nat \subseteq S BY <1>1, <1>2, SetInduction
<1>4. QED BY <1>3 DEF S

CopyLoop(f, b, n, p, c, at) ==
  f = [i \in 0 .. n |-> IF i = 0 THEN b ELSE copy_page(f[i - 1], p, c, at[i])]

LEMMA CopyExists ==
  ASSUME NEW b, NEW p, NEW c, NEW at, NEW n \in Nat
  PROVE  \E f : CopyLoop(f, b, n, p, c, at)
<1> DEFINE Is(f, k) == CopyLoop(f, b, k, p, c, at)
           S == {k \in Nat : \E f : Is(f, k)}
<1>1. 0 \in S
  <2>1. Is([i \in 0 .. 0 |-> b], 0) BY DEF CopyLoop
  <2> HIDE DEF Is
  <2>2. QED BY <2>1
<1>2. ASSUME NEW k \in Nat, k \in S PROVE k + 1 \in S
  <2>1. PICK f : Is(f, k) BY <1>2
  <2> DEFINE g == [i \in 0 .. k + 1 |->
                  IF i = k + 1 THEN copy_page(f[k], p, c, at[k + 1]) ELSE f[i]]
  <2>2. f[0] = b /\ \A i \in 1 .. k : f[i] = copy_page(f[i - 1], p, c, at[i])
    BY <2>1 DEF CopyLoop
  <2>3. g[0] = b /\ \A i \in 1 .. k : g[i] = copy_page(g[i - 1], p, c, at[i])
    BY <2>2
  <2>4. g[k + 1] = copy_page(g[(k + 1) - 1], p, c, at[k + 1]) OBVIOUS
  <2>5. DOMAIN g = 0 .. k + 1 /\ g = [i \in 0 .. k + 1 |-> g[i]] OBVIOUS
  <2> HIDE DEF g
  <2>6. \A i \in 0 .. k + 1 : i = 0 \/ i \in 1 .. k \/ i = k + 1 OBVIOUS
  <2>7. \A i \in 0 .. k + 1 :
          g[i] = IF i = 0 THEN b ELSE copy_page(g[i - 1], p, c, at[i])
    BY <2>3, <2>4, <2>6
  <2>8. Is(g, k + 1) BY <2>5, <2>7 DEF CopyLoop
  <2> HIDE DEF Is
  <2>9. QED BY <2>8
<1> HIDE DEF S
<1>3. Nat \subseteq S BY <1>1, <1>2, SetInduction
<1>4. QED BY <1>3 DEF S

DupLoop(f, b, n, p, c, at) ==
  f = [i \in 0 .. n |-> IF i = 0 THEN b ELSE copy_range(f[i - 1], p, c, at[i])]

LEMMA DupExists ==
  ASSUME NEW b, NEW p, NEW c, NEW at, NEW n \in Nat
  PROVE  \E f : DupLoop(f, b, n, p, c, at)
<1> DEFINE Is(f, k) == DupLoop(f, b, k, p, c, at)
           S == {k \in Nat : \E f : Is(f, k)}
<1>1. 0 \in S
  <2>1. Is([i \in 0 .. 0 |-> b], 0) BY DEF DupLoop
  <2> HIDE DEF Is
  <2>2. QED BY <2>1
<1>2. ASSUME NEW k \in Nat, k \in S PROVE k + 1 \in S
  <2>1. PICK f : Is(f, k) BY <1>2
  <2> DEFINE g == [i \in 0 .. k + 1 |->
                  IF i = k + 1 THEN copy_range(f[k], p, c, at[k + 1]) ELSE f[i]]
  <2>2. f[0] = b /\ \A i \in 1 .. k : f[i] = copy_range(f[i - 1], p, c, at[i])
    BY <2>1 DEF DupLoop
  <2>3. g[0] = b /\ \A i \in 1 .. k : g[i] = copy_range(g[i - 1], p, c, at[i])
    BY <2>2
  <2>4. g[k + 1] = copy_range(g[(k + 1) - 1], p, c, at[k + 1]) OBVIOUS
  <2>5. DOMAIN g = 0 .. k + 1 /\ g = [i \in 0 .. k + 1 |-> g[i]] OBVIOUS
  <2> HIDE DEF g
  <2>6. \A i \in 0 .. k + 1 : i = 0 \/ i \in 1 .. k \/ i = k + 1 OBVIOUS
  <2>7. \A i \in 0 .. k + 1 :
          g[i] = IF i = 0 THEN b ELSE copy_range(g[i - 1], p, c, at[i])
    BY <2>3, <2>4, <2>6
  <2>8. Is(g, k + 1) BY <2>5, <2>7 DEF DupLoop
  <2> HIDE DEF Is
  <2>9. QED BY <2>8
<1> HIDE DEF S
<1>3. Nat \subseteq S BY <1>1, <1>2, SetInduction
<1>4. QED BY <1>3 DEF S

LoadLoop(f, b, n, p, at) ==
  f = [i \in 0 .. n |-> IF i = 0 THEN b ELSE load_segment(f[i - 1], p, at[i])]

LEMMA LoadExists ==
  ASSUME NEW b, NEW p, NEW at, NEW n \in Nat
  PROVE  \E f : LoadLoop(f, b, n, p, at)
<1> DEFINE Is(f, k) == LoadLoop(f, b, k, p, at)
           S == {k \in Nat : \E f : Is(f, k)}
<1>1. 0 \in S
  <2>1. Is([i \in 0 .. 0 |-> b], 0) BY DEF LoadLoop
  <2> HIDE DEF Is
  <2>2. QED BY <2>1
<1>2. ASSUME NEW k \in Nat, k \in S PROVE k + 1 \in S
  <2>1. PICK f : Is(f, k) BY <1>2
  <2> DEFINE g == [i \in 0 .. k + 1 |->
                  IF i = k + 1 THEN load_segment(f[k], p, at[k + 1]) ELSE f[i]]
  <2>2. f[0] = b /\ \A i \in 1 .. k : f[i] = load_segment(f[i - 1], p, at[i])
    BY <2>1 DEF LoadLoop
  <2>3. g[0] = b /\ \A i \in 1 .. k : g[i] = load_segment(g[i - 1], p, at[i])
    BY <2>2
  <2>4. g[k + 1] = load_segment(g[(k + 1) - 1], p, at[k + 1]) OBVIOUS
  <2>5. DOMAIN g = 0 .. k + 1 /\ g = [i \in 0 .. k + 1 |-> g[i]] OBVIOUS
  <2> HIDE DEF g
  <2>6. \A i \in 0 .. k + 1 : i = 0 \/ i \in 1 .. k \/ i = k + 1 OBVIOUS
  <2>7. \A i \in 0 .. k + 1 :
          g[i] = IF i = 0 THEN b ELSE load_segment(g[i - 1], p, at[i])
    BY <2>3, <2>4, <2>6
  <2>8. Is(g, k + 1) BY <2>5, <2>7 DEF LoadLoop
  <2> HIDE DEF Is
  <2>9. QED BY <2>8
<1> HIDE DEF S
<1>3. Nat \subseteq S BY <1>1, <1>2, SetInduction
<1>4. QED BY <1>3 DEF S

ExitLoop(f, b, n, p, at) ==
  f = [i \in 0 .. n |-> IF i = 0 THEN b ELSE exit_range(f[i - 1], p, at[i])]

LEMMA ExitExists ==
  ASSUME NEW b, NEW p, NEW at, NEW n \in Nat
  PROVE  \E f : ExitLoop(f, b, n, p, at)
<1> DEFINE Is(f, k) == ExitLoop(f, b, k, p, at)
           S == {k \in Nat : \E f : Is(f, k)}
<1>1. 0 \in S
  <2>1. Is([i \in 0 .. 0 |-> b], 0) BY DEF ExitLoop
  <2> HIDE DEF Is
  <2>2. QED BY <2>1
<1>2. ASSUME NEW k \in Nat, k \in S PROVE k + 1 \in S
  <2>1. PICK f : Is(f, k) BY <1>2
  <2> DEFINE g == [i \in 0 .. k + 1 |->
                  IF i = k + 1 THEN exit_range(f[k], p, at[k + 1]) ELSE f[i]]
  <2>2. f[0] = b /\ \A i \in 1 .. k : f[i] = exit_range(f[i - 1], p, at[i])
    BY <2>1 DEF ExitLoop
  <2>3. g[0] = b /\ \A i \in 1 .. k : g[i] = exit_range(g[i - 1], p, at[i])
    BY <2>2
  <2>4. g[k + 1] = exit_range(g[(k + 1) - 1], p, at[k + 1]) OBVIOUS
  <2>5. DOMAIN g = 0 .. k + 1 /\ g = [i \in 0 .. k + 1 |-> g[i]] OBVIOUS
  <2> HIDE DEF g
  <2>6. \A i \in 0 .. k + 1 : i = 0 \/ i \in 1 .. k \/ i = k + 1 OBVIOUS
  <2>7. \A i \in 0 .. k + 1 :
          g[i] = IF i = 0 THEN b ELSE exit_range(g[i - 1], p, at[i])
    BY <2>3, <2>4, <2>6
  <2>8. Is(g, k + 1) BY <2>5, <2>7 DEF ExitLoop
  <2> HIDE DEF Is
  <2>9. QED BY <2>8
<1> HIDE DEF S
<1>3. Nat \subseteq S BY <1>1, <1>2, SetInduction
<1>4. QED BY <1>3 DEF S

-----------------------------------------------------------------------------
(***************************************************************************)
(* Loading a program.                                                      *)
(***************************************************************************)
Loading(mem, p, A, R, K) ==
  /\ p \in Procs /\ R \subseteq Nat /\ \A la \in R : NewSlots(la) \subseteq K
  /\ Grown(mem, mem, p, A, R, K) /\ ~mem.check

LEMMA GrownLoading ==
  ASSUME NEW m0, NEW m1, NEW p, NEW A, NEW R, NEW K,
         Loading(m0, p, A, R, K), Grown(m0, m1, p, A, R, K)
  PROVE  Loading(m1, p, A, R, K)
BY DEF Loading, Grown, Only

LEMMA FillIs ==
  ASSUME NEW b, NEW p, NEW A, NEW R, NEW K, Loading(b, p, A, R, K),
         NEW n \in Nat, NEW at, NEW im, NEW f,
         \A i \in 1 .. n : at[i] \in R /\ at[i] \in DOMAIN im /\ im[at[i]] \in Values
                           /\ at[i] \notin DOMAIN b.mm[p].pte,
         \A i, j \in 1 .. n : at[i] = at[j] => i = j,
         f[0] = b, \A i \in 1 .. n : f[i] = pgdir_alloc_page(f[i - 1], p, at[i], im[at[i]])
  PROVE  /\ Grown(b, f[n], p, A, R, K)
         /\ Seen(f[n], p) = Over(Seen(b, p), im, AtsOf(at, n))
<1>1. \A i \in 1 .. n : Missing(f[i - 1], p, A, R, K, at[i])
                        => Added(f[i - 1], f[i], p, A, R, at[i], im[at[i]])
  BY PgdirAllocIs
<1>2. Steps(f, n, at, im, p, A, R, K) BY <1>1 DEF Steps, Loading
<1>3. Grown(f[0], f[0], p, A, R, K) BY DEF Loading
<1>4. QED BY <1>2, <1>3, Chain

\* The regions change, the pages do not.
WithVmas(mem, p, v) == [mem EXCEPT !.mm[p].vmas = v]

LEMMA WithVmasIs ==
  ASSUME NEW mem, NEW p, NEW A, NEW R, NEW K, Loading(mem, p, A, R, K), NEW v \in Seq(Vmas)
  PROVE  LET m2 == WithVmas(mem, p, v) IN
         /\ Loading(m2, p, A, R, K) /\ Only(mem, m2, p, A) /\ Seen(m2, p) = Seen(mem, p)
         /\ m2.mm[p].pgdir = mem.mm[p].pgdir
         /\ m2.mm[p].vmas = v
         /\ m2.mm[p].pte = mem.mm[p].pte
<1> DEFINE s == mem.mm[p]
           s2 == [s EXCEPT !.vmas = v]
           mm2 == [mem.mm EXCEPT ![p] = s2]
           m2 == WithVmas(mem, p, v)
<1>1. mem \in Memories /\ s \in Spaces /\ p \in Procs /\ Kept(mem, p, A)
  BY DEF Loading, Grown, Kept, Memories
<1>2. m2 = [mem EXCEPT !.mm = mm2] BY <1>1 DEF WithVmas, Memories
<1>3. /\ s2 \in Spaces /\ s2.vmas = v /\ s2.pgdir = s.pgdir
      /\ s2.pde1 = s.pde1 /\ s2.pde0 = s.pde0 /\ s2.pte = s.pte
  BY <1>1 DEF Spaces
<1> HIDE DEF s2
<1>4. mm2 \in [Procs -> Spaces] /\ mm2[p] = s2 /\ \A q \in Procs \ {p} : mm2[q] = mem.mm[q]
  BY <1>1, <1>3 DEF Memories
<1> HIDE DEF mm2, m2
<1>5. /\ m2 \in Memories /\ m2.free = mem.free /\ m2.content = mem.content
      /\ m2.ref = mem.ref /\ m2.mm = mm2
      /\ m2.kstack = mem.kstack /\ m2.cr3 = mem.cr3 /\ m2.check = mem.check
      /\ m2.pra = mem.pra /\ m2.swap = mem.swap
  BY <1>1, <1>2, <1>4 DEF Memories
<1>6. Slots(s2) = Slots(s) /\ \A u : PageAt(s2, u) = PageAt(s, u) BY <1>3 DEF Slots, PageAt
<1>7. Own(s2) = Own(s) /\ (Injective(s2) <=> Injective(s)) BY <1>6 DEF Own, Injective
<1>8. Kept(m2, p, A) BY <1>1, <1>3, <1>4, <1>5, <1>7 DEF Kept
<1>9. Only(mem, m2, p, A) /\ Only(m2, m2, p, A) BY <1>4, <1>5 DEF Only
<1>10. Shape(s2, R) /\ Room(s2, K, A) BY <1>3, <1>4, <1>6 DEF Loading, Grown, Shape, Room
<1>11. Loading(m2, p, A, R, K)
  BY <1>4, <1>5, <1>8, <1>9, <1>10 DEF Loading, Grown
<1>12. Seen(m2, p) = Seen(mem, p) BY <1>3, <1>4, <1>5 DEF Seen
<1>13. QED BY <1>3, <1>4, <1>5, <1>9, <1>11, <1>12 DEF m2

LEMMA MmMapIs ==
  ASSUME NEW mem, NEW p, NEW A, NEW R, NEW K, Loading(mem, p, A, R, K), NEW vma \in Vmas
  PROVE  LET m2 == mm_map(mem, p, vma) IN
         /\ Loading(m2, p, A, R, K) /\ Only(mem, m2, p, A) /\ Seen(m2, p) = Seen(mem, p)
         /\ m2.mm[p].pgdir = mem.mm[p].pgdir
         /\ m2.mm[p].vmas = Append(mem.mm[p].vmas, vma)
         /\ m2.mm[p].pte = mem.mm[p].pte
<1> DEFINE v == Append(mem.mm[p].vmas, vma)
<1>1. mem \in Memories /\ mem.mm[p] \in Spaces /\ p \in Procs
  BY DEF Loading, Grown, Kept, Memories
<1>2. v \in Seq(Vmas) BY <1>1 DEF Spaces
<1>3. mm_map(mem, p, vma) = WithVmas(mem, p, v) BY <1>1 DEF mm_map, WithVmas, Memories
<1> DEFINE m2 == mm_map(mem, p, vma)
<1> HIDE DEF v, m2
<1>4. /\ Loading(m2, p, A, R, K) /\ Only(mem, m2, p, A) /\ Seen(m2, p) = Seen(mem, p)
      /\ m2.mm[p].pgdir = mem.mm[p].pgdir
      /\ m2.mm[p].vmas = v
      /\ m2.mm[p].pte = mem.mm[p].pte
  BY <1>2, <1>3, WithVmasIs DEF m2
<1>5. QED BY <1>4 DEF v, m2

SegPages(seg) == seg.start .. seg.end - 1

IsSegment(seg) ==
  /\ seg.start \in Nat /\ seg.end \in Nat /\ seg.start < seg.end /\ seg.w \in BOOLEAN
  /\ seg.image \in [SegPages(seg) -> Values]

LEMMA LoadSegmentIs ==
  ASSUME NEW mem, NEW p, NEW A, NEW R, NEW K, Loading(mem, p, A, R, K),
         NEW seg, IsSegment(seg), SegPages(seg) \subseteq R,
         SegPages(seg) \cap DOMAIN mem.mm[p].pte = {}
  PROVE  LET m2 == load_segment(mem, p, seg) IN
         /\ Loading(m2, p, A, R, K) /\ Only(mem, m2, p, A)
         /\ Seen(m2, p) = Over(Seen(mem, p), seg.image, SegPages(seg))
         /\ m2.mm[p].pgdir = mem.mm[p].pgdir
         /\ m2.mm[p].vmas = Append(mem.mm[p].vmas, Vma(seg))
<1> DEFINE b == mm_map(mem, p, Vma(seg))
           n == seg.end - seg.start
           a == seg.start
           im == seg.image
           at == [i \in 1 .. n |-> a + i - 1]
           f == CHOOSE g : g = [i \in 0 .. n |->
                                  IF i = 0 THEN b
                                  ELSE pgdir_alloc_page(g[i - 1], p, a + i - 1, im[a + i - 1])]
<1>1. n \in Nat /\ a \in Nat /\ SegPages(seg) = AtsOf(at, n)
  <2>1. n \in Nat /\ a \in Nat /\ seg.end \in Nat /\ seg.end = a + n BY DEF IsSegment
  <2> HIDE DEF n, a
  <2>2. \A x \in a .. seg.end - 1 : x - a + 1 \in 1 .. n /\ at[x - a + 1] = x BY <2>1
  <2>3. \A i \in 1 .. n : at[i] \in a .. seg.end - 1 BY <2>1
  <2> HIDE DEF at
  <2>4. a .. seg.end - 1 = AtsOf(at, n) BY <2>2, <2>3 DEF AtsOf
  <2>5. QED BY <2>1, <2>4 DEF SegPages, a
<1>2. Vma(seg) \in Vmas BY DEF Vma, Vmas, IsSegment
<1>3. /\ Loading(b, p, A, R, K) /\ Only(mem, b, p, A) /\ Seen(b, p) = Seen(mem, p)
      /\ b.mm[p].pgdir = mem.mm[p].pgdir
      /\ b.mm[p].vmas = Append(mem.mm[p].vmas, Vma(seg))
      /\ b.mm[p].pte = mem.mm[p].pte
  BY <1>2, MmMapIs
<1>4. im \in [SegPages(seg) -> Values] BY DEF IsSegment
<1>5. load_segment(mem, p, seg) = f[n] BY DEF load_segment
<1> HIDE DEF b, n, a, im
<1>6. FillLoop(f, b, n, p, at, im)
  <2>1. \A i \in 0 .. n : i # 0 => at[i] = a + i - 1 BY <1>1
  <2> HIDE DEF at
  <2>2. \A g : FillLoop(g, b, n, p, at, im) <=>
          g = [i \in 0 .. n |-> IF i = 0 THEN b
                               ELSE pgdir_alloc_page(g[i - 1], p, a + i - 1, im[a + i - 1])]
    BY <2>1 DEF FillLoop
  <2>3. \E g : FillLoop(g, b, n, p, at, im) BY <1>1, FillExists
  <2>4. QED BY <2>2, <2>3
<1> HIDE DEF f
<1>8. f[0] = b /\ \A i \in 1 .. n : f[i] = pgdir_alloc_page(f[i - 1], p, at[i], im[at[i]])
  <2> HIDE DEF at
  <2>1. QED BY <1>1, <1>6 DEF FillLoop
<1>9. \A i \in 1 .. n : at[i] \in SegPages(seg)
  <2> HIDE DEF at
  <2>1. QED BY <1>1 DEF AtsOf
<1>10. \A i, j \in 1 .. n : at[i] = at[j] => i = j BY <1>1
<1> HIDE DEF at
<1>11. \A i \in 1 .. n : at[i] \in R /\ at[i] \in DOMAIN im /\ im[at[i]] \in Values
                         /\ at[i] \notin DOMAIN b.mm[p].pte
  BY <1>3, <1>4, <1>9
<1>12. /\ Grown(b, f[n], p, A, R, K)
       /\ Seen(f[n], p) = Over(Seen(b, p), im, AtsOf(at, n))
  BY <1>1, <1>3, <1>8, <1>10, <1>11, FillIs
<1>13. Loading(f[n], p, A, R, K) BY <1>3, <1>12, GrownLoading
<1>14. Only(mem, f[n], p, A) BY <1>3, <1>12, OnlyTrans DEF Grown
<1>15. f[n].mm[p].pgdir = mem.mm[p].pgdir /\ f[n].mm[p].vmas = Append(mem.mm[p].vmas, Vma(seg))
  BY <1>3, <1>12 DEF Grown
<1>16. Seen(f[n], p) = Over(Seen(mem, p), im, SegPages(seg)) BY <1>1, <1>3, <1>12
<1>17. QED BY <1>5, <1>13, <1>14, <1>15, <1>16 DEF im

LEMMA OverSame ==
  ASSUME NEW f, NEW im, NEW im2, NEW S, S \subseteq DOMAIN im, S \subseteq DOMAIN im2,
         \A la \in S : im[la] = im2[la]
  PROVE  Over(f, im, S) = Over(f, im2, S)
<1>1. DOMAIN im \cap S = S /\ DOMAIN im2 \cap S = S OBVIOUS
<1>2. \A la : (IF la \in S THEN im[la] ELSE f[la]) = (IF la \in S THEN im2[la] ELSE f[la])
  OBVIOUS
<1>3. QED BY <1>1, <1>2 DEF Over

\* What the first n segments say, and the pages they are about.
PagesUpTo(prog, n) == UNION {SegPages(prog.segs[i]) : i \in 1 .. n}
SegIm(prog, n) ==
  [la \in PagesUpTo(prog, n) |->
     prog.segs[CHOOSE i \in 1 .. n : la \in SegPages(prog.segs[i])].image[la]]

Apart(prog, n) ==
  \A i, j \in 1 .. n : i # j => SegPages(prog.segs[i]) \cap SegPages(prog.segs[j]) = {}

LEMMA SegmentsAre ==
  ASSUME NEW prog \in Programs
  PROVE  /\ Len(prog.segs) \in Nat /\ DOMAIN prog.segs = 1 .. Len(prog.segs)
         /\ \A i \in 1 .. Len(prog.segs) :
              IsSegment(prog.segs[i]) /\ prog.segs[i].end <= StackFrom
<1>1. prog.segs \in Seq({prog.segs[i] : i \in DOMAIN prog.segs}) BY ProgramsAssumption
<1>2. Len(prog.segs) \in Nat /\ DOMAIN prog.segs = 1 .. Len(prog.segs) BY <1>1
<1>3. ASSUME NEW i \in 1 .. Len(prog.segs)
      PROVE  IsSegment(prog.segs[i]) /\ prog.segs[i].end <= StackFrom
  <2> DEFINE seg == prog.segs[i]
  <2>1. seg.start \in Nat /\ seg.end \in seg.start + 1 .. StackFrom /\ seg.w \in BOOLEAN
        /\ seg.image \in [seg.start .. seg.end - 1 -> Values]
    BY <1>2, ProgramsAssumption
  <2> HIDE DEF seg
  <2>2. IsSegment(seg) /\ seg.end <= StackFrom BY <2>1, Constants DEF IsSegment, SegPages
  <2>3. QED BY <2>2 DEF seg
<1>4. QED BY <1>2, <1>3

LEMMA GoodSegsIs ==
  ASSUME NEW prog \in Programs
  PROVE  LET n == GoodSegs(prog) IN
         /\ n \in 0 .. Len(prog.segs)
         /\ IsGood(prog) => n = Len(prog.segs)
         /\ Apart(prog, n)
<1> DEFINE segs == prog.segs
           n == GoodSegs(prog)
           bad == {i \in DOMAIN segs : Refused(prog, i)}
<1>1. Len(segs) \in Nat /\ DOMAIN segs = 1 .. Len(segs)
      /\ \A i \in 1 .. Len(segs) : IsSegment(segs[i])
  BY SegmentsAre
<1>2. bad # {} => Least(bad) \in bad /\ \A x \in bad : Least(bad) <= x
  <2>1. bad \in SUBSET Nat BY <1>1
  <2> HIDE DEF bad
  <2>2. QED BY <2>1, LeastIs
<1>3. n = IF ~prog.magic THEN 0 ELSE IF bad = {} THEN Len(segs) ELSE Least(bad) - 1
  BY DEF GoodSegs
<1>4. n \in 0 .. Len(segs) BY <1>1, <1>2, <1>3
<1>5. IsGood(prog) => n = Len(segs)
  <2>1. IsGood(prog) => prog.magic /\ bad = {} BY DEF IsGood
  <2>2. QED BY <1>3, <2>1
<1>6. \A j \in 1 .. n : j \in DOMAIN segs /\ ~Refused(prog, j)
  <2>1. SUFFICES ASSUME NEW j \in 1 .. n PROVE j \in DOMAIN segs /\ j \notin bad OBVIOUS
  <2>2. j \in DOMAIN segs BY <1>1, <1>4
  <2>3. \A x \in bad : x \in Nat BY <1>1
  <2> HIDE DEF bad
  <2>4. ASSUME j \in bad PROVE FALSE
    <3>1. bad # {} /\ Least(bad) <= j /\ Least(bad) \in Nat BY <1>2, <2>3, <2>4
    <3>2. n < j BY <1>3, <3>1
    <3>3. QED BY <1>4, <3>2
  <2>5. QED BY <2>2, <2>4
<1> HIDE DEF n, bad
<1>7. \A i, j \in 1 .. n : i < j => SegPages(segs[i]) \cap SegPages(segs[j]) = {}
  <2>1. SUFFICES ASSUME NEW i \in 1 .. n, NEW j \in 1 .. n, i < j
                 PROVE  SegPages(segs[i]) \cap SegPages(segs[j]) = {}
    OBVIOUS
  <2>2. segs[i].end <= segs[j].start \/ segs[j].end <= segs[i].start
    BY <1>6, <2>1, ProgramsAssumption
  <2>3. IsSegment(segs[i]) /\ IsSegment(segs[j]) BY <1>1, <1>6
  <2>4. segs[i].start \in Nat /\ segs[i].end \in Nat /\ segs[j].start \in Nat /\ segs[j].end \in Nat
    BY <2>3 DEF IsSegment
  <2>5. ASSUME NEW la \in SegPages(segs[i]), la \in SegPages(segs[j]) PROVE FALSE
    BY <2>2, <2>4, <2>5 DEF SegPages
  <2>6. QED BY <2>5
<1>8. \A i, j \in 1 .. n : i # j => SegPages(segs[i]) \cap SegPages(segs[j]) = {}
  <2>1. \A i, j \in 1 .. n : i # j => i < j \/ j < i BY <1>1, <1>4
  <2>2. QED BY <1>7, <2>1
<1>9. QED BY <1>4, <1>5, <1>8 DEF n, Apart

LEMMA SegImIs ==
  ASSUME NEW prog, NEW n \in Nat, NEW i \in 1 .. n, Apart(prog, n)
  PROVE  /\ SegPages(prog.segs[i]) \subseteq DOMAIN SegIm(prog, n)
         /\ \A la \in SegPages(prog.segs[i]) : SegIm(prog, n)[la] = prog.segs[i].image[la]
<1>1. SegPages(prog.segs[i]) \subseteq PagesUpTo(prog, n) BY DEF PagesUpTo
<1>2. ASSUME NEW la \in SegPages(prog.segs[i]) PROVE SegIm(prog, n)[la] = prog.segs[i].image[la]
  <2> DEFINE j == CHOOSE k \in 1 .. n : la \in SegPages(prog.segs[k])
  <2>1. j \in 1 .. n /\ la \in SegPages(prog.segs[j]) OBVIOUS
  <2>2. SegIm(prog, n)[la] = prog.segs[j].image[la] BY <1>1 DEF SegIm
  <2> HIDE DEF j
  <2>3. j = i BY <2>1 DEF Apart
  <2>4. QED BY <2>2, <2>3
<1>3. QED BY <1>1, <1>2 DEF SegIm

LEMMA LoadingMore ==
  ASSUME NEW mem, NEW p, NEW A, NEW R, NEW K, Loading(mem, p, A, R, K),
         NEW S, R \subseteq S, S \subseteq Nat, \A la \in S : NewSlots(la) \subseteq K
  PROVE  Loading(mem, p, A, S, K)
BY DEF Loading, Grown, Shape

\* load_segments has mapped the segments before the first bad one.
LEMMA LoadSegmentsIs ==
  ASSUME NEW prog \in Programs, NEW mem, NEW p, NEW A, NEW K,
         Loading(mem, p, A, PagesUpTo(prog, GoodSegs(prog)), K),
         mem.mm[p].vmas = <<>>, DOMAIN mem.mm[p].pte = {}
  PROVE  LET m2 == load_segments(mem, p, prog)
             n == GoodSegs(prog)
         IN
         /\ Loading(m2, p, A, PagesUpTo(prog, n), K) /\ Only(mem, m2, p, A)
         /\ Seen(m2, p) = Over(Seen(mem, p), SegIm(prog, n), PagesUpTo(prog, n))
         /\ m2.mm[p].pgdir = mem.mm[p].pgdir
         /\ m2.mm[p].vmas = [i \in 1 .. n |-> Vma(prog.segs[i])]
<1> DEFINE n == GoodSegs(prog)
           segs == prog.segs
           R == PagesUpTo(prog, n)
           im == SegIm(prog, n)
           f == CHOOSE g : LoadLoop(g, mem, n, p, segs)
           Up(k) == PagesUpTo(prog, k)
           Good(k) == /\ Loading(f[k], p, A, R, K) /\ Only(mem, f[k], p, A)
                      /\ Seen(f[k], p) = Over(Seen(mem, p), im, Up(k))
                      /\ f[k].mm[p].pgdir = mem.mm[p].pgdir
                      /\ f[k].mm[p].vmas = [i \in 1 .. k |-> Vma(segs[i])]
           S == {k \in Nat : k <= n => Good(k)}
<1>1. /\ n \in Nat /\ \A i \in 1 .. n : IsSegment(segs[i])
      /\ \A i, j \in 1 .. n : i # j => SegPages(segs[i]) \cap SegPages(segs[j]) = {}
      /\ Apart(prog, n)
  <2>1. n \in 0 .. Len(segs) /\ Apart(prog, n) BY GoodSegsIs
  <2>2. Len(segs) \in Nat /\ \A i \in 1 .. Len(segs) : IsSegment(segs[i]) BY SegmentsAre
  <2> HIDE DEF n
  <2>3. \A i, j \in 1 .. n : i # j => SegPages(segs[i]) \cap SegPages(segs[j]) = {}
    BY <2>1 DEF Apart
  <2> HIDE DEF segs
  <2>4. n \in Nat /\ \A i \in 1 .. n : i \in 1 .. Len(segs) BY <2>1, <2>2
  <2>5. QED BY <2>1, <2>2, <2>3, <2>4
<1>2. load_segments(mem, p, prog) = f[n] BY DEF load_segments, LoadLoop
<1>3. LoadLoop(f, mem, n, p, segs) BY <1>1, LoadExists
<1> HIDE DEF n, f, segs
<1>4. f[0] = mem /\ \A i \in 1 .. n : f[i] = load_segment(f[i - 1], p, segs[i])
  BY <1>1, <1>3 DEF LoadLoop
<1>5. DOMAIN im = R BY DEF SegIm, n
<1> HIDE DEF R, im
<1>6. Good(0)
  <2>1. Up(0) = {} BY DEF PagesUpTo
  <2>2. Over(Seen(mem, p), im, {}) = Seen(mem, p) BY DEF Over, Seen
  <2>3. [i \in 1 .. 0 |-> Vma(segs[i])] = <<>> OBVIOUS
  <2>4. Only(mem, mem, p, A) BY DEF Only
  <2>5. Loading(mem, p, A, R, K) BY DEF R, n
  <2>6. QED BY <1>4, <2>1, <2>2, <2>3, <2>4, <2>5
<1>7. ASSUME NEW k \in Nat, k + 1 <= n, Good(k) PROVE Good(k + 1)
  <2> DEFINE seg == segs[k + 1]
             h == f[k]
             h2 == f[k + 1]
  <2>1. k + 1 \in 1 .. n /\ (k + 1) - 1 = k BY <1>1, <1>7
  <2>2. h2 = load_segment(h, p, seg) BY <1>4, <2>1
  <2>3. Up(k + 1) = Up(k) \cup SegPages(seg)
    <3>1. \A i : i \in 1 .. k + 1 <=> i \in 1 .. k \/ i = k + 1 OBVIOUS
    <3>2. QED BY <3>1 DEF PagesUpTo, segs
  <2>4. SegPages(seg) \subseteq R BY <2>1 DEF R, PagesUpTo, segs
  <2>5. SegPages(seg) \cap Up(k) = {}
    <3>1. \A i \in 1 .. k : i \in 1 .. n /\ i # k + 1 BY <1>1, <1>7
    <3>2. \A i \in 1 .. k : SegPages(segs[i]) \cap SegPages(seg) = {} BY <1>1, <2>1, <3>1
    <3>3. QED BY <3>2 DEF PagesUpTo, segs
  <2>6. DOMAIN h.mm[p].pte = R \cap Up(k)
    <3>1. DOMAIN Seen(h, p) = DOMAIN Seen(mem, p) \cup (R \cap Up(k)) BY <1>5, <1>7 DEF Over
    <3>2. DOMAIN Seen(h, p) = DOMAIN h.mm[p].pte /\ DOMAIN Seen(mem, p) = {} BY DEF Seen
    <3>3. QED BY <3>1, <3>2
  <2>7. /\ Loading(h2, p, A, R, K) /\ Only(h, h2, p, A)
        /\ Seen(h2, p) = Over(Seen(h, p), seg.image, SegPages(seg))
        /\ h2.mm[p].pgdir = h.mm[p].pgdir
        /\ h2.mm[p].vmas = Append(h.mm[p].vmas, Vma(seg))
    <3>1. Loading(h, p, A, R, K) /\ IsSegment(seg) BY <1>1, <1>7, <2>1
    <3>2. SegPages(seg) \cap DOMAIN h.mm[p].pte = {} BY <2>5, <2>6
    <3> HIDE DEF h, h2, seg
    <3>3. QED BY <2>2, <2>4, <3>1, <3>2, LoadSegmentIs
  <2>8. Over(Seen(h, p), seg.image, SegPages(seg)) = Over(Seen(h, p), im, SegPages(seg))
    <3>1. SegPages(seg) \subseteq DOMAIN im /\ \A la \in SegPages(seg) : im[la] = seg.image[la]
      <4>1. Apart(prog, n) BY <1>1
      <4>2. k + 1 \in 1 .. n BY <2>1
      <4>3. SegPages(prog.segs[k + 1]) \subseteq DOMAIN SegIm(prog, n)
            /\ \A la \in SegPages(prog.segs[k + 1]) :
                 SegIm(prog, n)[la] = prog.segs[k + 1].image[la]
        BY <1>1, <4>1, <4>2, SegImIs
      <4>4. QED BY <4>3 DEF im, segs
    <3>2. SegPages(seg) \subseteq DOMAIN seg.image BY <1>1, <2>1 DEF IsSegment
    <3>3. QED BY <3>1, <3>2, OverSame
  <2>9. Seen(h2, p) = Over(Seen(mem, p), im, Up(k + 1)) BY <1>7, <2>3, <2>7, <2>8, OverOver
  <2>10. h2.mm[p].vmas = [i \in 1 .. k + 1 |-> Vma(segs[i])]
    <3> DEFINE v == [i \in 1 .. k |-> Vma(segs[i])]
    <3>1. v \in Seq({Vma(segs[i]) : i \in 1 .. k}) /\ Len(v) = k OBVIOUS
    <3>2. Append(v, Vma(seg)) = [i \in 1 .. k + 1 |-> IF i = k + 1 THEN Vma(seg) ELSE v[i]]
      BY <3>1
    <3>3. \A i \in 1 .. k + 1 : (IF i = k + 1 THEN Vma(seg) ELSE v[i]) = Vma(segs[i]) OBVIOUS
    <3> HIDE DEF v
    <3>4. Append(v, Vma(seg)) = [i \in 1 .. k + 1 |-> Vma(segs[i])] BY <3>2, <3>3
    <3>5. QED BY <1>7, <2>7, <3>4 DEF v
  <2>11. Only(mem, h2, p, A) BY <1>7, <2>7, OnlyTrans
  <2>12. QED BY <1>7, <2>7, <2>9, <2>10, <2>11
<1> HIDE DEF Good
<1>8. Nat \subseteq S
  <2>1. 0 \in S BY <1>6
  <2>2. \A k \in Nat : k \in S => k + 1 \in S BY <1>1, <1>7
  <2> HIDE DEF S
  <2>3. QED BY <2>1, <2>2, SetInduction
<1>9. Good(n) BY <1>1, <1>8
<1>10. QED BY <1>2, <1>9 DEF Good, n, R, im, segs

LEMMA FillStackIs ==
  ASSUME NEW mem, NEW p, NEW A, NEW R, NEW K, Loading(mem, p, A, R, K),
         Loaded \subseteq R, Loaded \cap DOMAIN mem.mm[p].pte = {},
         NEW old \in [Loaded -> Values]
  PROVE  LET m2 == fill_stack(mem, p, old) IN
         /\ Loading(m2, p, A, R, K) /\ Only(mem, m2, p, A)
         /\ Seen(m2, p) = Over(Seen(mem, p), old, Loaded)
         /\ m2.mm[p].pgdir = mem.mm[p].pgdir
         /\ m2.mm[p].vmas = Append(mem.mm[p].vmas, StackVma)
<1> DEFINE b == mm_map(mem, p, StackVma)
           n == LoadStack
           at == [i \in 1 .. n |-> StackTo - i]
           f == CHOOSE g : g = [i \in 0 .. n |->
                                  IF i = 0 THEN b
                                  ELSE pgdir_alloc_page(g[i - 1], p, StackTo - i, old[StackTo - i])]
<1>1. n \in Nat /\ Loaded = AtsOf(at, n)
  <2>1. n \in Nat /\ StackTo \in Nat BY Constants
  <2>2. \A x \in StackTo - n .. StackTo - 1 : StackTo - x \in 1 .. n /\ at[StackTo - x] = x
    BY <2>1
  <2>3. \A i \in 1 .. n : at[i] \in StackTo - n .. StackTo - 1 BY <2>1
  <2> HIDE DEF at
  <2>4. StackTo - n .. StackTo - 1 = AtsOf(at, n) BY <2>2, <2>3 DEF AtsOf
  <2>5. QED BY <2>1, <2>4 DEF Loaded
<1>2. StackVma \in Vmas BY Constants DEF StackVma, Vmas
<1>3. /\ Loading(b, p, A, R, K) /\ Only(mem, b, p, A) /\ Seen(b, p) = Seen(mem, p)
      /\ b.mm[p].pgdir = mem.mm[p].pgdir
      /\ b.mm[p].vmas = Append(mem.mm[p].vmas, StackVma)
      /\ b.mm[p].pte = mem.mm[p].pte
  BY <1>2, MmMapIs
<1>4. fill_stack(mem, p, old) = f[n] BY DEF fill_stack
<1> HIDE DEF b, n
<1>5. FillLoop(f, b, n, p, at, old)
  <2>1. \A i \in 0 .. n : i # 0 => at[i] = StackTo - i BY <1>1
  <2> HIDE DEF at
  <2>2. \A g : FillLoop(g, b, n, p, at, old) <=>
          g = [i \in 0 .. n |-> IF i = 0 THEN b
                               ELSE pgdir_alloc_page(g[i - 1], p, StackTo - i, old[StackTo - i])]
    BY <2>1 DEF FillLoop
  <2>3. \E g : FillLoop(g, b, n, p, at, old) BY <1>1, FillExists
  <2>4. QED BY <2>2, <2>3
<1> HIDE DEF f
<1>6. f[0] = b /\ \A i \in 1 .. n : f[i] = pgdir_alloc_page(f[i - 1], p, at[i], old[at[i]])
  <2> HIDE DEF at
  <2>1. QED BY <1>1, <1>5 DEF FillLoop
<1>7. \A i, j \in 1 .. n : at[i] = at[j] => i = j BY <1>1, Constants
<1> HIDE DEF at
<1>8. \A i \in 1 .. n : at[i] \in Loaded BY <1>1 DEF AtsOf
<1>9. \A i \in 1 .. n : at[i] \in R /\ at[i] \in DOMAIN old /\ old[at[i]] \in Values
                        /\ at[i] \notin DOMAIN b.mm[p].pte
  BY <1>3, <1>8
<1>10. /\ Grown(b, f[n], p, A, R, K)
       /\ Seen(f[n], p) = Over(Seen(b, p), old, AtsOf(at, n))
  BY <1>1, <1>3, <1>6, <1>7, <1>9, FillIs
<1>11. Loading(f[n], p, A, R, K) BY <1>3, <1>10, GrownLoading
<1>12. Only(mem, f[n], p, A) BY <1>3, <1>10, OnlyTrans DEF Grown
<1>13. f[n].mm[p].pgdir = mem.mm[p].pgdir /\ f[n].mm[p].vmas = Append(mem.mm[p].vmas, StackVma)
  BY <1>3, <1>10 DEF Grown
<1>14. Seen(f[n], p) = Over(Seen(mem, p), old, Loaded) BY <1>1, <1>3, <1>10
<1>15. QED BY <1>4, <1>11, <1>12, <1>13, <1>14

-----------------------------------------------------------------------------
(***************************************************************************)
(* Copying an address space.                                               *)
(***************************************************************************)
\* copy_page puts a page with the same contents into the other address space.
LEMMA CopyPageIs ==
  ASSUME NEW mem, NEW p, NEW c, NEW A, NEW R, NEW K, NEW la,
         IsValid(mem, p, la), mem.mm[p].pte[la].at \in Pages, p \in Procs, p # c,
         Missing(mem, c, A, R, K, la)
  PROVE  Added(mem, copy_page(mem, p, c, la), c, A, R, la, mem.content[mem.mm[p].pte[la].at])
<1> DEFINE m1 == get_pte(mem, c, la)
           v == mem.content[mem.mm[p].pte[la].at]
           m2 == pgdir_alloc_page(m1, c, la, v)
<1>1. Wanted(mem, c, A, R, K, la) /\ <<3, la>> \in K /\ la \notin DOMAIN mem.mm[c].pte
      /\ ~mem.check
  BY DEF Missing
<1>2. Got(mem, m1, c, A, R, la) BY <1>1, GetPteIs
<1>3. mem \in Memories BY <1>1 DEF Wanted, Kept
<1>4. v \in Values BY <1>3 DEF Memories
<1>5. m1.content = mem.content /\ ~m1.check BY <1>1, <1>2 DEF Got, Only
<1> HIDE DEF m1
<1>6. copy_page(mem, p, c, la) = m2
  <2>1. copy_page(mem, p, c, la)
        = page_insert([alloc_page(m1) EXCEPT !.content[NextPage(m1)] = v], c, NextPage(m1), la)
    BY <1>5 DEF copy_page, m1
  <2>2. QED BY <1>5, <2>1 DEF pgdir_alloc_page
<1>7. Missing(m1, c, A, R, K, la)
  <2>1. Room(m1.mm[c], K, A) BY <1>1, <1>2 DEF Got, Room, Wanted
  <2>2. QED BY <1>1, <1>2, <1>5, <2>1 DEF Missing, Wanted, Got
<1> HIDE DEF v, m2
<1>8. Added(m1, m2, c, A, R, la, v) BY <1>4, <1>7, PgdirAllocIs DEF m2
<1>9. Seen(m1, c) = Seen(mem, c)
  <2>1. m1.swap = mem.swap /\ m1.mm[c].pte = mem.mm[c].pte BY <1>2 DEF Got, Only
  <2>2. QED BY <1>5, <2>1 DEF Seen
<1>10. Only(mem, m2, c, A) BY <1>2, <1>8, OnlyTrans DEF Got, Added
<1>11. Slots(m2.mm[c]) \subseteq Slots(mem.mm[c]) \cup NewSlots(la)
  BY <1>2, <1>8 DEF Got, Added, NewSlots
<1>12. Added(mem, m2, c, A, R, la, v) BY <1>2, <1>8, <1>9, <1>10, <1>11 DEF Added, Got
<1>13. QED BY <1>6, <1>12 DEF v

\* The pages of the parent are no pages of the child.
Parent(mem, p, c, A) ==
  /\ p \in Procs /\ p # c
  /\ \A la \in DOMAIN mem.mm[p].pte :
       mem.mm[p].pte[la].v /\ mem.mm[p].pte[la].at \in Pages \ A

LEMMA ParentStays ==
  ASSUME NEW mem, NEW m2, NEW p, NEW c, NEW A, Parent(mem, p, c, A), Only(mem, m2, c, A)
  PROVE  Parent(m2, p, c, A) /\ m2.mm[p] = mem.mm[p] /\ Seen(m2, p) = Seen(mem, p)
<1>1. m2.mm[p] = mem.mm[p] BY DEF Parent, Only
<1>2. \A la \in DOMAIN mem.mm[p].pte :
        m2.content[mem.mm[p].pte[la].at] = mem.content[mem.mm[p].pte[la].at]
  BY DEF Parent, Only
<1>3. m2.swap = mem.swap BY DEF Only
<1>4. Seen(m2, p) = Seen(mem, p) BY <1>1, <1>2, <1>3 DEF Seen
<1>5. Parent(m2, p, c, A) BY <1>1 DEF Parent
<1>6. QED BY <1>1, <1>4, <1>5

LEMMA CopyRangeIs ==
  ASSUME NEW mem, NEW p, NEW c, NEW A, NEW K, NEW vma,
         Parent(mem, p, c, A), Loading(mem, c, A, DOMAIN mem.mm[p].pte, K),
         vma.start \in Nat, vma.end \in Nat, vma.start < vma.end,
         SegPages(vma) \cap DOMAIN mem.mm[c].pte = {}
  PROVE  LET m2 == copy_range(mem, p, c, vma) IN
         /\ Grown(mem, m2, c, A, DOMAIN mem.mm[p].pte, K)
         /\ Seen(m2, c) = Over(Seen(mem, c), Seen(mem, p), SegPages(vma))
<1> DEFINE n == vma.end - vma.start
           a == vma.start
           at == [i \in 1 .. n |-> a + i - 1]
           R == DOMAIN mem.mm[p].pte
           im == Seen(mem, p)
           f == CHOOSE g : g = [i \in 0 .. n |->
                                  IF i = 0 THEN mem ELSE copy_page(g[i - 1], p, c, a + i - 1)]
<1>1. n \in Nat /\ a \in Nat /\ SegPages(vma) = AtsOf(at, n)
  <2>1. n \in Nat /\ a \in Nat /\ vma.end \in Nat /\ vma.end = a + n OBVIOUS
  <2> HIDE DEF n, a
  <2>2. \A x \in a .. vma.end - 1 : x - a + 1 \in 1 .. n /\ at[x - a + 1] = x BY <2>1
  <2>3. \A i \in 1 .. n : at[i] \in a .. vma.end - 1 BY <2>1
  <2> HIDE DEF at
  <2>4. a .. vma.end - 1 = AtsOf(at, n) BY <2>2, <2>3 DEF AtsOf
  <2>5. QED BY <2>1, <2>4 DEF SegPages, a
<1>2. copy_range(mem, p, c, vma) = f[n] BY DEF copy_range
<1> HIDE DEF n, a
<1>3. CopyLoop(f, mem, n, p, c, at)
  <2>1. \A i \in 0 .. n : i # 0 => at[i] = a + i - 1 BY <1>1
  <2> HIDE DEF at
  <2>2. \A g : CopyLoop(g, mem, n, p, c, at) <=>
          g = [i \in 0 .. n |-> IF i = 0 THEN mem ELSE copy_page(g[i - 1], p, c, a + i - 1)]
    BY <2>1 DEF CopyLoop
  <2>3. \E g : CopyLoop(g, mem, n, p, c, at) BY <1>1, CopyExists
  <2>4. QED BY <2>2, <2>3
<1> HIDE DEF f
<1>4. f[0] = mem /\ \A i \in 1 .. n : f[i] = copy_page(f[i - 1], p, c, at[i])
  <2> HIDE DEF at
  <2>1. QED BY <1>1, <1>3 DEF CopyLoop
<1>5. \A i, j \in 1 .. n : at[i] = at[j] => i = j BY <1>1
<1> HIDE DEF at
<1>6. \A i \in 1 .. n : at[i] \in SegPages(vma) BY <1>1 DEF AtsOf
<1>7. DOMAIN im = R BY DEF Seen
<1>8. Grown(mem, mem, c, A, R, K) /\ c \in Procs /\ R \subseteq Nat /\ ~mem.check
      /\ \A la \in R : NewSlots(la) \subseteq K
  BY DEF Loading
<1>9. ASSUME NEW i \in 1 .. n, Grown(mem, f[i - 1], c, A, R, K)
      PROVE  /\ at[i] \notin R => f[i] = f[i - 1]
             /\ at[i] \in R /\ Missing(f[i - 1], c, A, R, K, at[i])
                => Added(f[i - 1], f[i], c, A, R, at[i], im[at[i]])
  <2> DEFINE h == f[i - 1]
             la == at[i]
  <2>1. f[i] = copy_page(h, p, c, la) BY <1>4
  <2>2. Parent(h, p, c, A) /\ h.mm[p] = mem.mm[p] /\ Seen(h, p) = im
    BY <1>9, ParentStays DEF Grown
  <2> HIDE DEF h, la
  <2>3. la \notin R => f[i] = h BY <2>1, <2>2 DEF copy_page, IsValid
  <2>4. ASSUME la \in R, Missing(h, c, A, R, K, la) PROVE Added(h, f[i], c, A, R, la, im[la])
    <3>1. IsValid(h, p, la) /\ h.mm[p].pte[la].at \in Pages /\ p \in Procs /\ p # c
      BY <2>2, <2>4 DEF IsValid, Parent
    <3>2. im[la] = h.content[h.mm[p].pte[la].at]
      BY <2>2, <2>4, <3>1 DEF Seen, IsValid
    <3> HIDE DEF R, im
    <3>3. QED BY <2>1, <2>4, <3>1, <3>2, CopyPageIs
  <2>5. QED BY <2>3, <2>4 DEF h, la
<1> HIDE DEF R, im
<1>10. Steps(f, n, at, im, c, A, R, K)
  <2>1. \A i \in 1 .. n : at[i] \in DOMAIN im => at[i] \notin DOMAIN mem.mm[c].pte BY <1>6
  <2>2. QED BY <1>1, <1>4, <1>5, <1>7, <1>8, <1>9, <2>1 DEF Steps
<1>11. /\ Grown(mem, f[n], c, A, R, K)
       /\ Seen(f[n], c) = Over(Seen(mem, c), im, SegPages(vma))
  BY <1>1, <1>4, <1>8, <1>10, Chain
<1>12. QED BY <1>2, <1>11 DEF R, im

\* The regions of an address space: apart, and a directory's pages in one table.
RegionPages(vmas, n) == UNION {SegPages(vmas[i]) : i \in 1 .. n}
Regions(vmas) ==
  /\ vmas \in Seq(Vmas)
  /\ \A i \in 1 .. Len(vmas) : vmas[i].start < vmas[i].end /\ vmas[i].end <= StackTo
  /\ \A i, j \in 1 .. Len(vmas) : i # j => SegPages(vmas[i]) \cap SegPages(vmas[j]) = {}
  /\ \A a, b \in PagesOf(vmas) : a \div PDSIZE = b \div PDSIZE => a \div PTSIZE = b \div PTSIZE

LEMMA RegionsAre ==
  ASSUME NEW vmas, Regions(vmas)
  PROVE  /\ Len(vmas) \in Nat /\ DOMAIN vmas = 1 .. Len(vmas)
         /\ PagesOf(vmas) = RegionPages(vmas, Len(vmas))
         /\ \A i \in 1 .. Len(vmas) :
              vmas[i] \in Vmas /\ vmas[i].start \in Nat /\ vmas[i].end \in Nat
         /\ PagesOf(vmas) \subseteq Vas
<1>1. /\ Len(vmas) \in Nat /\ DOMAIN vmas = 1 .. Len(vmas)
      /\ \A i \in 1 .. Len(vmas) : vmas[i] \in Vmas
  BY DEF Regions
<1>2. PagesOf(vmas) = RegionPages(vmas, Len(vmas)) BY <1>1 DEF PagesOf, RegionPages, SegPages
<1>3. \A i \in 1 .. Len(vmas) : vmas[i].start \in Nat /\ vmas[i].end \in Nat BY <1>1 DEF Vmas
<1>4. PagesOf(vmas) \subseteq Vas
  <2>1. SUFFICES ASSUME NEW i \in 1 .. Len(vmas), NEW la \in SegPages(vmas[i]) PROVE la \in Vas
    BY <1>2 DEF RegionPages
  <2>2. vmas[i].end <= StackTo /\ StackTo \in Nat BY Constants DEF Regions
  <2>3. vmas[i].start \in Nat /\ vmas[i].end \in Nat BY <1>3
  <2>4. QED BY <2>2, <2>3 DEF SegPages, Vas
<1>5. QED BY <1>1, <1>2, <1>3, <1>4

LEMMA DupIs ==
  ASSUME NEW mem, NEW p, NEW c, NEW A, NEW K,
         Parent(mem, p, c, A), Loading(mem, c, A, DOMAIN mem.mm[p].pte, K),
         Regions(mem.mm[p].vmas), DOMAIN mem.mm[p].pte \subseteq PagesOf(mem.mm[p].vmas),
         DOMAIN mem.mm[c].pte = {}
  PROVE  LET m2 == dup_mmap(mem, p, c) IN
         /\ Loading(m2, c, A, DOMAIN mem.mm[p].pte, K) /\ Only(mem, m2, c, A)
         /\ Seen(m2, c) = Seen(mem, p)
         /\ m2.mm[c].pgdir = mem.mm[c].pgdir
         /\ m2.mm[c].vmas = mem.mm[p].vmas
<1> DEFINE vmas == mem.mm[p].vmas
           n == Len(vmas)
           at == [i \in 1 .. n |-> vmas[n + 1 - i]]
           R == DOMAIN mem.mm[p].pte
           im == Seen(mem, p)
           f == CHOOSE g : g = [i \in 0 .. n |->
                                  IF i = 0 THEN mem
                                  ELSE copy_range(g[i - 1], p, c, vmas[n + 1 - i])]
           Up(k) == RegionPages(at, k)
           Good(k) == /\ Grown(mem, f[k], c, A, R, K)
                      /\ Seen(f[k], c) = Over(Seen(mem, c), im, Up(k))
           S == {k \in Nat : k <= n => Good(k)}
<1>1. /\ n \in Nat /\ PagesOf(vmas) = RegionPages(vmas, n) /\ vmas \in Seq(Vmas)
      /\ \A i \in 1 .. n : /\ vmas[i].start \in Nat /\ vmas[i].end \in Nat
                           /\ vmas[i].start < vmas[i].end
      /\ \A i, j \in 1 .. n : i # j => SegPages(vmas[i]) \cap SegPages(vmas[j]) = {}
  <2> HIDE DEF vmas
  <2>1. Regions(vmas) BY DEF vmas
  <2>2. QED BY <2>1, RegionsAre DEF Regions
<1>2. dup_mmap(mem, p, c) = WithVmas(f[n], c, vmas) BY DEF dup_mmap, WithVmas
<1> HIDE DEF n, vmas
<1>3. DupLoop(f, mem, n, p, c, at)
  <2>1. \A i \in 0 .. n : i # 0 => at[i] = vmas[n + 1 - i] BY <1>1
  <2> HIDE DEF at
  <2>2. \A g : DupLoop(g, mem, n, p, c, at) <=>
          g = [i \in 0 .. n |-> IF i = 0 THEN mem ELSE copy_range(g[i - 1], p, c, vmas[n + 1 - i])]
    BY <2>1 DEF DupLoop
  <2>3. \E g : DupLoop(g, mem, n, p, c, at) BY <1>1, DupExists
  <2>4. QED BY <2>2, <2>3
<1> HIDE DEF f
<1>4. f[0] = mem /\ \A i \in 1 .. n : f[i] = copy_range(f[i - 1], p, c, at[i])
  <2> HIDE DEF at
  <2>1. QED BY <1>1, <1>3 DEF DupLoop
<1>5. \A i \in 1 .. n : n + 1 - i \in 1 .. n /\ at[i] = vmas[n + 1 - i] BY <1>1
<1>6. \A i \in 1 .. n : at[n + 1 - i] = vmas[i] BY <1>1, <1>5
<1> HIDE DEF at
<1>7. \A i, j \in 1 .. n : i # j => SegPages(at[i]) \cap SegPages(at[j]) = {}
  <2>1. \A i, j \in 1 .. n : i # j => n + 1 - i # n + 1 - j BY <1>1
  <2>2. QED BY <1>1, <1>5, <2>1
<1>8. Up(n) = PagesOf(vmas)
  <2>1. Up(n) \subseteq PagesOf(vmas) BY <1>1, <1>5 DEF RegionPages
  <2>2. PagesOf(vmas) \subseteq Up(n) BY <1>1, <1>5, <1>6 DEF RegionPages
  <2>3. QED BY <2>1, <2>2
<1>9. DOMAIN im = R BY DEF Seen
<1>10. Good(0)
  <2>1. Up(0) = {} BY DEF RegionPages
  <2>2. Over(Seen(mem, c), im, {}) = Seen(mem, c) BY DEF Over, Seen
  <2>3. Grown(mem, mem, c, A, R, K) BY DEF Loading
  <2>4. QED BY <1>4, <2>1, <2>2, <2>3
<1>11. ASSUME NEW k \in Nat, k + 1 <= n, Good(k) PROVE Good(k + 1)
  <2> DEFINE vma == at[k + 1]
             h == f[k]
             h2 == f[k + 1]
  <2>1. k + 1 \in 1 .. n /\ (k + 1) - 1 = k BY <1>1, <1>11
  <2>2. h2 = copy_range(h, p, c, vma) BY <1>4, <2>1
  <2>3. Up(k + 1) = Up(k) \cup SegPages(vma)
    <3>1. \A i : i \in 1 .. k + 1 <=> i \in 1 .. k \/ i = k + 1 OBVIOUS
    <3>2. QED BY <3>1 DEF RegionPages
  <2>4. SegPages(vma) \cap Up(k) = {}
    <3>1. \A i \in 1 .. k : i \in 1 .. n /\ i # k + 1 BY <1>1, <1>11
    <3>2. \A i \in 1 .. k : SegPages(at[i]) \cap SegPages(vma) = {} BY <1>7, <2>1, <3>1
    <3>3. QED BY <3>2 DEF RegionPages
  <2>5. DOMAIN h.mm[c].pte = R \cap Up(k)
    <3>1. DOMAIN Seen(h, c) = DOMAIN Seen(mem, c) \cup (R \cap Up(k)) BY <1>9, <1>11 DEF Over
    <3>2. DOMAIN Seen(h, c) = DOMAIN h.mm[c].pte /\ DOMAIN Seen(mem, c) = {} BY DEF Seen
    <3>3. QED BY <3>1, <3>2
  <2>6. Parent(h, p, c, A) /\ h.mm[p] = mem.mm[p] /\ Seen(h, p) = im
    BY <1>11, ParentStays DEF Grown
  <2>7. Loading(h, c, A, R, K) BY <1>11, GrownLoading
  <2>8. vma.start \in Nat /\ vma.end \in Nat /\ vma.start < vma.end BY <1>1, <1>5, <2>1
  <2>9. SegPages(vma) \cap DOMAIN h.mm[c].pte = {} BY <2>4, <2>5
  <2>10. /\ Grown(h, h2, c, A, R, K)
         /\ Seen(h2, c) = Over(Seen(h, c), im, SegPages(vma))
    <3>1. Loading(h, c, A, DOMAIN h.mm[p].pte, K) BY <2>6, <2>7
    <3> HIDE DEF h, h2, vma
    <3>2. QED BY <2>2, <2>6, <2>8, <2>9, <3>1, CopyRangeIs
  <2>11. Seen(h2, c) = Over(Seen(mem, c), im, Up(k + 1)) BY <1>11, <2>3, <2>10, OverOver
  <2>12. Grown(mem, h2, c, A, R, K) BY <1>11, <2>10, OnlyTrans DEF Grown
  <2>13. QED BY <2>11, <2>12
<1> HIDE DEF Good
<1>12. Nat \subseteq S
  <2>1. 0 \in S BY <1>10
  <2>2. \A k \in Nat : k \in S => k + 1 \in S BY <1>1, <1>11
  <2> HIDE DEF S
  <2>3. QED BY <2>1, <2>2, SetInduction
<1>13. Grown(mem, f[n], c, A, R, K) /\ Seen(f[n], c) = Over(Seen(mem, c), im, PagesOf(vmas))
  BY <1>1, <1>8, <1>12 DEF Good
<1>14. Over(Seen(mem, c), im, PagesOf(vmas)) = im
  <2>1. DOMAIN Seen(mem, c) = {} BY DEF Seen
  <2>2. DOMAIN im \cap PagesOf(vmas) = DOMAIN im BY <1>9 DEF vmas
  <2>3. im = [la \in DOMAIN im |-> im[la]] BY DEF Seen
  <2> HIDE DEF im
  <2>4. QED BY <2>1, <2>2, <2>3 DEF Over
<1>15. Loading(f[n], c, A, R, K) BY <1>13, GrownLoading
<1>16. /\ Loading(WithVmas(f[n], c, vmas), c, A, R, K)
       /\ Only(f[n], WithVmas(f[n], c, vmas), c, A)
       /\ Seen(WithVmas(f[n], c, vmas), c) = im
       /\ WithVmas(f[n], c, vmas).mm[c].pgdir = mem.mm[c].pgdir
       /\ WithVmas(f[n], c, vmas).mm[c].vmas = vmas
  BY <1>1, <1>13, <1>14, <1>15, WithVmasIs DEF Grown
<1>17. Only(mem, WithVmas(f[n], c, vmas), c, A) BY <1>13, <1>16, OnlyTrans DEF Grown
<1>18. QED BY <1>2, <1>16, <1>17 DEF vmas

-----------------------------------------------------------------------------
(***************************************************************************)
(* Giving an address space back.                                           *)
(***************************************************************************)
LEMMA FreePagesIs ==
  ASSUME NEW mem \in Memories, NEW S \in SUBSET Pages
  PROVE  LET m2 == free_pages(mem, S) IN
         /\ m2 \in Memories /\ m2.free = mem.free \cup S /\ m2.mm = mem.mm
         /\ m2.kstack = mem.kstack /\ m2.cr3 = mem.cr3 /\ m2.check = mem.check
         /\ m2.pra = mem.pra /\ m2.swap = mem.swap
         /\ \A x \in Pages : m2.ref[x] = IF x \in S THEN 0 ELSE mem.ref[x]
         /\ \A x \in Pages : m2.content[x] = IF x \in S THEN 0 ELSE mem.content[x]
<1> DEFINE r2 == [x \in Pages |-> IF x \in S THEN 0 ELSE mem.ref[x]]
           c2 == [x \in Pages |-> IF x \in S THEN 0 ELSE mem.content[x]]
           m2 == free_pages(mem, S)
<1>1. r2 \in [Pages -> Int] /\ \A x \in Pages : r2[x] = IF x \in S THEN 0 ELSE mem.ref[x]
  BY DEF Memories
<1>2. c2 \in [Pages -> Values] /\ \A x \in Pages : c2[x] = IF x \in S THEN 0 ELSE mem.content[x]
  BY Constants DEF Memories
<1>3. m2 = [mem EXCEPT !.free = @ \cup S, !.ref = r2, !.content = c2] BY DEF free_pages, Memories
<1> HIDE DEF r2, c2, m2
<1>4. /\ m2 \in Memories /\ m2.free = mem.free \cup S /\ m2.mm = mem.mm
      /\ m2.kstack = mem.kstack /\ m2.cr3 = mem.cr3 /\ m2.check = mem.check
      /\ m2.pra = mem.pra /\ m2.swap = mem.swap /\ m2.ref = r2 /\ m2.content = c2
  BY <1>1, <1>2, <1>3 DEF Memories
<1>5. QED BY <1>1, <1>2, <1>4 DEF m2

\* The slots of D go, and their pages to the free list.
Dropped(mem, m2, p, A, D) ==
  LET s == mem.mm[p]
      s2 == m2.mm[p]
      X == {PageAt(s, u) : u \in D}
  IN
  /\ Kept(mem, p, A) /\ D \subseteq Slots(s) /\ <<0, 0>> \notin D
  /\ m2 \in Memories /\ s2.pgdir = s.pgdir
  /\ Slots(s2) = Slots(s) \ D /\ \A u \in Slots(s2) : PageAt(s2, u) = PageAt(s, u)
  /\ m2.free = mem.free \cup X
  /\ \A x \in A : m2.ref[x] = IF x \in X THEN 0 ELSE mem.ref[x]

LEMMA DropSlots ==
  ASSUME NEW mem, NEW m2, NEW p, NEW A, NEW D, Dropped(mem, m2, p, A, D)
  PROVE  Kept(m2, p, A)
<1> DEFINE s == mem.mm[p]
           s2 == m2.mm[p]
           X == {PageAt(s, u) : u \in D}
<1>1. /\ Kept(mem, p, A) /\ D \subseteq Slots(s) /\ <<0, 0>> \notin D
      /\ m2 \in Memories /\ s2.pgdir = s.pgdir
      /\ Slots(s2) = Slots(s) \ D /\ \A u \in Slots(s2) : PageAt(s2, u) = PageAt(s, u)
      /\ m2.free = mem.free \cup X
      /\ \A x \in A : m2.ref[x] = IF x \in X THEN 0 ELSE mem.ref[x]
  BY DEF Dropped
<1> HIDE DEF s, s2
<1>2. A = mem.free \cup Own(s) /\ mem.free \cap Own(s) = {} /\ Injective(s)
      /\ s.pgdir \in Pages /\ A \subseteq Pages
      /\ \A x \in A : mem.ref[x] = IF x \in mem.free \/ x = s.pgdir THEN 0 ELSE 1
  BY <1>1 DEF Kept, s
<1>3. Own(s2) = {PageAt(s, u) : u \in Slots(s) \ D} BY <1>1 DEF Own
<1>4. Own(s) = Own(s2) \cup X BY <1>1, <1>3 DEF Own
<1>5. Own(s2) \cap X = {} BY <1>1, <1>2, <1>3 DEF Injective
<1>6. Injective(s2) BY <1>1, <1>2 DEF Injective
<1>7. s.pgdir \notin X
  <2>1. <<0, 0>> \in Slots(s) /\ PageAt(s, <<0, 0>>) = s.pgdir BY DEF Slots, PageAt
  <2>2. QED BY <1>1, <1>2, <2>1 DEF Injective
<1> HIDE DEF X
<1>8. \A x \in A : m2.ref[x] = IF x \in m2.free \/ x = s2.pgdir THEN 0 ELSE 1
  BY <1>1, <1>2, <1>7
<1>9. A = m2.free \cup Own(s2) /\ m2.free \cap Own(s2) = {} BY <1>1, <1>2, <1>4, <1>5
<1>10. QED BY <1>1, <1>2, <1>6, <1>8, <1>9 DEF Kept, s2

\* The memory with an address space s2 and the pages of S freed.
Replaced(mem, p, S, s2) == [free_pages(mem, S) EXCEPT !.mm[p] = s2]

LEMMA ReplacedIs ==
  ASSUME NEW mem \in Memories, NEW p \in Procs, NEW A \in SUBSET Pages, NEW S \in SUBSET A,
         NEW s2 \in Spaces
  PROVE  LET m2 == Replaced(mem, p, S, s2) IN
         /\ m2 \in Memories /\ m2.free = mem.free \cup S /\ m2.mm[p] = s2
         /\ \A x \in Pages : m2.ref[x] = IF x \in S THEN 0 ELSE mem.ref[x]
         /\ Only(mem, m2, p, A)
<1> DEFINE m1 == free_pages(mem, S)
           mm2 == [m1.mm EXCEPT ![p] = s2]
           m2 == Replaced(mem, p, S, s2)
<1>1. /\ m1 \in Memories /\ m1.free = mem.free \cup S /\ m1.mm = mem.mm
      /\ m1.kstack = mem.kstack /\ m1.cr3 = mem.cr3 /\ m1.check = mem.check
      /\ m1.pra = mem.pra /\ m1.swap = mem.swap
      /\ \A x \in Pages : m1.ref[x] = IF x \in S THEN 0 ELSE mem.ref[x]
      /\ \A x \in Pages : m1.content[x] = IF x \in S THEN 0 ELSE mem.content[x]
  BY FreePagesIs
<1>2. m2 = [m1 EXCEPT !.mm = mm2] BY <1>1 DEF Replaced, Memories
<1> HIDE DEF m1, m2
<1>3. mm2 \in [Procs -> Spaces] /\ mm2[p] = s2 /\ \A q \in Procs \ {p} : mm2[q] = m1.mm[q]
  BY <1>1 DEF Memories
<1> HIDE DEF mm2
<1>4. /\ m2 \in Memories /\ m2.free = m1.free /\ m2.content = m1.content
      /\ m2.ref = m1.ref /\ m2.mm = mm2
      /\ m2.kstack = m1.kstack /\ m2.cr3 = m1.cr3 /\ m2.check = m1.check
      /\ m2.pra = m1.pra /\ m2.swap = m1.swap
  BY <1>1, <1>2, <1>3 DEF Memories
<1>5. Only(mem, m2, p, A) BY <1>1, <1>3, <1>4 DEF Only
<1>6. QED BY <1>1, <1>3, <1>4, <1>5 DEF m2

\* unmap frees the user's pages and leaves the tables.
Cleared(mem, m2, p, A, R) ==
  /\ Kept(m2, p, A) /\ Only(mem, m2, p, A) /\ Shape(m2.mm[p], R)
  /\ m2.mm[p].pgdir = mem.mm[p].pgdir
  /\ DOMAIN m2.mm[p].pte = {}

LEMMA UnmapIs ==
  ASSUME NEW mem, NEW p \in Procs, NEW A, Kept(mem, p, A),
         Shape(mem.mm[p], PagesOf(mem.mm[p].vmas))
  PROVE  Cleared(mem, unmap(mem, p), p, A, PagesOf(mem.mm[p].vmas))
<1> DEFINE s == mem.mm[p]
           R == PagesOf(s.vmas)
           P == DOMAIN s.pte
           uses(x) == {la \in P : s.pte[la].at = x}
           left == [x \in Pages |-> mem.ref[x] - Cardinality(uses(x))]
           unused == {x \in Pages : uses(x) # {} /\ left[x] = 0}
           X == {s.pte[la].at : la \in P}
           m1 == [mem EXCEPT !.ref = left]
           s2 == [s EXCEPT !.pte = Without(@, P)]
           m2 == Replaced(m1, p, X, s2)
           D == {<<3, la>> : la \in P}
<1>1. mem \in Memories /\ s \in Spaces /\ A \in SUBSET Pages BY DEF Kept, Memories
<1>2. Shape(s, R) /\ \A la \in P : la \in R /\ s.pte[la].v BY DEF Shape
<1>3. unmap(mem, p) = [free_pages(m1, unused) EXCEPT !.mm[p].pte = Without(@, P)]
  <2> DEFINE valid == {la \in R : IsValid(mem, p, la)}
  <2>1. valid = P BY <1>2 DEF IsValid
  <2> HIDE DEF valid
  <2>2. unmap(mem, p) =
          [free_pages([mem EXCEPT
                         !.ref = [x \in Pages |->
                                    mem.ref[x] - Cardinality({la \in valid : s.pte[la].at = x})]],
                      {x \in Pages : /\ {la \in valid : s.pte[la].at = x} # {}
                                     /\ [y \in Pages |->
                                           mem.ref[y]
                                              - Cardinality({la \in valid : s.pte[la].at = y})]
                                             [x] = 0})
             EXCEPT !.mm[p].pte = Without(@, valid)]
    BY DEF unmap, page_remove_pte, valid
  <2>3. QED BY <2>1, <2>2
<1>4. \A la \in P : <<3, la>> \in Slots(s) /\ PageAt(s, <<3, la>>) = s.pte[la].at
  BY DEF Slots, PageAt
<1>5. \A la \in P : /\ s.pte[la].at \in A /\ s.pte[la].at \notin mem.free
                    /\ s.pte[la].at # s.pgdir /\ mem.ref[s.pte[la].at] = 1
                    /\ uses(s.pte[la].at) = {la}
  <2>1. SUFFICES ASSUME NEW la \in P
                 PROVE  /\ s.pte[la].at \in A /\ s.pte[la].at \notin mem.free
                        /\ s.pte[la].at # s.pgdir /\ mem.ref[s.pte[la].at] = 1
                        /\ uses(s.pte[la].at) = {la}
    OBVIOUS
  <2>2. s.pte[la].at \in Own(s) BY <1>4 DEF Own
  <2>3. <<0, 0>> \in Slots(s) /\ PageAt(s, <<0, 0>>) = s.pgdir BY DEF Slots, PageAt
  <2>4. Injective(s) BY DEF Kept
  <2>5. s.pte[la].at # s.pgdir
    <3>1. <<3, la>> # <<0, 0>> OBVIOUS
    <3>2. PageAt(s, <<3, la>>) # PageAt(s, <<0, 0>>) BY <1>4, <2>3, <2>4, <3>1 DEF Injective
    <3>3. QED BY <1>4, <2>3, <3>2
  <2>6. \A b \in P : s.pte[b].at = s.pte[la].at => b = la BY <1>4, <2>4 DEF Injective
  <2>7. s.pte[la].at \in A /\ s.pte[la].at \notin mem.free BY <2>2 DEF Kept
  <2>8. QED BY <2>5, <2>6, <2>7 DEF Kept
<1>6. X \subseteq A BY <1>5
<1>7. left \in [Pages -> Int]
      /\ \A x \in Pages : left[x] = IF x \in X THEN 0 ELSE mem.ref[x]
  <2>1. \A x \in X : uses(x) # {} /\ left[x] = 0
    <3>1. SUFFICES ASSUME NEW la \in P PROVE uses(s.pte[la].at) # {} /\ left[s.pte[la].at] = 0
      OBVIOUS
    <3>2. Cardinality({la}) = 1 BY FS_Singleton
    <3>3. QED BY <1>1, <1>5, <3>2
  <2>2. \A x \in Pages \ X : uses(x) = {} OBVIOUS
  <2>3. \A x \in Pages \ X : left[x] = mem.ref[x]
    <3>1. Cardinality({}) = 0 BY FS_EmptySet
    <3>2. \A x \in Pages : mem.ref[x] \in Int BY <1>1 DEF Memories
    <3>3. \A x \in Pages \ X : left[x] = mem.ref[x] - Cardinality({}) BY <2>2
    <3>4. QED BY <3>1, <3>2, <3>3
  <2>4. \A x \in Pages : left[x] \in Int
    <3>1. \A x \in Pages : mem.ref[x] \in Int BY <1>1 DEF Memories
    <3> HIDE DEF X, left
    <3>2. \A x \in Pages : x \in X \/ x \in Pages \ X OBVIOUS
    <3>3. \A x \in X : left[x] = 0 BY <2>1
    <3>4. QED BY <2>3, <3>1, <3>2, <3>3
  <2>5. left = [x \in Pages |-> left[x]] OBVIOUS
  <2> HIDE DEF left
  <2>6. QED BY <2>1, <2>3, <2>4, <2>5
<1>8. unused = X
  <2>1. X \subseteq unused
    <3>1. SUFFICES ASSUME NEW la \in P PROVE s.pte[la].at \in unused OBVIOUS
    <3>2. uses(s.pte[la].at) # {} BY <1>5
    <3>3. QED BY <1>1, <1>5, <1>7, <3>2
  <2>2. unused \subseteq X OBVIOUS
  <2>3. QED BY <2>1, <2>2
<1> HIDE DEF left, unused, X
<1>9. /\ m1 \in Memories /\ m1.free = mem.free /\ m1.mm = mem.mm /\ m1.ref = left
      /\ m1.content = mem.content /\ m1.kstack = mem.kstack /\ m1.cr3 = mem.cr3
      /\ m1.check = mem.check /\ m1.pra = mem.pra /\ m1.swap = mem.swap
  BY <1>1, <1>7 DEF Memories
<1>10. s2 \in Spaces /\ s2.pgdir = s.pgdir /\ s2.vmas = s.vmas /\ s2.pde1 = s.pde1
       /\ s2.pde0 = s.pde0 /\ DOMAIN s2.pte = {}
  <2>1. DOMAIN Without(s.pte, P) = {} /\ Without(s.pte, P) \in Maps(Entries)
    <3>1. s.pte \in Maps(Entries) BY <1>1 DEF Spaces
    <3>2. DOMAIN Without(s.pte, P) = P \ P BY WithoutIs
    <3>3. QED BY <3>1, <3>2, WithoutIs
  <2> DEFINE w == Without(s.pte, P)
  <2> HIDE DEF w
  <2>2. s2 = [s EXCEPT !.pte = w] BY <1>1 DEF Spaces, w
  <2>3. w \in Maps(Entries) /\ DOMAIN w = {} BY <2>1 DEF w
  <2> HIDE DEF s2
  <2>4. QED BY <1>1, <2>2, <2>3 DEF Spaces
<1>11. unmap(mem, p) = m2
  <2>1. free_pages(m1, X).mm[p] = s
    <3>1. X \in SUBSET Pages BY <1>1, <1>6
    <3> HIDE DEF m1
    <3>2. free_pages(m1, X).mm = m1.mm BY <1>9, <3>1, FreePagesIs
    <3>3. QED BY <1>9, <3>2
  <2> DEFINE fm == free_pages(m1, X)
  <2> HIDE DEF m1, fm
  <2>2. unmap(mem, p) = [fm EXCEPT !.mm[p].pte = Without(@, P)] BY <1>3, <1>8 DEF m1, fm
  <2>3. fm.mm[p] = s BY <2>1 DEF fm
  <2>4. unmap(mem, p) = [fm EXCEPT !.mm[p] = s2] BY <2>2, <2>3
  <2>5. QED BY <2>4 DEF Replaced, m1, fm
<1> HIDE DEF m1, s2
<1>12. /\ m2 \in Memories /\ m2.free = m1.free \cup X /\ m2.mm[p] = s2
       /\ \A x \in Pages : m2.ref[x] = IF x \in X THEN 0 ELSE m1.ref[x]
       /\ Only(m1, m2, p, A)
  BY <1>1, <1>6, <1>9, <1>10, ReplacedIs
<1> HIDE DEF m2
<1>13. Only(mem, m1, p, A)
  <2>1. \A x \in Pages \ A : m1.ref[x] = mem.ref[x] BY <1>6, <1>7, <1>9
  <2>2. QED BY <1>9, <2>1 DEF Only
<1>14. Dropped(mem, m2, p, A, D)
  <2>1. X = {PageAt(s, u) : u \in D} BY <1>4 DEF X
  <2>2. D \subseteq Slots(s) /\ <<0, 0>> \notin D BY <1>4
  <2>3. Slots(s2) = Slots(s) \ D BY <1>10 DEF Slots
  <2>4. \A u \in Slots(s2) : PageAt(s2, u) = PageAt(s, u)
    BY <1>10 DEF Slots, PageAt
  <2>5. \A x \in A : m2.ref[x] = IF x \in X THEN 0 ELSE mem.ref[x]
    BY <1>1, <1>7, <1>9, <1>12
  <2> HIDE DEF D, s
  <2>6. QED BY <1>9, <1>10, <1>12, <2>1, <2>2, <2>3, <2>4, <2>5 DEF Dropped, s
<1>15. Kept(m2, p, A) BY <1>14, DropSlots
<1>16. Only(mem, m2, p, A) BY <1>12, <1>13, OnlyTrans
<1>17. Shape(s2, R) BY <1>2, <1>10 DEF Shape
<1>18. Cleared(mem, m2, p, A, R) BY <1>10, <1>12, <1>15, <1>16, <1>17 DEF Cleared
<1>19. QED BY <1>11, <1>18

\* The tables of a region are those of its pages.
LEMMA QuotientGrows ==
  ASSUME NEW a \in Nat, NEW c \in Nat, a <= c, NEW b \in Nat, b >= 1
  PROVE  a \div b <= c \div b
<1> DEFINE q == a \div b
           r == c \div b
<1>1. q \in Nat /\ b * q <= a BY Quotient
<1>2. r \in Nat /\ c < b * (r + 1) BY Quotient
<1> HIDE DEF q, r
<1>3. b * q < b * (r + 1) BY <1>1, <1>2
<1>4. q < r + 1 BY <1>1, <1>2, <1>3
<1>5. q <= r BY <1>1, <1>2, <1>4
<1>6. QED BY <1>5 DEF q, r

LEMMA TablesAre ==
  ASSUME NEW vma, vma.start \in Nat, vma.end \in Nat, vma.start < vma.end
  PROVE  TablesOf(vma) = {la \div PTSIZE : la \in SegPages(vma)}
<1> DEFINE a == vma.start
           c == vma.end - 1
           b == PTSIZE
<1>1. a \in Nat /\ c \in Nat /\ a <= c /\ b \in Nat /\ b >= 1 BY Constants
<1> HIDE DEF a, c, b
<1>2. ASSUME NEW la \in a .. c PROVE la \div b \in a \div b .. c \div b
  <2>1. la \in Nat /\ a <= la /\ la <= c BY <1>1
  <2>2. a \div b <= la \div b /\ la \div b <= c \div b BY <1>1, <2>1, QuotientGrows
  <2>3. a \div b \in Nat /\ la \div b \in Nat /\ c \div b \in Nat BY <1>1, <2>1, Quotient
  <2>4. QED BY <2>2, <2>3
<1>3. ASSUME NEW t \in a \div b .. c \div b PROVE \E la \in a .. c : t = la \div b
  <2> DEFINE q == a \div b
             r == c \div b
  <2>1. q \in Nat /\ b * q <= a /\ a < b * (q + 1) BY <1>1, Quotient
  <2>2. r \in Nat /\ b * r <= c BY <1>1, Quotient
  <2>3. CASE t = q BY <1>1, <2>3
  <2>4. CASE t # q
    <3> HIDE DEF q, r
    <3>0. t \in q .. r BY DEF q, r
    <3>1. t \in Nat /\ q + 1 <= t /\ t <= r BY <2>1, <2>2, <2>4, <3>0
    <3>2. b * (q + 1) <= b * t /\ b * t <= b * r BY <1>1, <2>1, <2>2, <3>1
    <3>3. b * t \in Nat /\ a <= b * t /\ b * t <= c BY <1>1, <2>1, <2>2, <3>1, <3>2
    <3>4. b * t < b * (t + 1) BY <1>1, <3>1
    <3>5. (b * t) \div b = t BY <1>1, <3>1, <3>3, <3>4, QuotientIs
    <3> DEFINE w == b * t
    <3>6. w \in a .. c /\ t = w \div b BY <1>1, <3>3, <3>5
    <3> HIDE DEF w
    <3>7. QED BY <3>6
  <2>5. QED BY <2>3, <2>4
<1>4. QED BY <1>2, <1>3 DEF TablesOf, SegPages, a, b, c

\* Pages of the same directory lie in one table.
OneTable(R) ==
  /\ R \subseteq Nat
  /\ \A a, b \in R : a \div PDSIZE = b \div PDSIZE => a \div PTSIZE = b \div PTSIZE

\* exit_range frees the tables of the range and the directories they were in.
Exited(m0, mem, m2, p, A, R, vma) ==
  /\ Cleared(m0, m2, p, A, R)
  /\ DOMAIN m2.mm[p].pde0 = DOMAIN mem.mm[p].pde0 \ TablesOf(vma)

LEMMA ExitRangeIs ==
  ASSUME NEW m0, NEW mem, NEW p \in Procs, NEW A, NEW R, OneTable(R), Cleared(m0, mem, p, A, R),
         NEW vma, vma.start \in Nat, vma.end \in Nat, vma.start < vma.end,
         SegPages(vma) \subseteq R
  PROVE  Exited(m0, mem, exit_range(mem, p, vma), p, A, R, vma)
<1> DEFINE s == mem.mm[p]
           T == TablesOf(vma)
           there == {t \in T \cap DOMAIN s.pde0 : DirOf(t) \in DOMAIN s.pde1}
           freed == {t \in there : \A la \in DOMAIN s.pte : s.pte[la].v => la \div PTSIZE # t}
           gone  == {d \in DOMAIN s.pde1 : /\ \E t \in T : DirOf(t) = d
                                           /\ \A t \in T : DirOf(t) = d => t \in DOMAIN s.pde0}
           below == {t \in DOMAIN s.pde0 : DirOf(t) \in gone}
           X == {s.pde0[t] : t \in freed} \cup {s.pde1[d] : d \in gone}
           D == {<<2, t>> : t \in freed} \cup {<<1, d>> : d \in gone}
           s2 == [s EXCEPT !.pde0 = Without(@, freed \cup below), !.pde1 = Without(@, gone)]
           m2 == Replaced(mem, p, X, s2)
<1>1. mem \in Memories /\ s \in Spaces /\ A \in SUBSET Pages /\ Kept(mem, p, A) /\ Shape(s, R)
      /\ DOMAIN s.pte = {}
  BY DEF Cleared, Kept, Memories
<1>2. freed = T \cap DOMAIN s.pde0 BY <1>1 DEF Shape
<1>3. \A t, u \in T \cup DOMAIN s.pde0 : DirOf(t) = DirOf(u) => t = u
  <2>1. T = {la \div PTSIZE : la \in SegPages(vma)} BY TablesAre
  <2> HIDE DEF T
  <2>2. \A t \in T \cup DOMAIN s.pde0 : \E la \in R : t = la \div PTSIZE BY <1>1, <2>1 DEF Shape
  <2>3. SUFFICES ASSUME NEW t \in T \cup DOMAIN s.pde0, NEW u \in T \cup DOMAIN s.pde0,
                        DirOf(t) = DirOf(u)
                 PROVE  t = u
    OBVIOUS
  <2>4. PICK la \in R : t = la \div PTSIZE BY <2>2
  <2>5. PICK lb \in R : u = lb \div PTSIZE BY <2>2
  <2>6. la \in Nat /\ lb \in Nat BY DEF OneTable
  <2>7. la \div PDSIZE = lb \div PDSIZE BY <2>3, <2>4, <2>5, <2>6, Division
  <2>8. QED BY <2>4, <2>5, <2>7 DEF OneTable
<1> HIDE DEF T
<1>4. gone = {DirOf(t) : t \in freed}
  <2>1. gone \subseteq {DirOf(t) : t \in freed} BY <1>2
  <2>2. ASSUME NEW t \in freed PROVE DirOf(t) \in gone
    <3>1. t \in T /\ t \in DOMAIN s.pde0 /\ DirOf(t) \in DOMAIN s.pde1 BY <1>1, <1>2 DEF Shape
    <3>2. \A u \in T : DirOf(u) = DirOf(t) => u \in DOMAIN s.pde0 BY <1>3, <3>1
    <3>3. QED BY <3>1, <3>2
  <2>3. QED BY <2>1, <2>2
<1>5. below = freed
  <2> HIDE DEF gone, freed
  <2>1. QED BY <1>1, <1>2, <1>3, <1>4 DEF Shape
<1>6. gone \subseteq DOMAIN s.pde1 /\ freed \subseteq DOMAIN s.pde0 OBVIOUS
<1>7. exit_range(mem, p, vma) = m2
  <2> DEFINE fm == free_pages(mem, X)
  <2>1. X \in SUBSET Pages
    <3>1. s.pde1 \in Maps(Pages) /\ s.pde0 \in Maps(Pages) BY <1>1 DEF Spaces
    <3> HIDE DEF s, gone, freed
    <3>2. QED BY <1>6, <3>1, MapsIs
  <2>2. fm.mm = mem.mm /\ fm \in Memories
    <3> HIDE DEF X
    <3>1. QED BY <1>1, <2>1, FreePagesIs
  <2>3. exit_range(mem, p, vma)
        = [fm EXCEPT !.mm[p].pde0 = Without(@, freed \cup below), !.mm[p].pde1 = Without(@, gone)]
    BY DEF exit_range, T
  <2> HIDE DEF fm, freed, below, gone
  <2>4. fm.mm[p] = s BY <2>2
  <2>5. exit_range(mem, p, vma) = [fm EXCEPT !.mm[p] = s2]
    BY <1>1, <2>2, <2>3, <2>4 DEF Memories, Spaces
  <2>6. QED BY <2>5 DEF Replaced, fm
<1> HIDE DEF gone, freed, below
<1>8. /\ s2 \in Spaces /\ s2.pgdir = s.pgdir /\ s2.vmas = s.vmas /\ s2.pte = s.pte
      /\ DOMAIN s2.pde0 = DOMAIN s.pde0 \ freed /\ DOMAIN s2.pde1 = DOMAIN s.pde1 \ gone
      /\ \A t \in DOMAIN s2.pde0 : s2.pde0[t] = s.pde0[t]
      /\ \A d \in DOMAIN s2.pde1 : s2.pde1[d] = s.pde1[d]
  <2> DEFINE w0 == Without(s.pde0, freed \cup below)
             w1 == Without(s.pde1, gone)
  <2>1. s.pde1 \in Maps(Pages) /\ s.pde0 \in Maps(Pages) BY <1>1 DEF Spaces
  <2>2. w0 \in Maps(Pages) /\ DOMAIN w0 = DOMAIN s.pde0 \ freed
        /\ \A t \in DOMAIN w0 : w0[t] = s.pde0[t]
    <3>1. DOMAIN w0 = DOMAIN s.pde0 \ (freed \cup below) BY WithoutIs
    <3>2. \A t \in DOMAIN s.pde0 \ (freed \cup below) : w0[t] = s.pde0[t] BY WithoutIs
    <3>3. w0 \in Maps(Pages) BY <2>1, WithoutIs
    <3> HIDE DEF w0
    <3>4. QED BY <1>5, <3>1, <3>2, <3>3
  <2>3. w1 \in Maps(Pages) /\ DOMAIN w1 = DOMAIN s.pde1 \ gone
        /\ \A t \in DOMAIN w1 : w1[t] = s.pde1[t]
    <3>1. DOMAIN w1 = DOMAIN s.pde1 \ gone BY WithoutIs
    <3>2. \A t \in DOMAIN s.pde1 \ gone : w1[t] = s.pde1[t] BY WithoutIs
    <3>3. w1 \in Maps(Pages) BY <2>1, WithoutIs
    <3> HIDE DEF w1
    <3>4. QED BY <3>1, <3>2, <3>3
  <2>4. s2 = [s EXCEPT !.pde0 = w0, !.pde1 = w1] BY <1>1 DEF Spaces
  <2> HIDE DEF w0, w1, s2
  <2>5. QED BY <1>1, <2>2, <2>3, <2>4 DEF Spaces
<1>9. D \subseteq Slots(s) /\ <<0, 0>> \notin D /\ X = {PageAt(s, u) : u \in D}
  <2>1. \A t \in freed : <<2, t>> \in Slots(s) /\ PageAt(s, <<2, t>>) = s.pde0[t]
    BY <1>6 DEF Slots, PageAt
  <2>2. \A d \in gone : <<1, d>> \in Slots(s) /\ PageAt(s, <<1, d>>) = s.pde1[d]
    BY <1>6 DEF Slots, PageAt
  <2>3. <<0, 0>> \notin D OBVIOUS
  <2>4. D \subseteq Slots(s) BY <2>1, <2>2
  <2>5. X \subseteq {PageAt(s, u) : u \in D}
    <3>1. \A t \in freed : <<2, t>> \in D OBVIOUS
    <3>2. \A d \in gone : <<1, d>> \in D OBVIOUS
    <3> HIDE DEF D
    <3>3. QED BY <2>1, <2>2, <3>1, <3>2
  <2>6. {PageAt(s, u) : u \in D} \subseteq X
    <3>1. ASSUME NEW u \in D PROVE PageAt(s, u) \in X
      <4>1. CASE \E t \in freed : u = <<2, t>> BY <2>1, <4>1
      <4>2. CASE \E d \in gone : u = <<1, d>> BY <2>2, <4>2
      <4>3. QED BY <3>1, <4>1, <4>2
    <3>2. QED BY <3>1
  <2>7. QED BY <2>3, <2>4, <2>5, <2>6
<1>10. X \in SUBSET A
  <2>1. \A u \in Slots(s) : PageAt(s, u) \in A BY <1>1 DEF Kept, Own
  <2> HIDE DEF X, D
  <2>2. QED BY <1>9, <2>1
<1>11. Slots(s2) = Slots(s) \ D /\ \A u \in Slots(s2) : PageAt(s2, u) = PageAt(s, u)
  <2> HIDE DEF s2, s
  <2>1. QED BY <1>8 DEF Slots, PageAt
<1> HIDE DEF X, s2, D
<1>12. /\ m2 \in Memories /\ m2.free = mem.free \cup X /\ m2.mm[p] = s2
       /\ \A x \in Pages : m2.ref[x] = IF x \in X THEN 0 ELSE mem.ref[x]
       /\ Only(mem, m2, p, A)
  BY <1>1, <1>8, <1>10, ReplacedIs
<1> HIDE DEF m2
<1>13. Kept(m2, p, A)
  <2>1. \A x \in A : m2.ref[x] = IF x \in X THEN 0 ELSE mem.ref[x] BY <1>1, <1>12
  <2>2. Dropped(mem, m2, p, A, D) BY <1>1, <1>8, <1>9, <1>11, <1>12, <2>1 DEF Dropped
  <2>3. QED BY <2>2, DropSlots
<1>14. Shape(s2, R)
  <2>1. \A t \in DOMAIN s2.pde0 : DirOf(t) \in DOMAIN s2.pde1 /\ \E la \in R : t = la \div PTSIZE
    BY <1>1, <1>5, <1>8 DEF Shape, below
  <2>2. \A d \in DOMAIN s2.pde1 : \E t \in DOMAIN s2.pde0 : d = DirOf(t)
    BY <1>1, <1>4, <1>8 DEF Shape
  <2>3. QED BY <1>1, <1>8, <2>1, <2>2 DEF Shape
<1>15. Cleared(m0, m2, p, A, R)
  <2>1. Only(m0, m2, p, A) BY <1>12, OnlyTrans DEF Cleared
  <2>2. QED BY <1>1, <1>8, <1>12, <1>13, <1>14, <2>1 DEF Cleared
<1>16. DOMAIN s2.pde0 = DOMAIN s.pde0 \ T BY <1>2, <1>8
<1>17. Exited(m0, mem, m2, p, A, R, vma) BY <1>12, <1>15, <1>16 DEF T, Exited
<1>18. QED BY <1>7, <1>17

\* A new address space, and none.
LEMMA NewMmIs ==
  ASSUME NEW x \in Pages \cup {None}
  PROVE  /\ NewMm(x) \in Spaces /\ NewMm(x).pgdir = x /\ NewMm(x).vmas = <<>>
         /\ NewMm(x).pde1 = Empty /\ NewMm(x).pde0 = Empty /\ NewMm(x).pte = Empty
         /\ Slots(NewMm(x)) = {<<0, 0>>}
         /\ Own(NewMm(x)) = {x} /\ Injective(NewMm(x))
         /\ \A R : Shape(NewMm(x), R)
         /\ Regions(NewMm(x).vmas)
<1> DEFINE s == NewMm(x)
<1>1. Empty \in Maps(Pages) /\ Empty \in Maps(Entries) /\ DOMAIN Empty = {} BY EmptyIs
<1>2. s.pgdir = x /\ s.vmas = <<>> /\ s.pde1 = Empty /\ s.pde0 = Empty /\ s.pte = Empty
  BY DEF NewMm
<1>3. s \in Spaces BY <1>1 DEF NewMm, Spaces
<1> HIDE DEF s
<1>4. Slots(s) = {<<0, 0>>} /\ PageAt(s, <<0, 0>>) = x BY <1>1, <1>2 DEF Slots, PageAt
<1>5. Own(s) = {x} /\ Injective(s) BY <1>4 DEF Own, Injective
<1>6. \A R : Shape(s, R) BY <1>1, <1>2 DEF Shape
<1>7. Regions(s.vmas)
  <2>1. <<>> \in Seq(Vmas) /\ Len(<<>>) = 0 /\ DOMAIN <<>> = {} OBVIOUS
  <2>2. PagesOf(<<>>) = {} BY <2>1 DEF PagesOf
  <2>3. \A i : i \notin 1 .. 0 OBVIOUS
  <2>4. QED BY <1>2, <2>1, <2>2, <2>3 DEF Regions
<1>8. QED BY <1>2, <1>3, <1>4, <1>5, <1>6, <1>7 DEF s

Released(mem, m2, p, A) ==
  /\ m2 \in Memories /\ m2.mm[p] = NoMm /\ m2.free = A
  /\ \A x \in A : m2.ref[x] = 0
  /\ Only(mem, m2, p, A)

LEMMA ReleaseIs ==
  ASSUME NEW mem, NEW p \in Procs, NEW A, Kept(mem, p, A), Regions(mem.mm[p].vmas),
         Shape(mem.mm[p], PagesOf(mem.mm[p].vmas))
  PROVE  Released(mem, release_mm(mem, p), p, A)
<1> DEFINE s == mem.mm[p]
           vmas == s.vmas
           n == Len(vmas)
           R == PagesOf(vmas)
           b == unmap(mem, p)
           f == CHOOSE g : ExitLoop(g, b, n, p, vmas)
           Good(k) == /\ Cleared(mem, f[k], p, A, R)
                      /\ \A i \in 1 .. k : DOMAIN f[k].mm[p].pde0 \cap TablesOf(vmas[i]) = {}
           S == {k \in Nat : k <= n => Good(k)}
           m2 == Replaced(f[n], p, {s.pgdir}, NoMm)
<1>1. /\ n \in Nat /\ R = RegionPages(vmas, n)
      /\ \A i \in 1 .. n : /\ vmas[i].start \in Nat /\ vmas[i].end \in Nat
                           /\ vmas[i].start < vmas[i].end
      /\ OneTable(R)
  <2> HIDE DEF vmas
  <2>1. Regions(vmas) BY DEF vmas
  <2>2. QED BY <2>1, RegionsAre, Constants DEF Regions, OneTable
<1>2. mem \in Memories /\ s.pgdir \in Pages BY DEF Kept
<1>3. s # NoMm BY <1>2, NewMmIs, Constants DEF NoMm
<1>4. release_mm(mem, p) = [free_page(f[n], s.pgdir) EXCEPT !.mm[p] = NoMm]
  BY <1>3 DEF release_mm, ExitLoop
<1>5. ExitLoop(f, b, n, p, vmas) BY <1>1, ExitExists
<1>6. Cleared(mem, b, p, A, R) BY UnmapIs
<1> HIDE DEF n, f, b, s
<1>7. f[0] = b /\ \A i \in 1 .. n : f[i] = exit_range(f[i - 1], p, vmas[i])
  <2> HIDE DEF vmas
  <2>1. QED BY <1>1, <1>5 DEF ExitLoop
<1> HIDE DEF vmas
<1>8. Good(0) BY <1>6, <1>7
<1>9. ASSUME NEW k \in Nat, k + 1 <= n, Good(k) PROVE Good(k + 1)
  <2> DEFINE vma == vmas[k + 1]
             h == f[k]
             h2 == f[k + 1]
  <2>1. k + 1 \in 1 .. n /\ (k + 1) - 1 = k BY <1>1, <1>9
  <2>2. h2 = exit_range(h, p, vma) BY <1>7, <2>1
  <2>3. SegPages(vma) \subseteq R BY <1>1, <2>1 DEF RegionPages
  <2>4. vma.start \in Nat /\ vma.end \in Nat /\ vma.start < vma.end BY <1>1, <2>1
  <2>5. Cleared(mem, h, p, A, R) BY <1>9
  <2>6. Cleared(mem, h2, p, A, R)
        /\ DOMAIN h2.mm[p].pde0 = DOMAIN h.mm[p].pde0 \ TablesOf(vma)
    <3>1. OneTable(R) BY <1>1
    <3> HIDE DEF h, h2, vma, R
    <3>2. Exited(mem, h, h2, p, A, R, vma) BY <2>2, <2>3, <2>4, <2>5, <3>1, ExitRangeIs
    <3>3. QED BY <3>2 DEF Exited
  <2>7. \A i \in 1 .. k + 1 : i \in 1 .. k \/ i = k + 1 OBVIOUS
  <2>8. \A i \in 1 .. k + 1 : DOMAIN h2.mm[p].pde0 \cap TablesOf(vmas[i]) = {}
    BY <1>9, <2>6, <2>7
  <2>9. QED BY <2>6, <2>8
<1> HIDE DEF Good
<1>10. Nat \subseteq S
  <2>1. 0 \in S BY <1>8
  <2>2. \A k \in Nat : k \in S => k + 1 \in S BY <1>1, <1>9
  <2> HIDE DEF S
  <2>3. QED BY <2>1, <2>2, SetInduction
<1>11. Good(n) BY <1>1, <1>10
<1> DEFINE h == f[n]
           s2 == h.mm[p]
<1>12. /\ Kept(h, p, A) /\ Only(mem, h, p, A) /\ Shape(s2, R) /\ s2.pgdir = s.pgdir
       /\ DOMAIN s2.pte = {}
       /\ \A i \in 1 .. n : DOMAIN s2.pde0 \cap TablesOf(vmas[i]) = {}
  BY <1>11 DEF Good, Cleared, s
<1> HIDE DEF h, R
<1>13. DOMAIN s2.pde0 = {}
  <2>1. SUFFICES ASSUME NEW t \in DOMAIN s2.pde0 PROVE FALSE OBVIOUS
  <2>2. PICK la \in R : t = la \div PTSIZE BY <1>12 DEF Shape
  <2>3. PICK i \in 1 .. n : la \in SegPages(vmas[i]) BY <1>1, <2>2 DEF RegionPages
  <2>4. t \in TablesOf(vmas[i]) BY <1>1, <2>2, <2>3, TablesAre
  <2>5. QED BY <1>12, <2>4
<1>14. DOMAIN s2.pde1 = {} BY <1>12, <1>13 DEF Shape
<1>15. Own(s2) = {s.pgdir}
  <2>1. Slots(s2) = {<<0, 0>>} BY <1>12, <1>13, <1>14 DEF Slots
  <2>2. QED BY <1>12, <2>1 DEF Own, PageAt
<1>16. h \in Memories /\ A \in SUBSET Pages /\ A = h.free \cup {s.pgdir}
       /\ \A x \in A : h.ref[x] = 0
  BY <1>12, <1>15 DEF Kept
<1>17. NoMm \in Spaces BY NewMmIs DEF NoMm
<1>18. release_mm(mem, p) = m2 BY <1>4 DEF Replaced, free_page, h
<1>19. /\ m2 \in Memories /\ m2.free = h.free \cup {s.pgdir} /\ m2.mm[p] = NoMm
       /\ \A x \in Pages : m2.ref[x] = IF x \in {s.pgdir} THEN 0 ELSE h.ref[x]
       /\ Only(h, m2, p, A)
  <2> DEFINE X == {s.pgdir}
  <2>1. X \in SUBSET A BY <1>16
  <2>2. m2 = Replaced(h, p, X, NoMm) /\ h \in Memories /\ A \in SUBSET Pages BY <1>16 DEF h
  <2> HIDE DEF m2, X
  <2> DEFINE e == Replaced(h, p, X, NoMm)
  <2>3. /\ e \in Memories /\ e.free = h.free \cup X /\ e.mm[p] = NoMm
        /\ \A x \in Pages : e.ref[x] = IF x \in X THEN 0 ELSE h.ref[x]
        /\ Only(h, e, p, A)
    BY <1>17, <2>1, <2>2, ReplacedIs
  <2>4. QED BY <2>2, <2>3 DEF X
<1> HIDE DEF m2
<1>20. Only(mem, m2, p, A) BY <1>12, <1>19, OnlyTrans
<1>21. \A x \in A : m2.ref[x] = 0 BY <1>16, <1>19
<1>22. QED BY <1>16, <1>18, <1>19, <1>20, <1>21 DEF Released

-----------------------------------------------------------------------------
(***************************************************************************)
(* Counting pages.                                                         *)
(***************************************************************************)
SlotsFrom(D, T, P) ==
  {<<0, 0>>} \cup {<<1, d>> : d \in D} \cup {<<2, t>> : t \in T} \cup {<<3, la>> : la \in P}

LEMMA TagCount ==
  ASSUME NEW k, NEW D, IsFiniteSet(D)
  PROVE  IsFiniteSet({<<k, d>> : d \in D}) /\ Cardinality({<<k, d>> : d \in D}) = Cardinality(D)
<1> DEFINE S == {<<k, d>> : d \in D}
           f == [d \in D |-> <<k, d>>]
<1>1. f \in [D -> S] /\ \A d \in D : f[d] = <<k, d>> OBVIOUS
<1>2. \A u \in S : \E d \in D : u = <<k, d>> OBVIOUS
<1> HIDE DEF f, S
<1>3. \A c, d \in D : f[c] = f[d] => c = d BY <1>1
<1>4. \A u \in S : \E d \in D : f[d] = u BY <1>1, <1>2
<1>5. f \in Injection(D, S) BY <1>1, <1>3 DEF Injection, IsInjective
<1>6. f \in Surjection(D, S) BY <1>1, <1>4 DEF Surjection
<1>7. ExistsBijection(D, S) BY <1>5, <1>6 DEF ExistsBijection, Bijection
<1>8. QED BY <1>7, FS_Bijection DEF S

LEMMA DisjointCount ==
  ASSUME NEW S, NEW T, IsFiniteSet(S), IsFiniteSet(T), S \cap T = {}
  PROVE  /\ IsFiniteSet(S \cup T)
         /\ Cardinality(S \cup T) = Cardinality(S) + Cardinality(T)
<1>1. Cardinality(S) \in Nat /\ Cardinality(T) \in Nat BY FS_CardinalityType
<1>2. \A X, Y : IsFiniteSet(X) /\ IsFiniteSet(Y) =>
        /\ IsFiniteSet(X \cup Y)
        /\ Cardinality(X \cup Y) = Cardinality(X) + Cardinality(Y) - Cardinality(X \cap Y)
  BY FS_Union
<1>3. IsFiniteSet(S \cup T)
      /\ Cardinality(S \cup T) = Cardinality(S) + Cardinality(T) - Cardinality(S \cap T)
  BY <1>2, Zenon
<1>4. Cardinality(S \cap T) = 0 BY FS_EmptySet
<1>5. QED BY <1>1, <1>3, <1>4

LEMMA SlotCount ==
  ASSUME NEW D, NEW T, NEW P, IsFiniteSet(D), IsFiniteSet(T), IsFiniteSet(P)
  PROVE  /\ IsFiniteSet(SlotsFrom(D, T, P))
         /\ Cardinality(SlotsFrom(D, T, P))
            = 1 + Cardinality(D) + Cardinality(T) + Cardinality(P)
<1> DEFINE D1 == {<<1, d>> : d \in D}
           T1 == {<<2, t>> : t \in T}
           P1 == {<<3, la>> : la \in P}
           U == D1 \cup T1
           V == U \cup P1
<1>1. IsFiniteSet(D1) /\ Cardinality(D1) = Cardinality(D)
      /\ IsFiniteSet(T1) /\ Cardinality(T1) = Cardinality(T)
      /\ IsFiniteSet(P1) /\ Cardinality(P1) = Cardinality(P)
  BY TagCount
<1>2. D1 \cap T1 = {} /\ (D1 \cup T1) \cap P1 = {} /\ <<0, 0>> \notin D1 \cup T1 \cup P1 OBVIOUS
<1>3. SlotsFrom(D, T, P) = D1 \cup T1 \cup P1 \cup {<<0, 0>>} BY DEF SlotsFrom
<1> HIDE DEF D1, T1, P1
<1>4. Cardinality(D) \in Nat /\ Cardinality(T) \in Nat /\ Cardinality(P) \in Nat
  BY FS_CardinalityType
<1>5. IsFiniteSet(U) /\ Cardinality(U) = Cardinality(D) + Cardinality(T)
  BY <1>1, <1>2, DisjointCount
<1>6. U \cap P1 = {} BY <1>2
<1> HIDE DEF U
<1>7. IsFiniteSet(V) /\ Cardinality(V) = Cardinality(D) + Cardinality(T) + Cardinality(P)
  BY <1>1, <1>5, <1>6, DisjointCount
<1>8. SlotsFrom(D, T, P) = V \cup {<<0, 0>>} /\ <<0, 0>> \notin V BY <1>2, <1>3 DEF U
<1> HIDE DEF V
<1>9. IsFiniteSet(V \cup {<<0, 0>>}) /\ Cardinality(V \cup {<<0, 0>>}) = Cardinality(V) + 1
  BY <1>7, <1>8, FS_AddElement
<1>10. QED BY <1>4, <1>7, <1>8, <1>9

\* An address space with one page in each slot: its slots are counted by its pages.
LEMMA SpaceCount ==
  ASSUME NEW s, Injective(s), Own(s) \subseteq Pages
  PROVE  /\ IsFiniteSet(Slots(s)) /\ IsFiniteSet(Own(s))
         /\ Cardinality(Slots(s)) = Cardinality(Own(s))
         /\ Cardinality(Own(s)) = 1 + Cardinality(DOMAIN s.pde1) + Cardinality(DOMAIN s.pde0)
                                    + Cardinality(DOMAIN s.pte)
         /\ IsFiniteSet(DOMAIN s.pde1) /\ IsFiniteSet(DOMAIN s.pde0) /\ IsFiniteSet(DOMAIN s.pte)
<1> DEFINE S == Slots(s)
           f == [u \in S |-> PageAt(s, u)]
           D1 == {<<1, d>> : d \in DOMAIN s.pde1}
           T1 == {<<2, t>> : t \in DOMAIN s.pde0}
           P1 == {<<3, la>> : la \in DOMAIN s.pte}
<1>1. IsFiniteSet(Own(s))
  <2>1. IsFiniteSet(Pages) BY Constants, FS_Interval DEF Pages
  <2>2. QED BY <2>1, FS_Subset
<1>2. f \in [S -> Own(s)] /\ \A u, v \in S : f[u] = f[v] => u = v BY DEF Own, Injective
<1>3. \A x \in Own(s) : \E u \in S : f[u] = x BY DEF Own
<1> HIDE DEF f
<1>4. f \in Injection(S, Own(s)) /\ f \in Surjection(S, Own(s))
  <2> HIDE DEF S
  <2>1. f \in Injection(S, Own(s)) BY <1>2 DEF Injection, IsInjective
  <2>2. f \in Surjection(S, Own(s)) BY <1>2, <1>3 DEF Surjection
  <2>3. QED BY <2>1, <2>2
<1>5. IsFiniteSet(S) /\ Cardinality(S) = Cardinality(Own(s)) BY <1>1, <1>4, FS_Injection
<1>6. \A k, D : {<<k, d>> : d \in D} \subseteq S => IsFiniteSet(D)
  <2>1. SUFFICES ASSUME NEW k, NEW D, {<<k, d>> : d \in D} \subseteq S PROVE IsFiniteSet(D)
    OBVIOUS
  <2> DEFINE E == {<<k, d>> : d \in D}
             g == [u \in E |-> u[2]]
  <2>2. IsFiniteSet(E) BY <1>5, <2>1, FS_Subset
  <2>3. g \in [E -> D] /\ \A d \in D : <<k, d>> \in E /\ g[<<k, d>>] = d OBVIOUS
  <2> HIDE DEF E, g
  <2>4. g \in Surjection(E, D) BY <2>3 DEF Surjection
  <2>5. QED BY <2>2, <2>4, FS_Surjection
<1>7. IsFiniteSet(DOMAIN s.pde1) /\ IsFiniteSet(DOMAIN s.pde0) /\ IsFiniteSet(DOMAIN s.pte)
  <2>1. D1 \subseteq S /\ T1 \subseteq S /\ P1 \subseteq S BY DEF Slots
  <2> HIDE DEF S
  <2>2. QED BY <1>6, <2>1
<1>8. S = SlotsFrom(DOMAIN s.pde1, DOMAIN s.pde0, DOMAIN s.pte) BY DEF Slots, SlotsFrom
<1> HIDE DEF S
<1>9. Cardinality(S) = 1 + Cardinality(DOMAIN s.pde1) + Cardinality(DOMAIN s.pde0)
                         + Cardinality(DOMAIN s.pte)
  BY <1>7, <1>8, SlotCount
<1>10. QED BY <1>1, <1>5, <1>7, <1>9 DEF S

-----------------------------------------------------------------------------
(***************************************************************************)
(* The memory after check_swap.                                            *)
(***************************************************************************)
SpaceOf(mem, p) == IF mem.mm[p] = NoMm THEN {} ELSE Own(mem.mm[p])
StackOf(mem, p) == IF mem.kstack[p] = None THEN {} ELSE Kstack(mem.kstack[p])

GoodSpace(s) ==
  /\ s.pgdir \in Pages /\ Injective(s) /\ Regions(s.vmas) /\ Shape(s, PagesOf(s.vmas))

\* Every page is free or has one owner.
Parts(mem) ==
  /\ \A p, q \in Procs : p # q => SpaceOf(mem, p) \cap SpaceOf(mem, q) = {}
  /\ \A p, q \in Users : p # q => StackOf(mem, p) \cap StackOf(mem, q) = {}
  /\ \A p \in Procs, q \in Users : SpaceOf(mem, p) \cap StackOf(mem, q) = {}
  /\ \A p \in Procs : SpaceOf(mem, p) \subseteq Pages /\ mem.free \cap SpaceOf(mem, p) = {}
  /\ \A p \in Users : StackOf(mem, p) \subseteq Pages /\ mem.free \cap StackOf(mem, p) = {}
  /\ \A x \in Pages : \/ x \in mem.free
                      \/ \E p \in Procs : x \in SpaceOf(mem, p)
                      \/ \E p \in Users : x \in StackOf(mem, p)

Counted(mem) ==
  /\ \A x \in mem.free : mem.ref[x] = 0
  /\ \A p \in Users : \A x \in StackOf(mem, p) : mem.ref[x] = 0
  /\ \A p \in Procs : \A x \in SpaceOf(mem, p) :
       mem.ref[x] = IF x = mem.mm[p].pgdir THEN 0 ELSE 1

Sound(mem) ==
  /\ mem \in Memories /\ ~mem.check /\ mem.pra = <<>> /\ mem.swap = Empty
  /\ mem.mm[Check] = NoMm
  /\ \A p \in Procs : mem.mm[p] = NoMm \/ GoodSpace(mem.mm[p])
  /\ Parts(mem) /\ Counted(mem)

\* A process and the free list have the pages of A.
Settled(mem, p, A) ==
  /\ mem \in Memories /\ A \subseteq Pages
  /\ IF mem.mm[p] = NoMm THEN mem.free = A /\ \A x \in A : mem.ref[x] = 0
                         ELSE Kept(mem, p, A) /\ GoodSpace(mem.mm[p])

LEMMA MineIs ==
  ASSUME NEW mem, Sound(mem), NEW p \in Procs
  PROVE  Settled(mem, p, mem.free \cup SpaceOf(mem, p))
<1> DEFINE A == mem.free \cup SpaceOf(mem, p)
<1>1. mem \in Memories /\ Parts(mem) /\ Counted(mem) /\ (mem.mm[p] = NoMm \/ GoodSpace(mem.mm[p]))
  BY DEF Sound
<1>2. mem.free \subseteq Pages BY <1>1 DEF Memories
<1>3. A \subseteq Pages /\ mem.free \cap SpaceOf(mem, p) = {} BY <1>1, <1>2 DEF Parts
<1>4. CASE mem.mm[p] = NoMm
  <2>1. A = mem.free BY <1>4 DEF SpaceOf
  <2>2. QED BY <1>1, <1>3, <1>4, <2>1 DEF Settled, Counted
<1>5. CASE mem.mm[p] # NoMm
  <2>1. SpaceOf(mem, p) = Own(mem.mm[p]) /\ GoodSpace(mem.mm[p]) BY <1>1, <1>5 DEF SpaceOf
  <2>2. mem.mm[p].pgdir \in Own(mem.mm[p])
    <3>1. <<0, 0>> \in Slots(mem.mm[p]) /\ PageAt(mem.mm[p], <<0, 0>>) = mem.mm[p].pgdir
      BY DEF Slots, PageAt
    <3>2. QED BY <3>1 DEF Own
  <2>3. \A x \in A : mem.ref[x] = IF x \in mem.free \/ x = mem.mm[p].pgdir THEN 0 ELSE 1
    BY <1>1, <1>3, <2>1, <2>2 DEF Counted
  <2>4. Kept(mem, p, A) BY <1>1, <1>3, <2>1, <2>3 DEF Kept, GoodSpace
  <2>5. QED BY <1>1, <1>3, <1>5, <2>1, <2>4 DEF Settled
<1>6. QED BY <1>4, <1>5

\* The pages of A go another way between p and the free list.
LEMMA MovedIs ==
  ASSUME NEW mem, Sound(mem), NEW p \in Users, NEW A, A = mem.free \cup SpaceOf(mem, p),
         NEW m2, Settled(m2, p, A), Only(mem, m2, p, A)
  PROVE  Sound(m2)
<1>1. mem \in Memories /\ Parts(mem) /\ Counted(mem) BY DEF Sound
<1>2. p \in Procs /\ Check \in Procs /\ Check # p BY Constants DEF Procs
<1>3. m2 \in Memories /\ ~m2.check /\ m2.pra = <<>> /\ m2.swap = Empty /\ m2.mm[Check] = NoMm
  BY <1>2 DEF Sound, Settled, Only
<1>4. \A q \in Procs : m2.mm[q] = NoMm \/ GoodSpace(m2.mm[q])
  BY DEF Sound, Settled, Only
<1>5. /\ \A q \in Procs : q # p => SpaceOf(m2, q) = SpaceOf(mem, q) /\ m2.mm[q] = mem.mm[q]
      /\ \A q \in Users : StackOf(m2, q) = StackOf(mem, q)
  BY DEF Only, SpaceOf, StackOf
<1>6. A = m2.free \cup SpaceOf(m2, p) /\ m2.free \cap SpaceOf(m2, p) = {}
  BY DEF Settled, SpaceOf, Kept
<1>7. /\ \A q \in Procs : q # p => SpaceOf(mem, q) \cap A = {}
      /\ \A q \in Users : StackOf(mem, q) \cap A = {}
      /\ A \subseteq Pages
  BY <1>1, <1>2 DEF Parts, Settled
<1>8. Parts(m2)
  <2>1. \A q, r \in Procs : q # r => SpaceOf(m2, q) \cap SpaceOf(m2, r) = {}
    BY <1>1, <1>5, <1>6, <1>7 DEF Parts
  <2>2. \A q, r \in Users : q # r => StackOf(m2, q) \cap StackOf(m2, r) = {}
    BY <1>1, <1>5 DEF Parts
  <2>3. \A q \in Procs, r \in Users : SpaceOf(m2, q) \cap StackOf(m2, r) = {}
    BY <1>1, <1>5, <1>6, <1>7 DEF Parts
  <2>4. \A q \in Procs : SpaceOf(m2, q) \subseteq Pages /\ m2.free \cap SpaceOf(m2, q) = {}
    BY <1>1, <1>5, <1>6, <1>7 DEF Parts
  <2>5. \A q \in Users : StackOf(m2, q) \subseteq Pages /\ m2.free \cap StackOf(m2, q) = {}
    BY <1>1, <1>5, <1>6, <1>7 DEF Parts
  <2>6. ASSUME NEW x \in Pages
        PROVE  \/ x \in m2.free
               \/ \E q \in Procs : x \in SpaceOf(m2, q)
               \/ \E q \in Users : x \in StackOf(m2, q)
    <3>1. CASE x \in A BY <1>2, <1>6, <3>1
    <3>2. CASE x \notin A
      <4>1. (\E q \in Procs : x \in SpaceOf(mem, q)) \/ (\E q \in Users : x \in StackOf(mem, q))
        BY <1>1, <3>2 DEF Parts
      <4>2. \A q \in Procs : x \in SpaceOf(mem, q) => q # p BY <3>2
      <4>3. QED BY <1>5, <4>1, <4>2
    <3>3. QED BY <3>1, <3>2
  <2>7. QED BY <2>1, <2>2, <2>3, <2>4, <2>5, <2>6 DEF Parts
<1>9. Counted(m2)
  <2>1. \A x \in m2.free : m2.ref[x] = 0 BY <1>6 DEF Settled, Kept
  <2>2. \A q \in Users : \A x \in StackOf(m2, q) : m2.ref[x] = 0
    <3>1. \A q \in Users : \A x \in StackOf(mem, q) : x \in Pages \ A BY <1>1, <1>7 DEF Parts
    <3>2. QED BY <1>1, <1>5, <3>1 DEF Counted, Only
  <2>3. ASSUME NEW q \in Procs, q # p, NEW x \in SpaceOf(m2, q)
        PROVE  m2.ref[x] = IF x = m2.mm[q].pgdir THEN 0 ELSE 1
    <3>1. x \in SpaceOf(mem, q) /\ x \in Pages \ A BY <1>1, <1>5, <1>7, <2>3 DEF Parts
    <3>2. m2.ref[x] = mem.ref[x] BY <3>1 DEF Only
    <3>3. QED BY <1>1, <1>5, <2>3, <3>1, <3>2 DEF Counted
  <2>4. \A x \in SpaceOf(m2, p) : m2.ref[x] = IF x = m2.mm[p].pgdir THEN 0 ELSE 1
    BY <1>6 DEF Settled, Kept, SpaceOf
  <2>5. QED BY <2>1, <2>2, <2>3, <2>4 DEF Counted
<1>10. QED BY <1>3, <1>4, <1>8, <1>9 DEF Sound

\* cr3 is in nobody's way.
SetCr3(mem, p, x) == [mem EXCEPT !.cr3[p] = x]

LEMMA Cr3Is ==
  ASSUME NEW mem, Sound(mem), NEW p \in Users, NEW x \in Pages \cup {Boot}
  PROVE  LET m2 == SetCr3(mem, p, x) IN
         /\ Sound(m2) /\ m2.cr3 = [mem.cr3 EXCEPT ![p] = x]
         /\ m2.mm = mem.mm /\ m2.kstack = mem.kstack /\ m2.free = mem.free
         /\ m2.content = mem.content /\ m2.swap = mem.swap
<1> DEFINE c2 == [mem.cr3 EXCEPT ![p] = x]
           m2 == SetCr3(mem, p, x)
<1>1. mem \in Memories BY DEF Sound
<1>2. c2 \in [Users -> Pages \cup {Boot}] BY <1>1 DEF Memories
<1>3. m2 = [mem EXCEPT !.cr3 = c2] BY <1>1 DEF SetCr3, Memories
<1> HIDE DEF c2, m2
<1>4. /\ m2 \in Memories /\ m2.free = mem.free /\ m2.ref = mem.ref /\ m2.mm = mem.mm
      /\ m2.kstack = mem.kstack /\ m2.check = mem.check /\ m2.pra = mem.pra
      /\ m2.swap = mem.swap /\ m2.content = mem.content /\ m2.cr3 = c2
  BY <1>1, <1>2, <1>3 DEF Memories
<1>5. Sound(m2)
  <2>1. \A q : SpaceOf(m2, q) = SpaceOf(mem, q) /\ StackOf(m2, q) = StackOf(mem, q)
    BY <1>4 DEF SpaceOf, StackOf
  <2>2. Parts(m2) BY <1>4, <2>1 DEF Sound, Parts
  <2>3. Counted(m2) BY <1>4, <2>1 DEF Sound, Counted
  <2>4. QED BY <1>4, <2>2, <2>3 DEF Sound
<1>6. QED BY <1>4, <1>5 DEF m2, c2

\* What the other processes see stays as it is.
LEMMA OthersSee ==
  ASSUME NEW mem, Sound(mem), NEW p \in Users, NEW m2,
         Only(mem, m2, p, mem.free \cup SpaceOf(mem, p))
  PROVE  \A q \in Procs \ {p} : Seen(m2, q) = Seen(mem, q)
<1> DEFINE A == mem.free \cup SpaceOf(mem, p)
<1>1. SUFFICES ASSUME NEW q \in Procs \ {p} PROVE Seen(m2, q) = Seen(mem, q)
  OBVIOUS
<1>2. m2.mm[q] = mem.mm[q] /\ m2.swap = mem.swap BY DEF Only
<1>3. \A la \in DOMAIN mem.mm[q].pte :
        m2.content[mem.mm[q].pte[la].at] = mem.content[mem.mm[q].pte[la].at]
  <2>1. SUFFICES ASSUME NEW la \in DOMAIN mem.mm[q].pte
                 PROVE  m2.content[mem.mm[q].pte[la].at] = mem.content[mem.mm[q].pte[la].at]
    OBVIOUS
  <2>2. mem.mm[q] # NoMm
    <3>1. DOMAIN NoMm.pte = {} BY NewMmIs, EmptyIs DEF NoMm
    <3>2. QED BY <2>1, <3>1
  <2>3. <<3, la>> \in Slots(mem.mm[q]) /\ PageAt(mem.mm[q], <<3, la>>) = mem.mm[q].pte[la].at
    BY DEF Slots, PageAt
  <2>4. mem.mm[q].pte[la].at \in SpaceOf(mem, q) BY <2>2, <2>3 DEF SpaceOf, Own
  <2>5. Parts(mem) /\ p \in Procs BY DEF Sound, Procs
  <2>6. mem.mm[q].pte[la].at \in Pages \ A BY <2>4, <2>5 DEF Parts
  <2>7. QED BY <2>6 DEF Only
<1>4. QED BY <1>2, <1>3 DEF Seen

\* A kernel stack of two pages is taken, and given back.
WithKstack(mem, c, x) == [mem EXCEPT !.free = @ \ Kstack(x), !.kstack[c] = x, !.cr3[c] = Boot]
Reaped(mem, c) ==
  [free_pages(mem, Kstack(mem.kstack[c])) EXCEPT !.kstack[c] = None, !.cr3[c] = Boot]

LEMMA WithKstackIs ==
  ASSUME NEW mem, Sound(mem), NEW c \in Users, mem.kstack[c] = None, NEW x \in KstackPlaces(mem)
  PROVE  LET m2 == WithKstack(mem, c, x) IN
         /\ Sound(m2) /\ m2.mm = mem.mm /\ m2.free = mem.free \ Kstack(x)
         /\ m2.kstack = [mem.kstack EXCEPT ![c] = x] /\ m2.cr3 = [mem.cr3 EXCEPT ![c] = Boot]
         /\ m2.content = mem.content /\ m2.swap = mem.swap
<1> DEFINE k2 == [mem.kstack EXCEPT ![c] = x]
           c2 == [mem.cr3 EXCEPT ![c] = Boot]
           m2 == WithKstack(mem, c, x)
<1>1. mem \in Memories /\ Parts(mem) /\ Counted(mem) BY DEF Sound
<1>2. x \in mem.free /\ x + 1 \in mem.free /\ mem.free \subseteq Pages
  BY <1>1 DEF KstackPlaces, Memories
<1>3. c2 \in [Users -> Pages \cup {Boot}] BY <1>1 DEF Memories
<1>4. k2 \in [Users -> Pages \cup {None}] /\ k2[c] = x
      /\ \A q \in Users : q # c => k2[q] = mem.kstack[q]
  BY <1>1, <1>2 DEF Memories
<1>5. m2 = [mem EXCEPT !.free = @ \ Kstack(x), !.kstack = k2, !.cr3 = c2]
  BY <1>1 DEF WithKstack, Memories
<1> HIDE DEF c2, k2, m2
<1>6. /\ m2 \in Memories /\ m2.free = mem.free \ Kstack(x) /\ m2.ref = mem.ref /\ m2.mm = mem.mm
      /\ m2.kstack = k2 /\ m2.check = mem.check /\ m2.pra = mem.pra
      /\ m2.swap = mem.swap /\ m2.content = mem.content /\ m2.cr3 = c2
  BY <1>1, <1>3, <1>4, <1>5 DEF Memories
<1>7. /\ \A q \in Procs : SpaceOf(m2, q) = SpaceOf(mem, q)
      /\ \A q \in Users : q # c => StackOf(m2, q) = StackOf(mem, q)
      /\ StackOf(m2, c) = Kstack(x) /\ StackOf(mem, c) = {}
  <2>1. x # None BY <1>2, Constants
  <2>2. QED BY <1>4, <1>6, <2>1 DEF SpaceOf, StackOf
<1>8. Kstack(x) \subseteq mem.free BY <1>2 DEF Kstack
<1>9. Parts(m2)
  <2>1. \A q, r \in Users : q # r => StackOf(m2, q) \cap StackOf(m2, r) = {}
    BY <1>1, <1>7, <1>8 DEF Parts
  <2>2. \A q \in Procs, r \in Users : SpaceOf(m2, q) \cap StackOf(m2, r) = {}
    BY <1>1, <1>7, <1>8 DEF Parts
  <2>3. \A q \in Users : StackOf(m2, q) \subseteq Pages /\ m2.free \cap StackOf(m2, q) = {}
    BY <1>1, <1>2, <1>6, <1>7, <1>8 DEF Parts
  <2>4. \A q \in Procs : SpaceOf(m2, q) \subseteq Pages /\ m2.free \cap SpaceOf(m2, q) = {}
    BY <1>1, <1>6, <1>7 DEF Parts
  <2>5. ASSUME NEW y \in Pages
        PROVE  \/ y \in m2.free
               \/ \E q \in Procs : y \in SpaceOf(m2, q)
               \/ \E q \in Users : y \in StackOf(m2, q)
    <3>1. \/ y \in mem.free
          \/ \E q \in Procs : y \in SpaceOf(mem, q)
          \/ \E q \in Users : y \in StackOf(mem, q)
      BY <1>1 DEF Parts
    <3>2. QED BY <1>6, <1>7, <3>1
  <2>6. QED BY <1>1, <1>7, <2>1, <2>2, <2>3, <2>4, <2>5 DEF Parts
<1>10. Counted(m2) BY <1>1, <1>6, <1>7, <1>8 DEF Counted
<1>11. Sound(m2) BY <1>6, <1>9, <1>10 DEF Sound
<1>12. QED BY <1>6, <1>11 DEF m2, k2, c2

LEMMA ReapedIs ==
  ASSUME NEW mem, Sound(mem), NEW c \in Users, mem.kstack[c] # None
  PROVE  LET m2 == Reaped(mem, c) IN
         /\ Sound(m2) /\ m2.mm = mem.mm
         /\ m2.kstack = [mem.kstack EXCEPT ![c] = None] /\ m2.cr3 = [mem.cr3 EXCEPT ![c] = Boot]
         /\ \A p \in Procs : Seen(m2, p) = Seen(mem, p)
<1> DEFINE X == Kstack(mem.kstack[c])
           m1 == free_pages(mem, X)
           k2 == [m1.kstack EXCEPT ![c] = None]
           c2 == [m1.cr3 EXCEPT ![c] = Boot]
           m2 == Reaped(mem, c)
<1>1. mem \in Memories /\ Parts(mem) /\ Counted(mem) BY DEF Sound
<1>2. X = StackOf(mem, c) BY DEF StackOf
<1>3. X \in SUBSET Pages BY <1>1, <1>2 DEF Parts
<1> HIDE DEF X
<1>4. /\ m1 \in Memories /\ m1.free = mem.free \cup X /\ m1.mm = mem.mm
      /\ m1.kstack = mem.kstack /\ m1.cr3 = mem.cr3 /\ m1.check = mem.check
      /\ m1.pra = mem.pra /\ m1.swap = mem.swap
      /\ \A x \in Pages : m1.ref[x] = IF x \in X THEN 0 ELSE mem.ref[x]
      /\ \A x \in Pages : m1.content[x] = IF x \in X THEN 0 ELSE mem.content[x]
  BY <1>1, <1>3, FreePagesIs
<1> HIDE DEF m1
<1>5. c2 \in [Users -> Pages \cup {Boot}] BY <1>4 DEF Memories
<1>6. k2 \in [Users -> Pages \cup {None}] /\ k2[c] = None
      /\ \A q \in Users : q # c => k2[q] = mem.kstack[q]
  BY <1>4 DEF Memories
<1>7. m2 = [m1 EXCEPT !.kstack = k2, !.cr3 = c2] BY <1>4 DEF Reaped, Memories, m1, X
<1>8. k2 = [mem.kstack EXCEPT ![c] = None] /\ c2 = [mem.cr3 EXCEPT ![c] = Boot] BY <1>4
<1> HIDE DEF c2, k2, m2
<1>9. /\ m2 \in Memories /\ m2.free = m1.free /\ m2.ref = m1.ref /\ m2.mm = m1.mm
      /\ m2.kstack = k2 /\ m2.check = m1.check /\ m2.pra = m1.pra
      /\ m2.swap = m1.swap /\ m2.content = m1.content /\ m2.cr3 = c2
  BY <1>4, <1>5, <1>6, <1>7 DEF Memories
<1>10. /\ \A q \in Procs : SpaceOf(m2, q) = SpaceOf(mem, q)
       /\ \A q \in Users : q # c => StackOf(m2, q) = StackOf(mem, q)
       /\ StackOf(m2, c) = {}
  BY <1>4, <1>6, <1>9 DEF SpaceOf, StackOf
<1>11. Parts(m2)
  <2>1. \A q, r \in Users : q # r => StackOf(m2, q) \cap StackOf(m2, r) = {}
    BY <1>1, <1>10 DEF Parts
  <2>2. \A q \in Procs, r \in Users : SpaceOf(m2, q) \cap StackOf(m2, r) = {}
    BY <1>1, <1>10 DEF Parts
  <2>3. \A q \in Users : StackOf(m2, q) \subseteq Pages /\ m2.free \cap StackOf(m2, q) = {}
    <3>1. \A q \in Users : q # c => X \cap StackOf(mem, q) = {} BY <1>1, <1>2 DEF Parts
    <3>2. QED BY <1>1, <1>4, <1>9, <1>10, <3>1 DEF Parts
  <2>4. \A q \in Procs : SpaceOf(m2, q) \subseteq Pages /\ m2.free \cap SpaceOf(m2, q) = {}
    BY <1>1, <1>2, <1>4, <1>9, <1>10 DEF Parts
  <2>5. ASSUME NEW y \in Pages
        PROVE  \/ y \in m2.free
               \/ \E q \in Procs : y \in SpaceOf(m2, q)
               \/ \E q \in Users : y \in StackOf(m2, q)
    <3>1. \/ y \in mem.free
          \/ \E q \in Procs : y \in SpaceOf(mem, q)
          \/ \E q \in Users : y \in StackOf(mem, q)
      BY <1>1 DEF Parts
    <3>2. QED BY <1>2, <1>4, <1>9, <1>10, <3>1
  <2>6. QED BY <1>1, <1>10, <2>1, <2>2, <2>3, <2>4, <2>5 DEF Parts
<1>12. Counted(m2)
  <2>1. \A q \in Procs : \A x \in SpaceOf(mem, q) : x \in Pages \ X BY <1>1, <1>2 DEF Parts
  <2>2. \A q \in Users : q # c => \A x \in StackOf(mem, q) : x \in Pages BY <1>1 DEF Parts
  <2>3. mem.free \subseteq Pages BY <1>1 DEF Memories
  <2>4. \A x \in m2.free : m2.ref[x] = 0 BY <1>1, <1>3, <1>4, <1>9, <2>3 DEF Counted
  <2>5. \A q \in Users : \A x \in StackOf(m2, q) : m2.ref[x] = 0
    BY <1>1, <1>4, <1>9, <1>10, <2>2 DEF Counted
  <2>6. \A q \in Procs : \A x \in SpaceOf(m2, q) :
          m2.ref[x] = IF x = m2.mm[q].pgdir THEN 0 ELSE 1
    BY <1>1, <1>4, <1>9, <1>10, <2>1 DEF Counted
  <2>7. QED BY <2>4, <2>5, <2>6 DEF Counted
<1>13. Sound(m2) BY <1>4, <1>9, <1>11, <1>12 DEF Sound
<1>14. ASSUME NEW p \in Procs PROVE Seen(m2, p) = Seen(mem, p)
  <2>1. \A la \in DOMAIN mem.mm[p].pte :
          m2.content[mem.mm[p].pte[la].at] = mem.content[mem.mm[p].pte[la].at]
    <3>1. SUFFICES ASSUME NEW la \in DOMAIN mem.mm[p].pte
                   PROVE  m2.content[mem.mm[p].pte[la].at] = mem.content[mem.mm[p].pte[la].at]
      OBVIOUS
    <3>2. mem.mm[p] # NoMm
      <4>1. DOMAIN NoMm.pte = {} BY NewMmIs, EmptyIs DEF NoMm
      <4>2. QED BY <3>1, <4>1
    <3>3. <<3, la>> \in Slots(mem.mm[p]) /\ PageAt(mem.mm[p], <<3, la>>) = mem.mm[p].pte[la].at
      BY DEF Slots, PageAt
    <3>4. mem.mm[p].pte[la].at \in SpaceOf(mem, p) BY <3>2, <3>3 DEF SpaceOf, Own
    <3>5. mem.mm[p].pte[la].at \in Pages \ X BY <1>1, <1>2, <3>4 DEF Parts
    <3>6. QED BY <1>4, <1>9, <3>5
  <2>2. QED BY <1>4, <1>9, <2>1 DEF Seen
<1>15. QED BY <1>4, <1>8, <1>9, <1>13, <1>14 DEF m2

\* new_mm: a page directory with nothing in it.
NewSpace(mem, m2, p, A) ==
  /\ Kept(m2, p, A) /\ Only(mem, m2, p, A)
  /\ m2.mm[p] = NewMm(m2.mm[p].pgdir) /\ m2.content = mem.content
  /\ Seen(m2, p) = Empty

LEMMA NewSpaceIs ==
  ASSUME NEW mem, NEW p \in Procs, NEW A, Settled(mem, p, A), mem.mm[p] = NoMm, A # {}
  PROVE  NewSpace(mem, new_mm(mem, p), p, A)
<1> DEFINE x == NextPage(mem)
           m1 == alloc_page(mem)
           s2 == NewMm(x)
           mm2 == [m1.mm EXCEPT ![p] = s2]
           m2 == new_mm(mem, p)
<1>1. mem \in Memories /\ A \subseteq Pages /\ mem.free = A /\ \A y \in A : mem.ref[y] = 0
  BY DEF Settled
<1>2. x \in A /\ m1 = [mem EXCEPT !.free = @ \ {x}] BY <1>1, AllocIs
<1> HIDE DEF x
<1>3. m1 \in Memories /\ m1.mm = mem.mm /\ m1.ref = mem.ref /\ m1.content = mem.content
      /\ m1.kstack = mem.kstack /\ m1.cr3 = mem.cr3 /\ m1.check = mem.check
      /\ m1.pra = mem.pra /\ m1.swap = mem.swap /\ m1.free = A \ {x}
  BY <1>1, <1>2 DEF Memories
<1> HIDE DEF m1
<1>4. s2 \in Spaces /\ s2.pgdir = x /\ s2.pte = Empty /\ Own(s2) = {x} /\ Injective(s2)
  BY <1>1, <1>2, NewMmIs
<1>5. m2 = [m1 EXCEPT !.mm = mm2] BY <1>3 DEF new_mm, Memories, m1, x
<1> HIDE DEF s2, m2
<1>6. mm2 \in [Procs -> Spaces] /\ mm2[p] = s2 /\ \A q \in Procs \ {p} : mm2[q] = m1.mm[q]
  BY <1>3, <1>4 DEF Memories
<1> HIDE DEF mm2
<1>7. /\ m2 \in Memories /\ m2.free = m1.free /\ m2.content = m1.content
      /\ m2.ref = m1.ref /\ m2.mm = mm2
      /\ m2.kstack = m1.kstack /\ m2.cr3 = m1.cr3 /\ m2.check = m1.check
      /\ m2.pra = m1.pra /\ m2.swap = m1.swap
  BY <1>3, <1>5, <1>6 DEF Memories
<1>8. Kept(m2, p, A) BY <1>1, <1>2, <1>3, <1>4, <1>6, <1>7 DEF Kept
<1>9. Only(mem, m2, p, A) BY <1>3, <1>6, <1>7 DEF Only
<1>10. Seen(m2, p) = Empty BY <1>4, <1>6, <1>7, EmptyIs DEF Seen, Empty
<1>11. QED BY <1>3, <1>4, <1>6, <1>7, <1>8, <1>9, <1>10 DEF NewSpace, m2, s2

\* release_mm, for a process with or without memory.
LEMMA BareIs ==
  ASSUME NEW mem, NEW p \in Procs, NEW A, Settled(mem, p, A)
  PROVE  Released(mem, release_mm(mem, p), p, A)
<1>1. CASE mem.mm[p] = NoMm
  <2>1. release_mm(mem, p) = mem BY <1>1 DEF release_mm
  <2>2. QED BY <1>1, <2>1 DEF Settled, Released, Only
<1>2. CASE mem.mm[p] # NoMm
  <2>1. Kept(mem, p, A) /\ GoodSpace(mem.mm[p]) BY <1>2 DEF Settled
  <2>2. QED BY <2>1, ReleaseIs DEF GoodSpace
<1>3. QED BY <1>1, <1>2

LEMMA ReleasedSettled ==
  ASSUME NEW mem, NEW m2, NEW p, NEW A, A \subseteq Pages, Released(mem, m2, p, A)
  PROVE  Settled(m2, p, A) /\ Seen(m2, p) = Empty
<1>1. DOMAIN m2.mm[p].pte = {} BY NewMmIs, EmptyIs DEF Released, NoMm
<1>2. Seen(m2, p) = Empty BY <1>1 DEF Seen, Empty
<1>3. QED BY <1>2 DEF Released, Settled

\* What a call for p does to a sound memory.
ProcStep(mem, m2, p) ==
  /\ Sound(m2) /\ m2.kstack = mem.kstack
  /\ \A q \in Procs \ {p} : m2.mm[q] = mem.mm[q] /\ Seen(m2, q) = Seen(mem, q)

LEMMA ProcStepIs ==
  ASSUME NEW mem, Sound(mem), NEW p \in Users, NEW m2,
         Settled(m2, p, mem.free \cup SpaceOf(mem, p)),
         Only(mem, m2, p, mem.free \cup SpaceOf(mem, p))
  PROVE  ProcStep(mem, m2, p) /\ m2.cr3 = mem.cr3
<1>1. Sound(m2) BY MovedIs
<1>2. \A q \in Procs \ {p} : Seen(m2, q) = Seen(mem, q) BY OthersSee
<1>3. QED BY <1>1, <1>2 DEF ProcStep, Only

\* do_exit.
LEMMA ExitIs ==
  ASSUME NEW mem, Sound(mem), NEW p \in Users
  PROVE  LET m2 == release_mm(mem, p) IN
         /\ ProcStep(mem, m2, p) /\ m2.cr3 = mem.cr3
         /\ m2.mm[p] = NoMm /\ Seen(m2, p) = Empty
<1> DEFINE A == mem.free \cup SpaceOf(mem, p)
           m2 == release_mm(mem, p)
<1>1. p \in Procs BY DEF Procs
<1>2. Settled(mem, p, A) BY <1>1, MineIs
<1>3. Released(mem, m2, p, A) BY <1>1, <1>2, BareIs
<1> HIDE DEF m2
<1>4. Settled(m2, p, A) /\ Seen(m2, p) = Empty BY <1>2, <1>3, ReleasedSettled DEF Settled
<1>5. Only(mem, m2, p, A) BY <1>3 DEF Released
<1>6. QED BY <1>3, <1>4, <1>5, ProcStepIs DEF m2, Released

\* The regions of a program, and with the stack.
VmasOf(prog, n) == [i \in 1 .. n |-> Vma(prog.segs[i])]

LEMMA VmasAre ==
  ASSUME NEW prog \in Programs
  PROVE  LET n == GoodSegs(prog) IN
         /\ Regions(VmasOf(prog, n)) /\ PagesOf(VmasOf(prog, n)) = PagesUpTo(prog, n)
         /\ PagesUpTo(prog, n) \subseteq PagesOf(prog.segs)
         /\ PagesUpTo(prog, n) \subseteq 0 .. StackFrom - 1
         /\ Regions(Append(VmasOf(prog, n), StackVma))
         /\ PagesOf(Append(VmasOf(prog, n), StackVma))
            = PagesUpTo(prog, n) \cup (StackFrom .. StackTo - 1)
<1> DEFINE n == GoodSegs(prog)
           segs == prog.segs
           v == VmasOf(prog, n)
           w == Append(v, StackVma)
           stack == StackFrom .. StackTo - 1
<1>1. StackFrom \in Nat /\ StackTo \in Nat /\ StackFrom < StackTo BY Constants
<1>2. n \in 0 .. Len(segs) /\ Apart(prog, n) BY GoodSegsIs
<1>3. /\ Len(segs) \in Nat /\ DOMAIN segs = 1 .. Len(segs)
      /\ \A i \in 1 .. Len(segs) : IsSegment(segs[i]) /\ segs[i].end <= StackFrom
  BY SegmentsAre
<1> HIDE DEF n
<1>4. n \in Nat /\ \A i \in 1 .. n : i \in DOMAIN segs /\ i \in 1 .. Len(segs) BY <1>2, <1>3
<1>5. \A i \in 1 .. n : /\ segs[i].start \in Nat /\ segs[i].end \in Nat /\ segs[i].w \in BOOLEAN
                        /\ segs[i].start < segs[i].end /\ segs[i].end <= StackFrom
  BY <1>3, <1>4 DEF IsSegment
<1>6. /\ v \in Seq(Vmas) /\ Len(v) = n
      /\ \A i \in 1 .. n : /\ v[i].start = segs[i].start /\ v[i].end = segs[i].end
                           /\ SegPages(v[i]) = SegPages(segs[i])
  <2>1. \A i \in 1 .. n : Vma(segs[i]) \in Vmas BY <1>5 DEF Vma, Vmas
  <2>2. v \in [1 .. n -> Vmas] BY <2>1 DEF VmasOf
  <2>3. v \in Seq(Vmas) /\ Len(v) = n BY <1>4, <2>2
  <2>4. \A i \in 1 .. n : v[i] = Vma(segs[i]) BY DEF VmasOf
  <2>5. \A i \in 1 .. n : v[i].start = segs[i].start /\ v[i].end = segs[i].end
    <3>1. \A seg : Vma(seg).start = seg.start /\ Vma(seg).end = seg.end BY DEF Vma
    <3> HIDE DEF v, segs
    <3>2. QED BY <2>4, <3>1
  <2> HIDE DEF v
  <2>6. QED BY <2>3, <2>5 DEF SegPages
<1> HIDE DEF v
<1>7. DOMAIN v = 1 .. n BY <1>6
<1>8. PagesOf(v) = PagesUpTo(prog, n) BY <1>6, <1>7 DEF PagesOf, PagesUpTo, SegPages, segs
<1>9. PagesUpTo(prog, n) \subseteq PagesOf(segs) BY <1>4 DEF PagesOf, PagesUpTo, SegPages, segs
<1>10. PagesUpTo(prog, n) \subseteq 0 .. StackFrom - 1
  <2>1. SUFFICES ASSUME NEW i \in 1 .. n, NEW la \in SegPages(segs[i])
                 PROVE  la \in 0 .. StackFrom - 1
    BY DEF PagesUpTo, segs
  <2>2. /\ segs[i].start \in Nat /\ segs[i].end \in Nat /\ segs[i].end <= StackFrom BY <1>5
  <2>3. QED BY <1>1, <2>2 DEF SegPages
<1>11. \A a, b \in PagesUpTo(prog, n) \cup stack :
         a \div PDSIZE = b \div PDSIZE => a \div PTSIZE = b \div PTSIZE
  <2>1. \A a, b \in PagesOf(prog.segs) \cup (StackFrom .. StackTo - 1) :
          a \div PDSIZE = b \div PDSIZE => a \div PTSIZE = b \div PTSIZE
    BY ProgramsAssumption
  <2>2. QED BY <1>9, <2>1 DEF segs
<1>12. \A i, j \in 1 .. n : i # j => SegPages(v[i]) \cap SegPages(v[j]) = {}
  BY <1>2, <1>6 DEF Apart, segs
<1>13. Regions(v)
  <2>1. \A i \in 1 .. n : v[i].start < v[i].end /\ v[i].end <= StackTo
    <3>1. SUFFICES ASSUME NEW i \in 1 .. n PROVE v[i].start < v[i].end /\ v[i].end <= StackTo
      OBVIOUS
    <3>2. segs[i].end \in Nat /\ segs[i].start < segs[i].end /\ segs[i].end <= StackFrom BY <1>5
    <3>3. QED BY <1>1, <1>6, <3>2
  <2>2. QED BY <1>6, <1>8, <1>11, <1>12, <2>1 DEF Regions
<1>14. /\ w \in Seq(Vmas) /\ Len(w) = n + 1 /\ w[n + 1] = StackVma
       /\ \A i \in 1 .. n : w[i] = v[i]
  <2>1. StackVma \in Vmas BY <1>1 DEF StackVma, Vmas
  <2>2. QED BY <1>4, <1>6, <2>1
<1> HIDE DEF w
<1>15. StackVma.start = StackFrom /\ StackVma.end = StackTo /\ SegPages(StackVma) = stack
  BY DEF StackVma, SegPages
<1>16. \A i : i \in 1 .. n + 1 <=> i \in 1 .. n \/ i = n + 1 BY <1>4
<1>17. PagesOf(w) = PagesUpTo(prog, n) \cup stack
  <2>1. DOMAIN w = 1 .. n + 1 BY <1>14
  <2>2. PagesOf(w) = UNION {SegPages(w[i]) : i \in 1 .. n + 1} BY <2>1 DEF PagesOf, SegPages
  <2>3. PagesOf(v) = UNION {SegPages(v[i]) : i \in 1 .. n} BY <1>7 DEF PagesOf, SegPages
  <2>4. PagesOf(w) = PagesOf(v) \cup stack
    <3>1. \A i \in 1 .. n : SegPages(w[i]) = SegPages(v[i]) BY <1>14
    <3>2. SegPages(w[n + 1]) = stack BY <1>14, <1>15
    <3> HIDE DEF stack
    <3>3. QED BY <1>16, <2>2, <2>3, <3>1, <3>2
  <2>5. QED BY <1>8, <2>4
<1>18. Regions(w)
  <2>1. \A i \in 1 .. n + 1 : w[i].start < w[i].end /\ w[i].end <= StackTo
    BY <1>1, <1>6, <1>13, <1>14, <1>15, <1>16 DEF Regions
  <2>2. \A i \in 1 .. n : SegPages(w[i]) \cap SegPages(w[n + 1]) = {}
    <3>1. \A i \in 1 .. n : SegPages(v[i]) \subseteq PagesUpTo(prog, n) BY <1>6 DEF PagesUpTo, segs
    <3>2. (0 .. StackFrom - 1) \cap stack = {} BY <1>1
    <3>3. QED BY <1>10, <1>14, <1>15, <3>1, <3>2
  <2>3. \A i, j \in 1 .. n + 1 : i # j => SegPages(w[i]) \cap SegPages(w[j]) = {}
    <3>1. SUFFICES ASSUME NEW i \in 1 .. n + 1, NEW j \in 1 .. n + 1, i # j
                   PROVE  SegPages(w[i]) \cap SegPages(w[j]) = {}
      OBVIOUS
    <3>2. CASE i \in 1 .. n /\ j \in 1 .. n BY <1>12, <1>14, <3>1, <3>2
    <3>3. CASE i \in 1 .. n /\ j = n + 1 BY <2>2, <3>3
    <3>4. CASE i = n + 1 /\ j \in 1 .. n BY <2>2, <3>4
    <3>5. QED BY <1>16, <3>1, <3>2, <3>3, <3>4
  <2>4. QED BY <1>11, <1>14, <1>17, <2>1, <2>3 DEF Regions
<1>19. QED BY <1>8, <1>9, <1>10, <1>13, <1>17, <1>18 DEF n, v, w, segs

\* The slots that loading a program takes.
FilePages(prog) == PagesOf(prog.segs) \cup Loaded
SlotsOfProgram(prog) ==
  SlotsFrom({la \div PDSIZE : la \in FilePages(prog)}, {la \div PTSIZE : la \in FilePages(prog)},
            FilePages(prog))

LEMMA QuotientsFinite ==
  ASSUME NEW P, IsFiniteSet(P), NEW b
  PROVE  IsFiniteSet({la \div b : la \in P})
<1> DEFINE T == {la \div b : la \in P}
           f == [la \in P |-> la \div b]
<1>1. f \in [P -> T] /\ \A t \in T : \E la \in P : f[la] = t OBVIOUS
<1> HIDE DEF f, T
<1>2. f \in Surjection(P, T) BY <1>1 DEF Surjection
<1>3. IsFiniteSet(T) BY <1>2, FS_Surjection
<1>4. QED BY <1>3 DEF T

LEMMA ProgramSlots ==
  ASSUME NEW prog \in Programs
  PROVE  LET K == SlotsOfProgram(prog) IN
         /\ IsFiniteSet(K) /\ Cardinality(K) = Takes(prog) /\ <<0, 0>> \in K
         /\ \A la \in FilePages(prog) : NewSlots(la) \subseteq K
         /\ FilePages(prog) \subseteq Nat
         /\ Takes(prog) \in Nat /\ Takes(prog) >= 1
<1> DEFINE P == FilePages(prog)
           D == {la \div PDSIZE : la \in P}
           T == {la \div PTSIZE : la \in P}
           K == SlotsOfProgram(prog)
<1>1. P \subseteq Vas
  <2>1. ASSUME NEW i \in DOMAIN prog.segs, NEW la \in prog.segs[i].start .. prog.segs[i].end - 1
        PROVE  la \in Vas
    <3>1. IsSegment(prog.segs[i]) /\ prog.segs[i].end <= StackFrom BY SegmentsAre
    <3>2. prog.segs[i].start \in Nat /\ prog.segs[i].end \in Nat BY <3>1 DEF IsSegment
    <3>3. StackFrom \in Nat /\ StackTo \in Nat /\ StackFrom <= StackTo BY Constants
    <3>4. QED BY <3>1, <3>2, <3>3 DEF Vas
  <2>2. Loaded \subseteq Vas BY Constants DEF Loaded, Vas
  <2>3. QED BY <2>1, <2>2 DEF FilePages, PagesOf
<1>2. IsFiniteSet(Vas) BY Constants, FS_Interval DEF Vas
<1>3. IsFiniteSet(P) BY <1>1, <1>2, FS_Subset
<1> HIDE DEF P
<1>4. IsFiniteSet(D) /\ IsFiniteSet(T) BY <1>3, QuotientsFinite
<1>5. K = SlotsFrom(D, T, P) BY DEF SlotsOfProgram, P
<1>6. Takes(prog) = 1 + Cardinality(D) + Cardinality(T) + Cardinality(P)
  BY DEF Takes, FilePages, P
<1>7. \A la \in P : NewSlots(la) \subseteq K
  <2>1. SUFFICES ASSUME NEW la \in P PROVE NewSlots(la) \subseteq K OBVIOUS
  <2>2. la \div PDSIZE \in D /\ la \div PTSIZE \in T OBVIOUS
  <2> HIDE DEF D, T
  <2>3. QED BY <1>5, <2>2 DEF NewSlots, SlotsFrom
<1>8. <<0, 0>> \in K BY <1>5 DEF SlotsFrom
<1> HIDE DEF D, T, K
<1>9. IsFiniteSet(K) /\ Cardinality(K) = Takes(prog) BY <1>3, <1>4, <1>5, <1>6, SlotCount
<1>10. Takes(prog) \in Nat /\ Takes(prog) >= 1
  <2>1. Cardinality(D) \in Nat /\ Cardinality(T) \in Nat /\ Cardinality(P) \in Nat
    BY <1>3, <1>4, FS_CardinalityType
  <2>2. QED BY <1>6, <2>1
<1>11. QED BY <1>1, <1>7, <1>8, <1>9, <1>10, Constants DEF P, K

\* do_execve as far as the segments.
Loads(mem, m2, p, prog, A) ==
  /\ Loading(m2, p, A, PagesUpTo(prog, GoodSegs(prog)), SlotsOfProgram(prog))
  /\ Only(mem, m2, p, A)
  /\ Seen(m2, p) = Over(Empty, SegIm(prog, GoodSegs(prog)), PagesUpTo(prog, GoodSegs(prog)))
  /\ m2.mm[p].vmas = VmasOf(prog, GoodSegs(prog))

LEMMA LoadsIs ==
  ASSUME NEW mem, Sound(mem), NEW p \in Users, NEW prog \in Programs,
         Cardinality(release_mm(mem, p).free) >= Takes(prog)
  PROVE  Loads(mem, load_segments(new_mm(release_mm(mem, p), p), p, prog), p, prog,
               mem.free \cup SpaceOf(mem, p))
<1> DEFINE A == mem.free \cup SpaceOf(mem, p)
           b0 == release_mm(mem, p)
           b1 == new_mm(b0, p)
           m2 == load_segments(b1, p, prog)
           n == GoodSegs(prog)
           R == PagesUpTo(prog, n)
           K == SlotsOfProgram(prog)
<1>1. p \in Procs BY DEF Procs
<1>2. Settled(mem, p, A) /\ A \subseteq Pages BY <1>1, MineIs DEF Settled
<1>3. Released(mem, b0, p, A) BY <1>1, <1>2, BareIs
<1>4. Settled(b0, p, A) BY <1>2, <1>3, ReleasedSettled
<1>5. IsFiniteSet(K) /\ Cardinality(K) <= Cardinality(A) /\ <<0, 0>> \in K /\ A # {}
  <2>1. Takes(prog) <= Cardinality(A) /\ Cardinality(K) = Takes(prog) /\ Takes(prog) >= 1
        /\ Takes(prog) \in Nat
    BY <1>3, ProgramSlots DEF Released
  <2>2. Cardinality({}) = 0 BY FS_EmptySet
  <2> HIDE DEF A, K
  <2>3. A # {} BY <2>1, <2>2
  <2>4. QED BY <2>1, <2>3, ProgramSlots DEF K
<1> HIDE DEF K, b0
<1>6. NewSpace(b0, b1, p, A) BY <1>1, <1>3, <1>4, <1>5, NewSpaceIs DEF Released
<1> HIDE DEF b1
<1> DEFINE s == b1.mm[p]
<1>7. s.vmas = <<>> /\ DOMAIN s.pte = {} /\ Slots(s) = {<<0, 0>>} /\ Shape(s, R)
  <2>1. Kept(b1, p, A) /\ s = NewMm(s.pgdir) BY <1>6 DEF NewSpace
  <2>2. s.pgdir \in Pages BY <2>1 DEF Kept
  <2> DEFINE x == s.pgdir
  <2>3. NewMm(x).vmas = <<>> /\ NewMm(x).pte = Empty /\ Slots(NewMm(x)) = {<<0, 0>>}
        /\ Shape(NewMm(x), R)
    BY <2>2, NewMmIs
  <2> HIDE DEF s, R
  <2>4. QED BY <2>1, <2>3, EmptyIs DEF s
<1>8. Loading(b1, p, A, R, K)
  <2>1. \A la \in R : NewSlots(la) \subseteq K
    BY VmasAre, ProgramSlots DEF FilePages, K
  <2>2. R \subseteq Nat BY VmasAre, Constants
  <2>3. Only(b1, b1, p, A) BY DEF Only
  <2>4. Room(s, K, A) BY <1>5, <1>7 DEF Room
  <2>5. ~b1.check BY <1>3, <1>6 DEF Sound, Released, NewSpace, Only
  <2> HIDE DEF R
  <2>6. QED BY <1>1, <1>6, <1>7, <2>1, <2>2, <2>3, <2>4, <2>5 DEF Loading, Grown, NewSpace
<1> HIDE DEF s
<1>9. /\ Loading(m2, p, A, R, K) /\ Only(b1, m2, p, A)
      /\ Seen(m2, p) = Over(Seen(b1, p), SegIm(prog, n), R)
      /\ m2.mm[p].vmas = VmasOf(prog, n)
  <2>1. b1.mm[p].vmas = <<>> /\ DOMAIN b1.mm[p].pte = {} BY <1>7 DEF s
  <2>2. QED BY <1>8, <2>1, LoadSegmentsIs DEF VmasOf
<1> HIDE DEF m2
<1>10. Only(mem, m2, p, A)
  <2>1. Only(mem, b0, p, A) /\ Only(b0, b1, p, A) BY <1>3, <1>6 DEF Released, NewSpace
  <2>2. QED BY <1>9, <2>1, OnlyTrans
<1>11. Seen(b1, p) = Empty BY <1>6 DEF NewSpace
<1>12. Loads(mem, m2, p, prog, A) BY <1>9, <1>10, <1>11 DEF Loads, K
<1>13. QED BY <1>12 DEF m2, b1, b0

LEMMA ShapeMore ==
  ASSUME NEW s, NEW R, NEW S, Shape(s, R), R \subseteq S
  PROVE  Shape(s, S)
BY DEF Shape

\* With memory of its own, p is settled.
LEMMA SettledIs ==
  ASSUME NEW m2, NEW p, NEW A, NEW R, NEW K, Loading(m2, p, A, R, K), A \subseteq Pages,
         Regions(m2.mm[p].vmas), R \subseteq PagesOf(m2.mm[p].vmas)
  PROVE  Settled(m2, p, A) /\ m2.mm[p] # NoMm /\ m2.mm[p].pgdir \in Pages
<1> DEFINE s == m2.mm[p]
<1>1. Kept(m2, p, A) /\ Shape(s, R) BY DEF Loading, Grown
<1>2. s.pgdir \in Pages /\ Injective(s) /\ m2 \in Memories BY <1>1 DEF Kept
<1>3. Shape(s, PagesOf(s.vmas)) BY <1>1, ShapeMore
<1>4. NoMm.pgdir \notin Pages BY Constants DEF NoMm, NewMm
<1>5. s # NoMm BY <1>2, <1>4
<1>6. GoodSpace(s) BY <1>2, <1>3 DEF GoodSpace
<1>7. QED BY <1>1, <1>2, <1>5, <1>6 DEF Settled

\* A process that has just got its memory runs on it.
OnItsOwn(mem, m2, p) ==
  /\ ProcStep(mem, m2, p) /\ m2.mm[p] # NoMm
  /\ m2.cr3 = [mem.cr3 EXCEPT ![p] = m2.mm[p].pgdir]

LEMMA OnItsOwnIs ==
  ASSUME NEW mem, Sound(mem), NEW p \in Users, NEW m2,
         Settled(m2, p, mem.free \cup SpaceOf(mem, p)), m2.mm[p] # NoMm,
         m2.mm[p].pgdir \in Pages,
         Only(mem, m2, p, mem.free \cup SpaceOf(mem, p))
  PROVE  LET m3 == SetCr3(m2, p, m2.mm[p].pgdir) IN
         OnItsOwn(mem, m3, p) /\ Seen(m3, p) = Seen(m2, p)
<1> DEFINE m3 == SetCr3(m2, p, m2.mm[p].pgdir)
<1>1. ProcStep(mem, m2, p) /\ m2.cr3 = mem.cr3 BY ProcStepIs
<1>2. /\ Sound(m3) /\ m3.cr3 = [m2.cr3 EXCEPT ![p] = m2.mm[p].pgdir]
      /\ m3.mm = m2.mm /\ m3.kstack = m2.kstack /\ m3.content = m2.content /\ m3.swap = m2.swap
  BY <1>1, Cr3Is DEF ProcStep
<1> HIDE DEF m3
<1>3. \A q : Seen(m3, q) = Seen(m2, q) BY <1>2 DEF Seen
<1>4. QED BY <1>1, <1>2, <1>3 DEF OnItsOwn, ProcStep, m3

\* do_execve of a good program.
LEMMA ExecIs ==
  ASSUME NEW mem, Sound(mem), NEW p \in Users, NEW prog \in Programs, NEW m1,
         Loads(mem, m1, p, prog, mem.free \cup SpaceOf(mem, p)), NEW old \in [Loaded -> Values]
  PROVE  LET m2 == load_stack(m1, p, old)
             n == GoodSegs(prog)
         IN
         /\ OnItsOwn(mem, m2, p)
         /\ Seen(m2, p) = Over(Over(Empty, SegIm(prog, n), PagesUpTo(prog, n)), old, Loaded)
<1> DEFINE A == mem.free \cup SpaceOf(mem, p)
           n == GoodSegs(prog)
           R == PagesUpTo(prog, n)
           S == R \cup Loaded
           K == SlotsOfProgram(prog)
           f == fill_stack(m1, p, old)
<1>1. A \subseteq Pages
  <2>1. p \in Procs BY DEF Procs
  <2>2. QED BY <2>1, MineIs DEF Settled
<1>2. Loading(m1, p, A, R, K) /\ m1.mm[p].vmas = VmasOf(prog, n) BY DEF Loads
<1>3. R \subseteq 0 .. StackFrom - 1 /\ R \subseteq PagesOf(prog.segs) BY VmasAre
<1>4. Loaded \subseteq StackFrom .. StackTo - 1 /\ Loaded \subseteq Nat BY Constants DEF Loaded
<1>5. S \subseteq Nat /\ \A la \in S : NewSlots(la) \subseteq K
  BY <1>3, <1>4, ProgramSlots DEF FilePages
<1> HIDE DEF R, K, A
<1>6. Loading(m1, p, A, S, K) BY <1>2, <1>5, LoadingMore
<1>7. Loaded \cap DOMAIN m1.mm[p].pte = {}
  <2>1. DOMAIN m1.mm[p].pte \subseteq R BY <1>2 DEF Loading, Grown, Shape
  <2>2. R \cap Loaded = {} BY <1>3, <1>4, Constants
  <2>3. QED BY <2>1, <2>2
<1>8. /\ Loading(f, p, A, S, K) /\ Only(m1, f, p, A)
      /\ Seen(f, p) = Over(Seen(m1, p), old, Loaded)
      /\ f.mm[p].vmas = Append(VmasOf(prog, n), StackVma)
  BY <1>2, <1>6, <1>7, FillStackIs
<1> HIDE DEF f
<1>9. Regions(f.mm[p].vmas) /\ S \subseteq PagesOf(f.mm[p].vmas)
  BY <1>4, <1>8, VmasAre DEF R
<1>10. Settled(f, p, A) /\ f.mm[p] # NoMm /\ f.mm[p].pgdir \in Pages
  BY <1>1, <1>8, <1>9, SettledIs
<1>11. Only(mem, f, p, A)
  <2>1. Only(mem, m1, p, A) BY DEF Loads, A
  <2>2. QED BY <2>1, <1>8, OnlyTrans
<1> DEFINE m2 == SetCr3(f, p, f.mm[p].pgdir)
<1>12. OnItsOwn(mem, m2, p) /\ Seen(m2, p) = Seen(f, p) BY <1>10, <1>11, OnItsOwnIs DEF A
<1>13. load_stack(m1, p, old) = m2 BY DEF load_stack, SetCr3, f
<1> HIDE DEF m2
<1>14. Seen(m1, p) = Over(Empty, SegIm(prog, n), R) BY DEF Loads, R
<1>15. QED BY <1>8, <1>12, <1>13, <1>14 DEF R

\* do_execve of a bad one.
LEMMA FailedExecIs ==
  ASSUME NEW mem, Sound(mem), NEW p \in Users, NEW prog \in Programs, NEW m1,
         Loads(mem, m1, p, prog, mem.free \cup SpaceOf(mem, p))
  PROVE  LET m2 == release_mm(m1, p) IN
         /\ ProcStep(mem, m2, p) /\ m2.cr3 = mem.cr3
         /\ m2.mm[p] = NoMm /\ Seen(m2, p) = Empty
<1> DEFINE A == mem.free \cup SpaceOf(mem, p)
           n == GoodSegs(prog)
           R == PagesUpTo(prog, n)
           K == SlotsOfProgram(prog)
           m2 == release_mm(m1, p)
<1>1. p \in Procs /\ A \subseteq Pages
  <2>1. p \in Procs BY DEF Procs
  <2>2. QED BY <2>1, MineIs DEF Settled
<1> HIDE DEF A
<1>2. Loading(m1, p, A, R, K) /\ m1.mm[p].vmas = VmasOf(prog, n) BY DEF Loads, A
<1>3. Regions(m1.mm[p].vmas) /\ R \subseteq PagesOf(m1.mm[p].vmas) BY <1>2, VmasAre
<1>4. Settled(m1, p, A) BY <1>1, <1>2, <1>3, SettledIs
<1>5. Released(m1, m2, p, A) BY <1>1, <1>4, BareIs
<1> HIDE DEF m2
<1>6. Settled(m2, p, A) /\ Seen(m2, p) = Empty /\ m2.mm[p] = NoMm
  BY <1>1, <1>5, ReleasedSettled DEF Released
<1>7. Only(mem, m2, p, A)
  <2>1. Only(mem, m1, p, A) BY DEF Loads, A
  <2>2. QED BY <2>1, <1>5, OnlyTrans DEF Released
<1>8. QED BY <1>6, <1>7, ProcStepIs DEF m2, A

\* do_fork, once the child has its kernel stack.
LEMMA CopyMmIs ==
  ASSUME NEW mem, Sound(mem), NEW p \in Users, NEW c \in Users, p # c,
         mem.mm[p] # NoMm, mem.mm[c] = NoMm,
         Cardinality(mem.free) >= Cardinality(Own(mem.mm[p]))
  PROVE  LET m2 == copy_mm(mem, p, c) IN OnItsOwn(mem, m2, c) /\ Seen(m2, c) = Seen(mem, p)
<1> DEFINE A == mem.free \cup SpaceOf(mem, c)
           s == mem.mm[p]
           R == DOMAIN s.pte
           K == Slots(s)
           b == new_mm(mem, c)
           d == dup_mmap(b, p, c)
<1>1. p \in Procs /\ c \in Procs BY DEF Procs
<1>2. Settled(mem, c, A) /\ A \subseteq Pages /\ A = mem.free
  <2>1. Settled(mem, c, A) BY <1>1, MineIs
  <2>2. QED BY <2>1 DEF Settled, SpaceOf
<1>3. GoodSpace(s) /\ Own(s) \subseteq Pages /\ mem.free \cap Own(s) = {} /\ ~mem.check
      /\ mem \in Memories
  BY <1>1 DEF Sound, Parts, SpaceOf
<1>4. s \in Spaces BY <1>1, <1>3 DEF Memories
<1>5. R \subseteq Nat BY <1>4, MapsIs DEF Spaces
<1>6. IsFiniteSet(K) /\ Cardinality(K) = Cardinality(Own(s)) /\ Cardinality(K) >= 1
      /\ Cardinality(K) \in Nat /\ IsFiniteSet(A) /\ <<0, 0>> \in K
  <2>1. IsFiniteSet(K) /\ Cardinality(K) = Cardinality(Own(s)) BY <1>3, SpaceCount DEF GoodSpace
  <2>2. <<0, 0>> \in K BY DEF Slots
  <2>3. Cardinality({}) = 0 BY FS_EmptySet
  <2>4. IsFiniteSet(Pages) BY Constants, FS_Interval DEF Pages
  <2>5. IsFiniteSet(A) BY <1>2, <2>4, FS_Subset
  <2> HIDE DEF K
  <2>6. Cardinality(K) \in Nat /\ Cardinality(K) # 0
    BY <2>1, <2>2, <2>3, FS_CardinalityType, FS_EmptySet
  <2>7. QED BY <2>1, <2>2, <2>5, <2>6
<1>7. Cardinality(K) <= Cardinality(A) /\ A # {}
  <2>1. Cardinality({}) = 0 BY FS_EmptySet
  <2>2. Cardinality(A) \in Nat BY <1>6, FS_CardinalityType
  <2> HIDE DEF K, A, s
  <2>3. Cardinality(K) <= Cardinality(A) BY <1>2, <1>6, <2>2 DEF s
  <2>4. QED BY <1>6, <2>1, <2>2, <2>3
<1> HIDE DEF A
<1>8. NewSpace(mem, b, c, A) BY <1>1, <1>2, <1>7, NewSpaceIs
<1>9. Shape(s, PagesOf(s.vmas)) /\ Regions(s.vmas) BY <1>3 DEF GoodSpace
<1>10. Parent(mem, p, c, A)
  <2>1. ASSUME NEW la \in R PROVE s.pte[la].v /\ s.pte[la].at \in Pages \ A
    <3>1. <<3, la>> \in K BY DEF Slots
    <3>2. PageAt(s, <<3, la>>) = s.pte[la].at BY DEF PageAt
    <3>3. s.pte[la].at \in Own(s) BY <3>1, <3>2 DEF Own
    <3>4. QED BY <1>2, <1>3, <1>9, <3>3 DEF Shape
  <2>2. QED BY <1>1, <2>1 DEF Parent
<1> HIDE DEF b, K, s
<1>11. Parent(b, p, c, A) /\ b.mm[p] = s /\ Seen(b, p) = Seen(mem, p)
  BY <1>8, <1>10, ParentStays DEF NewSpace, s
<1> DEFINE e == b.mm[c]
<1>12. DOMAIN e.pte = {} /\ Slots(e) = {<<0, 0>>} /\ Shape(e, R)
  <2>1. Kept(b, c, A) /\ e = NewMm(e.pgdir) BY <1>8 DEF NewSpace
  <2>2. e.pgdir \in Pages BY <2>1 DEF Kept
  <2> DEFINE x == e.pgdir
  <2>3. NewMm(x).pte = Empty /\ Slots(NewMm(x)) = {<<0, 0>>} /\ Shape(NewMm(x), R)
    BY <2>2, NewMmIs
  <2> HIDE DEF e, R
  <2>4. QED BY <2>1, <2>3, EmptyIs DEF e
<1>13. Loading(b, c, A, R, K)
  <2>1. ASSUME NEW la \in R PROVE NewSlots(la) \subseteq K
    <3>1. la \div PTSIZE \in DOMAIN s.pde0 /\ DirOf(la \div PTSIZE) \in DOMAIN s.pde1
      BY <1>9 DEF Shape
    <3>2. la \div PDSIZE \in DOMAIN s.pde1 BY <1>5, <3>1, Division
    <3>3. QED BY <3>1, <3>2 DEF NewSlots, K, Slots
  <2>2. Only(b, b, c, A) BY DEF Only
  <2>3. Room(e, K, A) BY <1>6, <1>7, <1>12 DEF Room
  <2>4. ~b.check BY <1>3, <1>8 DEF NewSpace, Only
  <2> HIDE DEF R
  <2>5. QED BY <1>1, <1>5, <1>8, <1>12, <2>1, <2>2, <2>3, <2>4 DEF Loading, Grown, NewSpace
<1> HIDE DEF e
<1>14. R \subseteq PagesOf(s.vmas) BY <1>9 DEF Shape
<1>15. /\ Loading(d, c, A, R, K) /\ Only(b, d, c, A) /\ Seen(d, c) = Seen(b, p)
       /\ d.mm[c].vmas = s.vmas
  <2>1. DOMAIN b.mm[c].pte = {} BY <1>12 DEF e
  <2>2. Loading(b, c, A, DOMAIN b.mm[p].pte, K) BY <1>11, <1>13
  <2>3. Regions(b.mm[p].vmas) /\ DOMAIN b.mm[p].pte \subseteq PagesOf(b.mm[p].vmas)
    BY <1>9, <1>11, <1>14
  <2>4. QED BY <1>11, <2>1, <2>2, <2>3, DupIs
<1> HIDE DEF d, R
<1>16. Settled(d, c, A) /\ d.mm[c] # NoMm /\ d.mm[c].pgdir \in Pages
  BY <1>2, <1>9, <1>14, <1>15, SettledIs
<1>17. Only(mem, d, c, A)
  <2>1. Only(mem, b, c, A) BY <1>8 DEF NewSpace
  <2>2. QED BY <2>1, <1>15, OnlyTrans
<1> DEFINE m2 == SetCr3(d, c, d.mm[c].pgdir)
<1>18. OnItsOwn(mem, m2, c) /\ Seen(m2, c) = Seen(d, c) BY <1>16, <1>17, OnItsOwnIs DEF A
<1>19. copy_mm(mem, p, c) = m2 BY DEF copy_mm, SetCr3, d, b
<1> HIDE DEF m2
<1>20. QED BY <1>11, <1>15, <1>18, <1>19

\* A page fault takes three pages at most.
LEMMA RoomForThree ==
  ASSUME NEW S, IsFiniteSet(S), NEW F, IsFiniteSet(F), NEW O, IsFiniteSet(O), O \cap F = {},
         Cardinality(S) = Cardinality(O), Cardinality(F) >= 3, NEW la
  PROVE  /\ IsFiniteSet(S \cup NewSlots(la))
         /\ Cardinality(S \cup NewSlots(la)) <= Cardinality(F \cup O)
<1> DEFINE S1 == S \cup {<<1, la \div PDSIZE>>}
           S2 == S1 \cup {<<2, la \div PTSIZE>>}
           S3 == S2 \cup {<<3, la>>}
<1>1. IsFiniteSet(S1) /\ Cardinality(S1) <= Cardinality(S) + 1 /\ Cardinality(S1) \in Nat
      /\ Cardinality(S) \in Nat
  <2>1. Cardinality(S) \in Nat BY FS_CardinalityType
  <2>2. IsFiniteSet(S1)
        /\ (Cardinality(S1) = Cardinality(S) \/ Cardinality(S1) = Cardinality(S) + 1)
    BY FS_AddElement
  <2>3. QED BY <2>1, <2>2
<1> HIDE DEF S1
<1>2. IsFiniteSet(S2) /\ Cardinality(S2) <= Cardinality(S1) + 1 /\ Cardinality(S2) \in Nat
  <2>1. IsFiniteSet(S2)
        /\ (Cardinality(S2) = Cardinality(S1) \/ Cardinality(S2) = Cardinality(S1) + 1)
    BY <1>1, FS_AddElement
  <2>2. QED BY <1>1, <2>1
<1> HIDE DEF S2
<1>3. IsFiniteSet(S3) /\ Cardinality(S3) <= Cardinality(S2) + 1 /\ Cardinality(S3) \in Nat
  <2>1. IsFiniteSet(S3)
        /\ (Cardinality(S3) = Cardinality(S2) \/ Cardinality(S3) = Cardinality(S2) + 1)
    BY <1>2, FS_AddElement
  <2>2. QED BY <1>2, <2>1
<1>4. S3 = S \cup NewSlots(la) BY DEF S2, S1, NewSlots
<1>5. Cardinality(F \cup O) = Cardinality(F) + Cardinality(O) BY DisjointCount
<1>6. Cardinality(F) \in Nat /\ Cardinality(O) \in Nat BY FS_CardinalityType
<1> HIDE DEF S3
<1>7. QED BY <1>1, <1>2, <1>3, <1>4, <1>5, <1>6

\* pgfault_new, after check_swap.
LEMMA TouchIs ==
  ASSUME NEW mem, Sound(mem), NEW p \in Users, mem.mm[p] # NoMm,
         NEW la \in PagesOf(mem.mm[p].vmas), la \notin DOMAIN mem.mm[p].pte,
         Cardinality(mem.free) >= 3, NEW c \in Values
  PROVE  LET m2 == pgdir_alloc_page(get_pte(mem, p, la), p, la, c) IN
         /\ ProcStep(mem, m2, p) /\ m2.cr3 = mem.cr3
         /\ m2.mm[p] # NoMm /\ m2.mm[p].pgdir = mem.mm[p].pgdir
         /\ Seen(m2, p) = Put(Seen(mem, p), la, c)
<1> DEFINE A == mem.free \cup SpaceOf(mem, p)
           s == mem.mm[p]
           R == PagesOf(s.vmas)
           K == Slots(s) \cup NewSlots(la)
           m1 == get_pte(mem, p, la)
           m2 == pgdir_alloc_page(m1, p, la, c)
<1>1. p \in Procs BY DEF Procs
<1>2. Kept(mem, p, A) /\ GoodSpace(s) /\ A \subseteq Pages /\ A = mem.free \cup Own(s)
      /\ mem.free \cap Own(s) = {} /\ Own(s) \subseteq Pages /\ mem.free \subseteq Pages
      /\ ~mem.check
  <2>1. Kept(mem, p, A) /\ GoodSpace(s) /\ A \subseteq Pages BY <1>1, MineIs DEF Settled
  <2>2. A = mem.free \cup Own(s) BY DEF SpaceOf
  <2>3. mem.free \cap Own(s) = {} BY <2>1 DEF Kept
  <2>4. QED BY <2>1, <2>2, <2>3 DEF Sound
<1>3. R \subseteq Nat BY <1>2, RegionsAre, Constants DEF GoodSpace
<1>4. IsFiniteSet(Slots(s)) /\ IsFiniteSet(Own(s)) /\ Cardinality(Slots(s)) = Cardinality(Own(s))
  BY <1>2, SpaceCount DEF GoodSpace
<1>5. IsFiniteSet(mem.free)
  <2>1. IsFiniteSet(Pages) BY Constants, FS_Interval DEF Pages
  <2>2. QED BY <1>2, <2>1, FS_Subset
<1>6. Room(s, K, A)
  <2>1. IsFiniteSet(K) /\ Cardinality(K) <= Cardinality(mem.free \cup Own(s))
    BY <1>2, <1>4, <1>5, RoomForThree
  <2>2. QED BY <1>2, <2>1 DEF Room
<1>7. Shape(s, R) BY <1>2 DEF GoodSpace
<1>8. NewSlots(la) \subseteq K OBVIOUS
<1> HIDE DEF A, K
<1>9. Wanted(mem, p, A, R, K, la) BY <1>1, <1>2, <1>3, <1>6, <1>7, <1>8 DEF Wanted, NewSlots
<1>10. Got(mem, m1, p, A, R, la) BY <1>9, GetPteIs
<1> HIDE DEF m1
<1>11. Missing(m1, p, A, R, K, la)
  <2>1. Slots(m1.mm[p]) \subseteq K BY <1>10, <1>8 DEF Got, NewSlots, K
  <2>2. Room(m1.mm[p], K, A) BY <1>6, <2>1 DEF Room
  <2>3. la \notin DOMAIN m1.mm[p].pte /\ ~m1.check BY <1>2, <1>10 DEF Got, Only
  <2>4. Wanted(m1, p, A, R, K, la) BY <1>9, <1>10, <2>2 DEF Got, Wanted
  <2>5. QED BY <1>8, <2>3, <2>4 DEF Missing, NewSlots
<1>12. Added(m1, m2, p, A, R, la, c) BY <1>11, PgdirAllocIs
<1> HIDE DEF m2
<1>13. m2.mm[p].pgdir = s.pgdir /\ m2.mm[p].vmas = s.vmas BY <1>10, <1>12 DEF Got, Added
<1>14. Kept(m2, p, A) /\ Shape(m2.mm[p], R) BY <1>12 DEF Added
<1>15. s.pgdir \in Pages /\ NoMm.pgdir \notin Pages
  BY <1>2, Constants DEF GoodSpace, NoMm, NewMm
<1>16. GoodSpace(m2.mm[p]) /\ m2.mm[p] # NoMm
  BY <1>2, <1>13, <1>14, <1>15 DEF GoodSpace, Kept
<1>17. Settled(m2, p, A) BY <1>2, <1>14, <1>16 DEF Settled, Kept
<1>18. Only(mem, m2, p, A) BY <1>10, <1>12, OnlyTrans DEF Got, Added
<1>19. Seen(m1, p) = Seen(mem, p)
  <2>1. m1.mm[p].pte = mem.mm[p].pte /\ m1.content = mem.content /\ m1.swap = mem.swap
    BY <1>10 DEF Got, Only
  <2>2. QED BY <2>1 DEF Seen
<1>20. Seen(m2, p) = Put(Seen(mem, p), la, c) BY <1>12, <1>19 DEF Added
<1>21. ProcStep(mem, m2, p) /\ m2.cr3 = mem.cr3 BY <1>17, <1>18, ProcStepIs DEF A
<1>22. QED BY <1>13, <1>16, <1>20, <1>21 DEF m2, m1

\* write.
Written(mem, p, la, c) == [mem EXCEPT !.content[mem.mm[p].pte[la].at] = c]

LEMMA WriteIs ==
  ASSUME NEW mem, Sound(mem), NEW p \in Users, mem.mm[p] # NoMm,
         NEW la \in DOMAIN mem.mm[p].pte, NEW c \in Values
  PROVE  LET m2 == Written(mem, p, la, c) IN
         /\ ProcStep(mem, m2, p) /\ m2.cr3 = mem.cr3 /\ m2.mm = mem.mm
         /\ Seen(m2, p) = [Seen(mem, p) EXCEPT ![la] = c]
<1> DEFINE A == mem.free \cup SpaceOf(mem, p)
           s == mem.mm[p]
           x == s.pte[la].at
           c2 == [mem.content EXCEPT ![x] = c]
           m2 == Written(mem, p, la, c)
<1>1. p \in Procs BY DEF Procs
<1>2. Kept(mem, p, A) /\ GoodSpace(s) /\ A \subseteq Pages BY <1>1, MineIs DEF Settled
<1>3. \A a \in DOMAIN s.pte :
        s.pte[a].v /\ s.pte[a].at \in Own(s) /\ (s.pte[a].at = x => a = la)
  <2>1. ASSUME NEW a \in DOMAIN s.pte
        PROVE  s.pte[a].v /\ s.pte[a].at \in Own(s) /\ (s.pte[a].at = x => a = la)
    <3>1. <<3, a>> \in Slots(s) /\ <<3, la>> \in Slots(s) BY DEF Slots
    <3>2. PageAt(s, <<3, a>>) = s.pte[a].at /\ PageAt(s, <<3, la>>) = x BY DEF PageAt
    <3>3. s.pte[a].at \in Own(s) BY <3>1, <3>2 DEF Own
    <3>4. s.pte[a].at = x => <<3, a>> = <<3, la>> BY <1>2, <3>1, <3>2 DEF GoodSpace, Injective
    <3>5. s.pte[a].v BY <1>2 DEF GoodSpace, Shape
    <3>6. QED BY <3>3, <3>4, <3>5
  <2>2. QED BY <2>1
<1>4. x \in A /\ x \in Pages /\ mem \in Memories BY <1>2, <1>3 DEF SpaceOf, Kept
<1>5. c2 \in [Pages -> Values] /\ \A y \in Pages : c2[y] = IF y = x THEN c ELSE mem.content[y]
  BY <1>4 DEF Memories
<1>6. m2 = [mem EXCEPT !.content = c2] BY <1>4 DEF Written, Memories
<1> HIDE DEF m2, c2
<1>7. /\ m2 \in Memories /\ m2.free = mem.free /\ m2.mm = mem.mm /\ m2.ref = mem.ref
      /\ m2.kstack = mem.kstack /\ m2.cr3 = mem.cr3 /\ m2.check = mem.check
      /\ m2.pra = mem.pra /\ m2.swap = mem.swap /\ m2.content = c2
  BY <1>4, <1>5, <1>6 DEF Memories
<1> HIDE DEF A
<1>8. Kept(m2, p, A) BY <1>2, <1>7 DEF Kept
<1>9. Settled(m2, p, A) BY <1>2, <1>7, <1>8 DEF Settled
<1>10. Only(mem, m2, p, A) BY <1>4, <1>5, <1>7 DEF Only
<1>11. Seen(m2, p) = [Seen(mem, p) EXCEPT ![la] = c]
  <2>1. \A a \in DOMAIN s.pte : s.pte[a].at \in Pages BY <1>2, <1>3 DEF Kept
  <2>2. Seen(mem, p) = [a \in DOMAIN s.pte |-> mem.content[s.pte[a].at]] BY <1>3 DEF Seen
  <2>3. Seen(m2, p) = [a \in DOMAIN s.pte |-> c2[s.pte[a].at]] BY <1>3, <1>7 DEF Seen
  <2> HIDE DEF s
  <2>4. \A a \in DOMAIN s.pte : c2[s.pte[a].at] = IF a = la THEN c ELSE mem.content[s.pte[a].at]
    BY <1>3, <1>5, <2>1
  <2>5. QED BY <2>2, <2>3, <2>4
<1>12. ProcStep(mem, m2, p) /\ m2.cr3 = mem.cr3 BY <1>9, <1>10, ProcStepIs DEF A
<1>13. QED BY <1>7, <1>11, <1>12 DEF m2

-----------------------------------------------------------------------------
(***************************************************************************)
(* check_swap: CheckRp frames for up to CheckVp pages, all of them below   *)
(* one table.  X are the frames that a call has taken and not mapped yet.  *)
(***************************************************************************)
CheckFrames == 2 .. CheckRp + 1
Mapped(pte) == {la \in DOMAIN pte : pte[la].v}

Frames(pte, free, ref, X) ==
  /\ free \subseteq CheckFrames /\ X \subseteq CheckFrames /\ free \cap X = {}
  /\ \A la \in Mapped(pte) : pte[la].at \in CheckFrames \ (free \cup X)
  /\ \A a, b \in Mapped(pte) : pte[a].at = pte[b].at => a = b
  /\ \A x \in CheckFrames : x \in free \cup X \/ \E la \in Mapped(pte) : x = pte[la].at
  /\ \A x \in Pages : ref[x] = IF x \in {0, 1} \cup (CheckFrames \ (free \cup X)) THEN 1 ELSE 0

\* The queue has the mapped pages, each once.
Queue(pte, pra) ==
  /\ \A i \in 1 .. Len(pra) : pra[i].vaddr \in Mapped(pte) /\ pra[i].page = pte[pra[i].vaddr].at
  /\ \A i, j \in 1 .. Len(pra) : pra[i].vaddr = pra[j].vaddr => i = j
  /\ \A la \in Mapped(pte) : \E i \in 1 .. Len(pra) : pra[i].vaddr = la

OnDevice(pte, swap) ==
  \A la \in DOMAIN pte \ Mapped(pte) : pte[la] = SwapEntry(la) /\ la + 1 \in DOMAIN swap

CheckSpace(s) ==
  /\ s.pgdir = Boot /\ s.vmas = <<CheckVma>>
  /\ s.pde1 = Put(Empty, 0, 0) /\ s.pde0 = Put(Empty, 0, 1)
  /\ DOMAIN s.pte \subseteq 0 .. CheckVp - 1

Checking(mem, X) ==
  LET s == mem.mm[Check] IN
  /\ mem \in Memories /\ mem.check
  /\ \A p \in Users : mem.mm[p] = NoMm /\ mem.kstack[p] = None
  /\ CheckSpace(s) /\ Frames(s.pte, mem.free, mem.ref, X)
  /\ Queue(s.pte, mem.pra) /\ OnDevice(s.pte, mem.swap)

Orders == [page : Pages, vaddr : Vas]

LEMMA QueueOut ==
  ASSUME NEW pte, NEW pra \in Seq(Orders), pra # <<>>, Queue(pte, pra), NEW pte2,
         pte2 = [pte EXCEPT ![Head(pra).vaddr] = SwapEntry(Head(pra).vaddr)]
  PROVE  /\ Head(pra) \in Orders /\ Head(pra).vaddr \in Mapped(pte)
         /\ Head(pra).page = pte[Head(pra).vaddr].at
         /\ Mapped(pte2) = Mapped(pte) \ {Head(pra).vaddr}
         /\ Queue(pte2, Tail(pra)) /\ Tail(pra) \in Seq(Orders)
<1> DEFINE h == Head(pra)
           t == Tail(pra)
<1>1. Len(pra) \in Nat /\ Len(pra) >= 1 /\ h = pra[1] /\ h \in Orders /\ t \in Seq(Orders)
  OBVIOUS
<1>2. Len(t) = Len(pra) - 1 /\ \A i \in 1 .. Len(pra) - 1 : t[i] = pra[i + 1]
  OBVIOUS
<1>3. h.vaddr \in Mapped(pte) /\ h.page = pte[h.vaddr].at BY <1>1 DEF Queue
<1>4. Mapped(pte2) = Mapped(pte) \ {h.vaddr}
  BY <1>3 DEF Mapped, SwapEntry
<1>5. \A la \in Mapped(pte2) : pte2[la] = pte[la]
  BY <1>3, <1>4 DEF Mapped
<1> HIDE DEF t, h
<1>6. \A i \in 1 .. Len(t) : i + 1 \in 1 .. Len(pra) /\ t[i] = pra[i + 1] /\ i + 1 # 1
  BY <1>1, <1>2
<1>7. \A i \in 1 .. Len(t) : t[i].vaddr \in Mapped(pte2) /\ t[i].page = pte2[t[i].vaddr].at
  <2>1. ASSUME NEW i \in 1 .. Len(t)
        PROVE  t[i].vaddr \in Mapped(pte2) /\ t[i].page = pte2[t[i].vaddr].at
    <3>1. i + 1 \in 1 .. Len(pra) /\ t[i] = pra[i + 1] /\ i + 1 # 1 /\ 1 \in 1 .. Len(pra)
      BY <1>1, <1>6
    <3>2. t[i].vaddr # h.vaddr BY <1>1, <3>1 DEF Queue
    <3>3. t[i].vaddr \in Mapped(pte) /\ t[i].page = pte[t[i].vaddr].at BY <3>1 DEF Queue
    <3>4. QED BY <1>4, <1>5, <3>2, <3>3
  <2>2. QED BY <2>1
<1>8. \A i, j \in 1 .. Len(t) : t[i].vaddr = t[j].vaddr => i = j
  <2>1. ASSUME NEW i \in 1 .. Len(t), NEW j \in 1 .. Len(t), t[i].vaddr = t[j].vaddr
        PROVE  i = j
    <3>1. i + 1 = j + 1 BY <1>6, <2>1 DEF Queue
    <3>2. QED BY <1>1, <1>2, <3>1
  <2>2. QED BY <2>1
<1>9. \A la \in Mapped(pte2) : \E i \in 1 .. Len(t) : t[i].vaddr = la
  <2>1. ASSUME NEW la \in Mapped(pte2) PROVE \E i \in 1 .. Len(t) : t[i].vaddr = la
    <3>1. PICK i \in 1 .. Len(pra) : pra[i].vaddr = la BY <1>4 DEF Queue
    <3>2. i # 1 BY <1>1, <1>4, <3>1
    <3>3. i - 1 \in 1 .. Len(t) /\ t[i - 1] = pra[i - 1 + 1] /\ i - 1 + 1 = i
      BY <1>1, <1>2, <3>2
    <3>4. QED BY <3>1, <3>3
  <2>2. QED BY <2>1
<1>10. QED BY <1>1, <1>3, <1>4, <1>7, <1>8, <1>9 DEF Queue, h, t

\* The frame x is mapped at la and queued.
Queued(pte, pra, la, x, pte2, pra2) ==
  /\ pra \in Seq(Orders) /\ Queue(pte, pra) /\ la \in Vas /\ la \notin Mapped(pte) /\ x \in Pages
  /\ pte2 = Put(pte, la, Valid(x)) /\ pra2 = Append(pra, [page |-> x, vaddr |-> la])

LEMMA QueueIn ==
  ASSUME NEW pte, NEW pra, NEW la, NEW x, NEW pte2, NEW pra2, Queued(pte, pra, la, x, pte2, pra2)
  PROVE  /\ Mapped(pte2) = Mapped(pte) \cup {la}
         /\ Queue(pte2, pra2) /\ pra2 \in Seq(Orders)
<1> DEFINE e == [page |-> x, vaddr |-> la]
           n == Len(pra)
<1>0. /\ pra \in Seq(Orders) /\ Queue(pte, pra) /\ la \in Vas /\ la \notin Mapped(pte)
      /\ x \in Pages /\ pte2 = Put(pte, la, Valid(x)) /\ pra2 = Append(pra, e)
  BY DEF Queued
<1>1. e \in Orders /\ e.page = x /\ e.vaddr = la BY <1>0 DEF Orders
<1> HIDE DEF e
<1>2. n \in Nat /\ pra2 \in Seq(Orders) /\ Len(pra2) = n + 1 /\ pra2[n + 1] = e
      /\ \A i \in 1 .. n : pra2[i] = pra[i]
  BY <1>0, <1>1 DEF e
<1>3. /\ pte2[la] = Valid(x) /\ la \in Mapped(pte2) /\ Mapped(pte2) = Mapped(pte) \cup {la}
      /\ \A a \in Mapped(pte) : pte2[a] = pte[a]
  <2>1. DOMAIN pte2 = DOMAIN pte \cup {la} /\ pte2[la] = Valid(x)
        /\ \A z \in DOMAIN pte : z # la => pte2[z] = pte[z]
    <3> DEFINE y == Valid(x)
    <3>1. pte2 = Put(pte, la, y) BY <1>0
    <3> HIDE DEF y
    <3>2. DOMAIN pte2 = DOMAIN pte \cup {la} BY <3>1 DEF Put
    <3>3. pte2[la] = y /\ \A z \in DOMAIN pte : z # la => pte2[z] = pte[z] BY <3>1 DEF Put
    <3>4. QED BY <3>2, <3>3 DEF y
  <2>2. Valid(x).v /\ Valid(x).at = x BY DEF Valid
  <2>3. \A a \in Mapped(pte) : pte2[a] = pte[a] BY <1>0, <2>1 DEF Mapped
  <2>4. la \in Mapped(pte2) BY <2>1, <2>2 DEF Mapped
  <2>5. \A a : a \in Mapped(pte2) <=> a \in Mapped(pte) \/ a = la
    BY <1>0, <2>1, <2>3, <2>4 DEF Mapped
  <2>6. QED BY <2>1, <2>3, <2>4, <2>5
<1>4. Valid(x).at = x BY DEF Valid
<1> HIDE DEF n
<1>5. \A i \in 1 .. Len(pra2) :
        pra2[i].vaddr \in Mapped(pte2) /\ pra2[i].page = pte2[pra2[i].vaddr].at
  <2>1. ASSUME NEW i \in 1 .. Len(pra2)
        PROVE  pra2[i].vaddr \in Mapped(pte2) /\ pra2[i].page = pte2[pra2[i].vaddr].at
    <3>1. i \in 1 .. n \/ i = n + 1 BY <1>2
    <3>2. CASE i = n + 1 BY <1>1, <1>2, <1>3, <1>4, <3>2
    <3>3. CASE i \in 1 .. n BY <1>0, <1>2, <1>3, <3>3 DEF Queue, n
    <3>4. QED BY <3>1, <3>2, <3>3
  <2>2. QED BY <2>1
<1>6. \A i, j \in 1 .. Len(pra2) : pra2[i].vaddr = pra2[j].vaddr => i = j
  <2>1. ASSUME NEW i \in 1 .. Len(pra2), NEW j \in 1 .. Len(pra2), pra2[i].vaddr = pra2[j].vaddr
        PROVE  i = j
    <3>1. (i \in 1 .. n \/ i = n + 1) /\ (j \in 1 .. n \/ j = n + 1) BY <1>2
    <3>2. \A k \in 1 .. n : pra2[k].vaddr # la BY <1>0, <1>2 DEF Queue, n
    <3>3. pra2[n + 1].vaddr = la BY <1>1, <1>2
    <3>4. CASE i = n + 1 BY <2>1, <3>1, <3>2, <3>3, <3>4
    <3>5. CASE j = n + 1 BY <2>1, <3>1, <3>2, <3>3, <3>5
    <3>6. CASE i \in 1 .. n /\ j \in 1 .. n BY <1>0, <1>2, <2>1, <3>6 DEF Queue, n
    <3>7. QED BY <3>1, <3>4, <3>5, <3>6
  <2>2. QED BY <2>1
<1>7. \A a \in Mapped(pte2) : \E i \in 1 .. Len(pra2) : pra2[i].vaddr = a
  <2>1. ASSUME NEW a \in Mapped(pte2) PROVE \E i \in 1 .. Len(pra2) : pra2[i].vaddr = a
    <3>1. CASE a = la
      <4>1. n + 1 \in 1 .. Len(pra2) BY <1>2
      <4>2. QED BY <1>1, <1>2, <3>1, <4>1
    <3>2. CASE a \in Mapped(pte)
      <4>1. PICK i \in 1 .. n : pra[i].vaddr = a BY <1>0, <3>2 DEF Queue, n
      <4>2. i \in 1 .. Len(pra2) BY <1>2
      <4>3. QED BY <1>2, <4>1, <4>2
    <3>3. QED BY <1>3, <3>1, <3>2
  <2>2. QED BY <2>1
<1>8. QED BY <1>2, <1>3, <1>5, <1>6, <1>7 DEF Queue

CheckMem(mem, free, ref, content, pte, pra, swap) ==
  [mem EXCEPT !.free = free, !.ref = ref, !.content = content,
              !.mm[Check].pte = pte, !.pra = pra, !.swap = swap]

\* m2 is mem but for the parts given, of which pte belongs to Check.
HasParts(mem, m2, free, ref, content, pte, pra, swap) ==
  LET s == mem.mm[Check]
      s2 == m2.mm[Check]
  IN
  /\ m2 \in Memories /\ m2.free = free /\ m2.ref = ref /\ m2.content = content
  /\ m2.pra = pra /\ m2.swap = swap /\ m2.check = mem.check /\ m2.kstack = mem.kstack
  /\ \A q \in Procs \ {Check} : m2.mm[q] = mem.mm[q]
  /\ s2.pte = pte /\ s2.pgdir = s.pgdir /\ s2.vmas = s.vmas
  /\ s2.pde1 = s.pde1 /\ s2.pde0 = s.pde0

LEMMA CheckMemIs ==
  ASSUME NEW mem \in Memories, NEW free \in SUBSET Pages, NEW ref \in [Pages -> Int],
         NEW content \in [Pages -> Values], NEW pte \in Maps(Entries), NEW pra \in Seq(Orders),
         NEW swap \in Maps(Values)
  PROVE  HasParts(mem, CheckMem(mem, free, ref, content, pte, pra, swap),
                  free, ref, content, pte, pra, swap)
<1> DEFINE s == mem.mm[Check]
           t == [s EXCEPT !.pte = pte]
           mm2 == [mem.mm EXCEPT ![Check] = t]
           m2 == CheckMem(mem, free, ref, content, pte, pra, swap)
<1>1. Check \in Procs /\ s \in Spaces /\ mem.mm \in [Procs -> Spaces] BY DEF Procs, Memories
<1>2. t \in Spaces /\ t.pte = pte /\ t.pgdir = s.pgdir /\ t.vmas = s.vmas
      /\ t.pde1 = s.pde1 /\ t.pde0 = s.pde0
  <2> HIDE DEF s
  <2>1. QED BY <1>1 DEF Spaces
<1> HIDE DEF t
<1>3. mm2 \in [Procs -> Spaces] /\ mm2[Check] = t /\ \A q \in Procs \ {Check} : mm2[q] = mem.mm[q]
  <2> HIDE DEF s
  <2> QED BY <1>1, <1>2
<1>4. m2 = [mem EXCEPT !.free = free, !.ref = ref, !.content = content, !.mm = mm2,
                       !.pra = pra, !.swap = swap]
  BY DEF CheckMem, Memories, t
<1> HIDE DEF mm2, m2, s
<1>5. /\ m2 \in Memories /\ m2.free = free /\ m2.ref = ref /\ m2.content = content /\ m2.mm = mm2
      /\ m2.pra = pra /\ m2.swap = swap /\ m2.check = mem.check /\ m2.kstack = mem.kstack
  BY <1>3, <1>4 DEF Memories, Orders
<1>6. QED BY <1>2, <1>3, <1>5 DEF HasParts, m2, s

\* What has been said about Check is all there is to say.
LEMMA CheckingIs ==
  ASSUME NEW mem, NEW X, Checking(mem, X),
         NEW free \in SUBSET Pages, NEW ref \in [Pages -> Int],
         NEW content \in [Pages -> Values], NEW pte \in Maps(Entries), NEW pra \in Seq(Orders),
         NEW swap \in Maps(Values), NEW Y,
         DOMAIN pte \subseteq 0 .. CheckVp - 1, Frames(pte, free, ref, Y),
         Queue(pte, pra), OnDevice(pte, swap)
  PROVE  Checking(CheckMem(mem, free, ref, content, pte, pra, swap), Y)
<1> DEFINE m2 == CheckMem(mem, free, ref, content, pte, pra, swap)
           s == mem.mm[Check]
           s2 == m2.mm[Check]
<1>1. mem \in Memories BY DEF Checking
<1>0. HasParts(mem, m2, free, ref, content, pte, pra, swap) BY <1>1, CheckMemIs
<1> HIDE DEF m2
<1>2. /\ m2 \in Memories /\ m2.free = free /\ m2.ref = ref
      /\ m2.pra = pra /\ m2.swap = swap /\ m2.check = mem.check /\ m2.kstack = mem.kstack
      /\ \A q \in Procs \ {Check} : m2.mm[q] = mem.mm[q]
      /\ s2.pte = pte /\ s2.pgdir = s.pgdir /\ s2.vmas = s.vmas
      /\ s2.pde1 = s.pde1 /\ s2.pde0 = s.pde0
  BY <1>0 DEF HasParts
<1>3. CheckSpace(s) /\ mem.check /\ \A p \in Users : mem.mm[p] = NoMm /\ mem.kstack[p] = None
  BY DEF Checking
<1>4. CheckSpace(s2) BY <1>2, <1>3 DEF CheckSpace
<1>5. \A p \in Users : p \in Procs \ {Check} BY Constants DEF Procs
<1>6. \A p \in Users : m2.mm[p] = NoMm /\ m2.kstack[p] = None BY <1>2, <1>3, <1>5
<1>7. QED BY <1>2, <1>3, <1>4, <1>6 DEF Checking, m2

LEMMA CheckNumbers ==
  /\ CheckFrames \subseteq Pages /\ CheckFrames # {} /\ 0 \notin CheckFrames /\ 1 \notin CheckFrames
  /\ 0 \in Pages /\ 1 \in Pages
  /\ \A la \in 0 .. CheckVp - 1 : la \in Nat /\ la \div PTSIZE = 0 /\ la \div PDSIZE = 0
<1>1. 2 \in CheckFrames BY Constants DEF CheckFrames
<1>2. CheckFrames \subseteq Pages /\ 0 \notin CheckFrames /\ 1 \notin CheckFrames
      /\ 0 \in Pages /\ 1 \in Pages
  BY Constants DEF CheckFrames, Pages
<1>3. PDSIZE >= PTSIZE
  <2>1. PDSIZE = PTSIZE * (PDSIZE \div PTSIZE) /\ PDSIZE \div PTSIZE \in Nat
    BY Constants, Quotient
  <2>2. PDSIZE \div PTSIZE # 0 BY <2>1, Constants
  <2> DEFINE k == PDSIZE \div PTSIZE
  <2>3. k \in Nat /\ k >= 1 /\ PDSIZE = PTSIZE * k BY <2>1, <2>2
  <2> HIDE DEF k
  <2>4. QED BY <2>3, Constants
<1>4. ASSUME NEW la \in 0 .. CheckVp - 1
      PROVE  la \in Nat /\ la \div PTSIZE = 0 /\ la \div PDSIZE = 0
  <2>1. la \in Nat /\ la < PTSIZE /\ la < PDSIZE BY <1>3, Constants
  <2>2. PTSIZE * 0 <= la /\ la < PTSIZE * (0 + 1) /\ PDSIZE * 0 <= la /\ la < PDSIZE * (0 + 1)
    BY <2>1, Constants
  <2>3. QED BY <2>1, <2>2, Constants, QuotientIs
<1>5. QED BY <1>1, <1>2, <1>4

\* A step of check_swap that changes neither which pages there are nor what is in them.
SameSeen(mem, m2) ==
  LET pte == mem.mm[Check].pte
      pte2 == m2.mm[Check].pte
  IN
  /\ DOMAIN pte2 = DOMAIN pte
  /\ \A la \in DOMAIN pte \ Mapped(pte) : la \notin Mapped(pte2)
  /\ Seen(m2, Check) = Seen(mem, Check)

LEMMA SwapOutIs ==
  ASSUME NEW mem, Checking(mem, {}), mem.free = {}
  PROVE  LET m2 == swap_out(mem) IN
         Checking(m2, {}) /\ m2.free # {} /\ SameSeen(mem, m2)
<1> DEFINE s == mem.mm[Check]
           pte == s.pte
           pra == mem.pra
           out == Head(pra)
           x == out.page
           v == out.vaddr
           free2 == {x}
           ref2 == [y \in Pages |-> IF y = x THEN 0 ELSE mem.ref[y]]
           con2 == [y \in Pages |-> IF y = x THEN 0 ELSE mem.content[y]]
           pte2 == [pte EXCEPT ![v] = SwapEntry(v)]
           swap2 == Put(mem.swap, v + 1, mem.content[x])
           pra2 == Tail(pra)
           m2 == CheckMem(mem, free2, ref2, con2, pte2, pra2, swap2)
<1>1. /\ mem \in Memories /\ s \in Spaces /\ CheckSpace(s) /\ Queue(pte, pra)
      /\ Frames(pte, {}, mem.ref, {}) /\ OnDevice(pte, mem.swap)
      /\ pra \in Seq(Orders) /\ pte \in Maps(Entries) /\ mem.swap \in Maps(Values)
      /\ mem.ref \in [Pages -> Int] /\ mem.content \in [Pages -> Values]
  <2>1. mem \in Memories /\ CheckSpace(s) /\ Queue(pte, pra)
        /\ Frames(pte, {}, mem.ref, {}) /\ OnDevice(pte, mem.swap)
    BY DEF Checking
  <2>2. s \in Spaces /\ pra \in Seq(Orders) /\ mem.swap \in Maps(Values)
        /\ mem.ref \in [Pages -> Int] /\ mem.content \in [Pages -> Values]
    BY <2>1 DEF Memories, Procs, Orders
  <2> HIDE DEF s
  <2>3. QED BY <2>1, <2>2 DEF Spaces
<1>2. pra # <<>>
  <2>1. PICK la \in Mapped(pte) : TRUE BY <1>1, CheckNumbers DEF Frames
  <2>2. PICK i \in 1 .. Len(pra) : pra[i].vaddr = la BY <1>1, <2>1 DEF Queue
  <2>3. QED BY <2>2
<1>3. /\ out \in Orders /\ v \in Mapped(pte) /\ x = pte[v].at
      /\ Mapped(pte2) = Mapped(pte) \ {v} /\ Queue(pte2, pra2) /\ pra2 \in Seq(Orders)
  <2> HIDE DEF pte, pra
  <2>1. QED BY <1>1, <1>2, QueueOut
<1>4. x \in CheckFrames /\ x \in Pages /\ v \in DOMAIN pte /\ v \in 0 .. CheckVp - 1 /\ v \in Nat
      /\ DOMAIN pte \subseteq 0 .. CheckVp - 1
  BY <1>1, <1>3, CheckNumbers DEF CheckSpace, Frames, Mapped
<1>5. m2 = swap_out(mem)
  <2> DEFINE r3 == [y \in Pages |-> IF y \in {x} THEN 0 ELSE mem.ref[y]]
             c3 == [y \in Pages |-> IF y \in {x} THEN 0 ELSE mem.content[y]]
             b == free_page(mem, x)
  <2>1. b = [mem EXCEPT !.free = @ \cup {x}, !.ref = r3, !.content = c3]
    BY DEF free_page, free_pages
  <2>2. r3 = ref2 /\ c3 = con2 OBVIOUS
  <2>3. swap_out(mem) = [b EXCEPT !.pra = Tail(@), !.mm[Check].pte[v] = SwapEntry(v),
                                  !.swap = Put(@, SwapEntry(v).at, mem.content[x])]
    BY DEF swap_out
  <2>4. SwapEntry(v).at = v + 1 BY DEF SwapEntry
  <2>5. mem.free \cup {x} = free2 OBVIOUS
  <2> DEFINE w == SwapEntry(v)
             con == mem.content[x]
  <2> HIDE DEF r3, c3, b, x, v, ref2, con2, free2, w, con
  <2>6. b = [mem EXCEPT !.free = free2, !.ref = ref2, !.content = con2] BY <2>1, <2>2, <2>5
  <2>7. swap_out(mem) = [b EXCEPT !.pra = Tail(@), !.mm[Check].pte[v] = w,
                                  !.swap = Put(@, w.at, con)]
    BY <2>3 DEF w, con
  <2>8. w.at = v + 1 BY <2>4 DEF w
  <2>9. /\ pra2 = Tail(mem.pra) /\ pte2 = [mem.mm[Check].pte EXCEPT ![v] = w]
        /\ swap2 = Put(mem.swap, w.at, con)
    BY <2>8 DEF w, con
  <2> HIDE DEF pra2, pte2, swap2, pte, pra, out, s
  <2>10. QED BY <1>1, <2>6, <2>7, <2>9 DEF CheckMem, Memories
<1>6. DOMAIN pte2 = DOMAIN pte /\ pte2[v] = SwapEntry(v)
      /\ \A la \in DOMAIN pte : la # v => pte2[la] = pte[la]
  <2> HIDE DEF pte, v
  <2>1. QED BY <1>4
<1>7. SwapEntry(v) \in Entries /\ ~SwapEntry(v).v /\ SwapEntry(v).at = v + 1 /\ v + 1 \in Nat
  BY <1>4 DEF SwapEntry, Entries
<1>8. pte2 \in Maps(Entries)
  <2>1. pte \in [DOMAIN pte -> Entries] /\ DOMAIN pte \subseteq Nat BY <1>1, MapsIs
  <2> HIDE DEF pte, v
  <2>2. pte2 \in [DOMAIN pte2 -> Entries] /\ DOMAIN pte2 \subseteq Nat BY <1>6, <1>7, <2>1
  <2>3. QED BY <2>2, MapsIs
<1>9. swap2 \in Maps(Values) /\ DOMAIN swap2 = DOMAIN mem.swap \cup {v + 1}
      /\ swap2[v + 1] = mem.content[x]
      /\ \A z \in DOMAIN mem.swap : z # v + 1 => swap2[z] = mem.swap[z]
  <2> DEFINE c == mem.content[x]
             w == v + 1
             f == mem.swap
  <2>1. c \in Values /\ w \in Nat /\ f \in Maps(Values) BY <1>1, <1>4, <1>7
  <2> HIDE DEF c, w, f
  <2>2. Put(f, w, c) \in Maps(Values) BY <2>1, PutIs
  <2>3. DOMAIN Put(f, w, c) = DOMAIN f \cup {w} /\ Put(f, w, c)[w] = c
        /\ \A z \in DOMAIN f : z # w => Put(f, w, c)[z] = f[z]
    BY DEF Put
  <2>4. QED BY <2>2, <2>3 DEF c, w, f
<1>10. ref2 \in [Pages -> Int] /\ \A y \in Pages : ref2[y] = IF y = x THEN 0 ELSE mem.ref[y]
  BY <1>1
<1>11. con2 \in [Pages -> Values] /\ \A y \in Pages : con2[y] = IF y = x THEN 0 ELSE mem.content[y]
  BY <1>1, Constants
<1> HIDE DEF pte2, swap2, ref2, con2, pra2, x, v, out, pte, pra
<1>12. \A la \in Mapped(pte2) : la \in Mapped(pte) /\ pte2[la] = pte[la] /\ pte[la].at # x
                               /\ pte[la].at \in Pages
  BY <1>1, <1>3, <1>6, CheckNumbers DEF Frames, Mapped
<1>13. Frames(pte2, free2, ref2, {})
  <2>1. free2 \subseteq CheckFrames BY <1>4
  <2>2. \A la \in Mapped(pte2) : pte2[la].at \in CheckFrames \ (free2 \cup {})
    BY <1>1, <1>12 DEF Frames
  <2>3. \A a, b \in Mapped(pte2) : pte2[a].at = pte2[b].at => a = b
    BY <1>1, <1>12 DEF Frames
  <2>4. ASSUME NEW y \in CheckFrames
        PROVE  y \in free2 \cup {} \/ \E la \in Mapped(pte2) : y = pte2[la].at
    <3>1. PICK la \in Mapped(pte) : y = pte[la].at BY <1>1 DEF Frames
    <3>2. CASE la = v BY <1>3, <3>1, <3>2
    <3>3. CASE la # v
      <4>1. la \in Mapped(pte2) BY <1>3, <3>3
      <4>2. QED BY <1>12, <3>1, <4>1
    <3>4. QED BY <3>2, <3>3
  <2>5. \A y \in Pages :
          ref2[y] = IF y \in {0, 1} \cup (CheckFrames \ (free2 \cup {})) THEN 1 ELSE 0
    BY <1>1, <1>4, <1>10, CheckNumbers DEF Frames
  <2>6. QED BY <2>1, <2>2, <2>3, <2>4, <2>5 DEF Frames
<1>14. OnDevice(pte2, swap2)
  BY <1>1, <1>3, <1>6, <1>9 DEF OnDevice, Mapped
<1>15. free2 \in SUBSET Pages BY <1>4
<1>16. Checking(m2, {})
  BY <1>3, <1>4, <1>6, <1>8, <1>9, <1>10, <1>11, <1>13, <1>14, <1>15, CheckingIs
<1>17. HasParts(mem, m2, free2, ref2, con2, pte2, pra2, swap2)
  BY <1>1, <1>3, <1>8, <1>9, <1>10, <1>11, <1>15, CheckMemIs
<1> HIDE DEF m2, free2
<1>18. m2.mm[Check].pte = pte2 /\ m2.free = free2 /\ m2.content = con2 /\ m2.swap = swap2
  BY <1>17 DEF HasParts
<1>19. Seen(m2, Check) = Seen(mem, Check)
  <2> DEFINE e(la) == IF pte[la].v THEN mem.content[pte[la].at] ELSE mem.swap[pte[la].at]
             e2(la) == IF pte2[la].v THEN con2[pte2[la].at] ELSE swap2[pte2[la].at]
  <2>1. ASSUME NEW la \in DOMAIN pte PROVE e2(la) = e(la)
    <3>1. CASE la = v
      <4>1. pte[la].v /\ ~pte2[la].v /\ pte2[la].at = v + 1 BY <1>3, <1>6, <1>7, <3>1 DEF Mapped
      <4>2. QED BY <1>3, <1>9, <3>1, <4>1
    <3>2. CASE la # v /\ la \in Mapped(pte)
      <4>1. la \in Mapped(pte2) BY <1>3, <3>2
      <4>2. pte2[la] = pte[la] /\ pte[la].at # x /\ pte[la].at \in Pages /\ pte[la].v
        BY <1>12, <3>2, <4>1 DEF Mapped
      <4>3. QED BY <1>11, <4>2
    <3>3. CASE la \notin Mapped(pte)
      <4>1. pte[la] = SwapEntry(la) /\ la + 1 \in DOMAIN mem.swap /\ ~pte[la].v
        BY <1>1, <3>3 DEF OnDevice, Mapped
      <4>2. pte[la].at = la + 1 BY <4>1 DEF SwapEntry
      <4>3. la # v /\ la \in Nat BY <1>3, <1>4, <3>3, CheckNumbers
      <4>4. pte2[la] = pte[la] /\ la + 1 # v + 1 BY <1>4, <1>6, <4>3
      <4>5. QED BY <1>9, <4>1, <4>2, <4>4
    <3>4. QED BY <3>1, <3>2, <3>3
  <2>2. Seen(mem, Check) = [la \in DOMAIN pte |-> e(la)] BY DEF Seen, pte
  <2>3. Seen(m2, Check) = [la \in DOMAIN pte |-> e2(la)] BY <1>6, <1>18 DEF Seen
  <2> HIDE DEF e, e2
  <2>4. QED BY <2>1, <2>2, <2>3
<1>20. SameSeen(mem, m2) BY <1>3, <1>6, <1>18, <1>19 DEF SameSeen, pte
<1>21. m2.free # {} BY <1>18 DEF free2
<1>22. QED BY <1>5, <1>16, <1>20, <1>21

\* The parts of a memory in which only some change.
LEMMA CheckParts ==
  ASSUME NEW mem, NEW X, Checking(mem, X)
  PROVE  LET s == mem.mm[Check] IN
         /\ mem \in Memories /\ mem.free \in SUBSET Pages /\ mem.ref \in [Pages -> Int]
         /\ mem.content \in [Pages -> Values] /\ s \in Spaces /\ s.pte \in Maps(Entries)
         /\ mem.pra \in Seq(Orders) /\ mem.swap \in Maps(Values)
         /\ mem = CheckMem(mem, mem.free, mem.ref, mem.content, s.pte, mem.pra, mem.swap)
<1> DEFINE s == mem.mm[Check]
<1>1. mem \in Memories BY DEF Checking
<1>2. s \in Spaces /\ Check \in Procs BY <1>1 DEF Memories, Procs
<1>3. s.pte \in Maps(Entries) BY <1>2 DEF Spaces
<1>4. mem.mm = [mem.mm EXCEPT ![Check].pte = s.pte]
  <2>1. mem.mm \in [Procs -> Spaces] BY <1>1 DEF Memories
  <2>2. s = [s EXCEPT !.pte = s.pte] BY <1>2 DEF Spaces
  <2> DEFINE t == [s EXCEPT !.pte = s.pte]
             f == [mem.mm EXCEPT ![Check].pte = s.pte]
  <2>3. f = [mem.mm EXCEPT ![Check] = t] OBVIOUS
  <2> HIDE DEF t, f
  <2>4. f = mem.mm BY <1>2, <2>1, <2>2, <2>3 DEF t
  <2>5. QED BY <2>4 DEF f
<1>5. mem = [mem EXCEPT !.free = mem.free, !.ref = mem.ref, !.content = mem.content,
                        !.mm = mem.mm, !.pra = mem.pra, !.swap = mem.swap]
  BY <1>1 DEF Memories
<1>6. mem = CheckMem(mem, mem.free, mem.ref, mem.content, s.pte, mem.pra, mem.swap)
  <2> DEFINE mm2 == [mem.mm EXCEPT ![Check].pte = s.pte]
  <2>1. CheckMem(mem, mem.free, mem.ref, mem.content, s.pte, mem.pra, mem.swap)
        = [mem EXCEPT !.free = mem.free, !.ref = mem.ref, !.content = mem.content,
                      !.mm = mm2, !.pra = mem.pra, !.swap = mem.swap]
    BY DEF CheckMem
  <2>2. mm2 = mem.mm BY <1>4
  <2> HIDE DEF mm2
  <2>3. QED BY <1>5, <2>1, <2>2
<1>7. QED BY <1>1, <1>2, <1>3, <1>6 DEF Memories, Orders

\* A frame for Check, after swapping one out if need be.
LEMMA CheckAllocIs ==
  ASSUME NEW mem, Checking(mem, {})
  PROVE  LET m2 == alloc_page(mem)
             x == NextPage(mem)
         IN  x \in CheckFrames /\ Checking(m2, {x}) /\ SameSeen(mem, m2)
<1> DEFINE r == Ready(mem)
           x == NextPage(mem)
           s == r.mm[Check]
           f2 == r.free \ {x}
           m2 == CheckMem(r, f2, r.ref, r.content, s.pte, r.pra, r.swap)
<1>1. Checking(r, {}) /\ r.free # {} /\ SameSeen(mem, r)
  <2>1. CASE mem.free = {} BY <2>1, SwapOutIs DEF Ready
  <2>2. CASE mem.free # {} BY <2>2 DEF Ready, SameSeen
  <2>3. QED BY <2>1, <2>2
<1>2. x \in r.free
  <2>1. r.free \in SUBSET Nat BY <1>1, Constants, CheckParts
  <2>2. Least(r.free) \in r.free BY <1>1, <2>1, LeastIs
  <2>3. QED BY <2>2 DEF NextPage
<1>3. alloc_page(mem) = [r EXCEPT !.free = f2] BY DEF alloc_page
<1> HIDE DEF r, x
<1>4. /\ r \in Memories /\ r.free \in SUBSET Pages /\ r.ref \in [Pages -> Int]
      /\ r.content \in [Pages -> Values] /\ s.pte \in Maps(Entries)
      /\ r.pra \in Seq(Orders) /\ r.swap \in Maps(Values)
      /\ r = CheckMem(r, r.free, r.ref, r.content, s.pte, r.pra, r.swap)
  BY <1>1, CheckParts
<1>5. Frames(s.pte, r.free, r.ref, {}) /\ Queue(s.pte, r.pra) /\ OnDevice(s.pte, r.swap)
      /\ CheckSpace(s)
  BY <1>1 DEF Checking
<1>6. x \in CheckFrames BY <1>2, <1>5 DEF Frames
<1>7. f2 \in SUBSET Pages BY <1>4
<1>8. Frames(s.pte, f2, r.ref, {x})
  <2>1. f2 \cup {x} = r.free \cup {} /\ f2 \subseteq r.free BY <1>2
  <2> HIDE DEF f2, s
  <2>2. QED BY <1>5, <1>6, <2>1 DEF Frames, f2
<1>9. DOMAIN s.pte \subseteq 0 .. CheckVp - 1 BY <1>5 DEF CheckSpace
<1>10. Checking(m2, {x}) BY <1>1, <1>4, <1>5, <1>7, <1>8, <1>9, CheckingIs
<1>11. m2 = [r EXCEPT !.free = f2]
  <2>1. CheckMem(r, r.free, r.ref, r.content, s.pte, r.pra, r.swap).mm = r.mm BY <1>4
  <2> DEFINE mm2 == [r.mm EXCEPT ![Check].pte = s.pte]
  <2>2. mm2 = r.mm BY <1>4, <2>1 DEF CheckMem, Memories
  <2>3. m2 = [r EXCEPT !.free = f2, !.ref = r.ref, !.content = r.content,
                       !.mm = mm2, !.pra = r.pra, !.swap = r.swap]
    BY DEF CheckMem
  <2> HIDE DEF mm2, f2, m2, s
  <2>4. QED BY <1>4, <2>2, <2>3 DEF Memories
<1>12. HasParts(r, m2, f2, r.ref, r.content, s.pte, r.pra, r.swap) BY <1>4, <1>7, CheckMemIs
<1> HIDE DEF m2, f2
<1>13. SameSeen(mem, m2)
  <2>1. m2.mm[Check].pte = r.mm[Check].pte /\ m2.content = r.content /\ m2.swap = r.swap
    BY <1>12 DEF HasParts
  <2>2. Seen(m2, Check) = Seen(r, Check) BY <2>1 DEF Seen
  <2>3. QED BY <1>1, <2>1, <2>2 DEF SameSeen
<1>14. QED BY <1>3, <1>6, <1>10, <1>11, <1>13 DEF x

\* The tables of check_swap are there from the start.
LEMMA GetPteThere ==
  ASSUME NEW mem, mem.mm[Check].pde1 = Put(Empty, 0, 0), mem.mm[Check].pde0 = Put(Empty, 0, 1),
         NEW la \in 0 .. CheckVp - 1
  PROVE  get_pte(mem, Check, la) = mem
<1>1. la \div PTSIZE = 0 /\ la \div PDSIZE = 0 BY CheckNumbers
<1>2. 0 \in DOMAIN mem.mm[Check].pde1 /\ 0 \in DOMAIN mem.mm[Check].pde0 BY DEF Put
<1>3. QED BY <1>1, <1>2 DEF get_pte

\* The frame x is filled with c and mapped at la.
CheckMap(mem, x, la, c) ==
  swap_map_swappable(page_insert([mem EXCEPT !.content[x] = c], Check, x, la), x, la)

LEMMA CheckMapIs ==
  ASSUME NEW mem, NEW x, Checking(mem, {x}), NEW la \in Vas, la \in 0 .. CheckVp - 1,
         la \notin Mapped(mem.mm[Check].pte), NEW c \in Values
  PROVE  LET m2 == CheckMap(mem, x, la, c) IN
         Checking(m2, {}) /\ Seen(m2, Check) = Put(Seen(mem, Check), la, c)
<1> DEFINE s == mem.mm[Check]
           pte == s.pte
           ref2 == [mem.ref EXCEPT ![x] = @ + 1]
           con2 == [mem.content EXCEPT ![x] = c]
           pte2 == Put(pte, la, Valid(x))
           pra2 == Append(mem.pra, [page |-> x, vaddr |-> la])
           m2 == CheckMem(mem, mem.free, ref2, con2, pte2, pra2, mem.swap)
<1>1. /\ mem \in Memories /\ mem.free \in SUBSET Pages /\ mem.ref \in [Pages -> Int]
      /\ mem.content \in [Pages -> Values] /\ s \in Spaces /\ pte \in Maps(Entries)
      /\ mem.pra \in Seq(Orders) /\ mem.swap \in Maps(Values)
  BY CheckParts
<1>2. Frames(pte, mem.free, mem.ref, {x}) /\ Queue(pte, mem.pra) /\ OnDevice(pte, mem.swap)
      /\ CheckSpace(s)
  BY DEF Checking
<1>3. x \in CheckFrames /\ x \in Pages /\ mem.ref[x] = 0 /\ x # 0 /\ x # 1 /\ x \notin mem.free
  BY <1>2, CheckNumbers DEF Frames
<1>4. ref2 \in [Pages -> Int] /\ \A y \in Pages : ref2[y] = IF y = x THEN 1 ELSE mem.ref[y]
  <2> HIDE DEF s
  <2>1. QED BY <1>1, <1>3
<1>5. con2 \in [Pages -> Values] /\ \A y \in Pages : con2[y] = IF y = x THEN c ELSE mem.content[y]
  BY <1>1, <1>3
<1>6. Valid(x) \in Entries /\ Valid(x).v /\ Valid(x).at = x /\ la \in Nat
  BY <1>3, CheckNumbers, Constants DEF Valid, Entries
<1> HIDE DEF pte
<1>7. /\ pte2 \in Maps(Entries) /\ DOMAIN pte2 = DOMAIN pte \cup {la} /\ pte2[la] = Valid(x)
      /\ \A z \in DOMAIN pte : z # la => pte2[z] = pte[z]
  <2> DEFINE y == Valid(x)
  <2>1. y \in Entries BY <1>6
  <2> HIDE DEF y
  <2>2. Put(pte, la, y) \in Maps(Entries) BY <1>1, <1>6, <2>1, PutIs
  <2>3. DOMAIN Put(pte, la, y) = DOMAIN pte \cup {la} /\ Put(pte, la, y)[la] = y
        /\ \A z \in DOMAIN pte : z # la => Put(pte, la, y)[z] = pte[z]
    BY DEF Put
  <2>4. QED BY <2>2, <2>3 DEF y
<1>8. Mapped(pte2) = Mapped(pte) \cup {la} /\ Queue(pte2, pra2) /\ pra2 \in Seq(Orders)
  <2>1. pte2 = Put(pte, la, Valid(x)) /\ pra2 = Append(mem.pra, [page |-> x, vaddr |-> la])
        /\ la \notin Mapped(pte) /\ Queue(pte, mem.pra)
    BY <1>2 DEF pte
  <2>2. Queued(pte, mem.pra, la, x, pte2, pra2) BY <1>1, <1>3, <2>1 DEF Queued
  <2> HIDE DEF pte2, pra2
  <2>3. QED BY <2>2, QueueIn
<1>9. CheckMap(mem, x, la, c) = m2
  <2> DEFINE b == [mem EXCEPT !.content = con2]
             b1 == [mem EXCEPT !.content = con2, !.ref = ref2]
             b2 == page_insert(b, Check, x, la)
  <2>1. CheckMap(mem, x, la, c) = swap_map_swappable(b2, x, la) BY DEF CheckMap
  <2> HIDE DEF con2
  <2>2. b.mm = mem.mm /\ b.ref = mem.ref /\ [b EXCEPT !.ref[x] = @ + 1] = b1
    BY <1>1 DEF Memories
  <2>3. b1.mm = mem.mm BY <1>1 DEF Memories
  <2>4. get_pte(b, Check, la) = b BY <1>2, <2>2, GetPteThere DEF CheckSpace
  <2>5. ~IsValid(b1, Check, la) BY <2>3 DEF IsValid, Mapped, pte
  <2> HIDE DEF b1, b
  <2>6. b2 = [b1 EXCEPT !.mm[Check].pte = Put(@, la, Valid(x))]
    BY <2>2, <2>4, <2>5 DEF page_insert
  <2> HIDE DEF b2
  <2>7. swap_map_swappable(b2, x, la)
        = [b2 EXCEPT !.pra = Append(@, [page |-> x, vaddr |-> la])]
    BY DEF swap_map_swappable
  <2> DEFINE e == [page |-> x, vaddr |-> la]
             w == Valid(x)
  <2>8. pra2 = Append(mem.pra, e) /\ pte2 = Put(mem.mm[Check].pte, la, w) BY DEF pte
  <2>9. swap_map_swappable(b2, x, la) = [b2 EXCEPT !.pra = Append(@, e)] BY <2>7
  <2>10. b2 = [b1 EXCEPT !.mm[Check].pte = Put(@, la, w)] BY <2>6
  <2>11. b1 = [mem EXCEPT !.content = con2, !.ref = ref2] BY DEF b1
  <2> HIDE DEF e, w, pra2, pte2, ref2, s
  <2>12. [b2 EXCEPT !.pra = Append(@, e)]
         = CheckMem(mem, mem.free, ref2, con2, pte2, pra2, mem.swap)
    BY <1>1, <2>8, <2>10, <2>11 DEF CheckMem, Memories
  <2>13. QED BY <2>1, <2>9, <2>12
<1> HIDE DEF pte2, pra2, ref2, con2
<1>10. Frames(pte2, mem.free, ref2, {})
  <2>1. \A a \in Mapped(pte) : a \in Mapped(pte2) /\ pte2[a] = pte[a] /\ pte[a].at # x
                               /\ pte[a].at \in CheckFrames \ mem.free
    BY <1>2, <1>3, <1>7, <1>8 DEF Frames, Mapped, pte
  <2>2. la \in Mapped(pte2) /\ pte2[la].at = x BY <1>6, <1>7, <1>8
  <2>3. \A a \in Mapped(pte2) : pte2[a].at \in CheckFrames \ (mem.free \cup {})
    BY <1>3, <1>8, <2>1, <2>2
  <2>4. \A a, b \in Mapped(pte2) : pte2[a].at = pte2[b].at => a = b
    <3>1. \A a, b \in Mapped(pte) : pte2[a].at = pte2[b].at => a = b
      BY <1>2, <2>1 DEF Frames, pte
    <3>2. \A a \in Mapped(pte) : pte2[a].at # x BY <2>1
    <3>3. QED BY <1>8, <2>2, <3>1, <3>2
  <2>5. ASSUME NEW y \in CheckFrames
        PROVE  y \in mem.free \cup {} \/ \E a \in Mapped(pte2) : y = pte2[a].at
    <3>1. y \in mem.free \cup {x} \/ \E a \in Mapped(pte) : y = pte[a].at
      BY <1>2 DEF Frames, pte
    <3>2. QED BY <2>1, <2>2, <3>1
  <2>6. \A y \in Pages :
          ref2[y] = IF y \in {0, 1} \cup (CheckFrames \ (mem.free \cup {})) THEN 1 ELSE 0
    BY <1>2, <1>3, <1>4 DEF Frames
  <2>7. mem.free \subseteq CheckFrames BY <1>2 DEF Frames
  <2>8. QED BY <2>3, <2>4, <2>5, <2>6, <2>7 DEF Frames
<1>11. OnDevice(pte2, mem.swap)
  BY <1>2, <1>7, <1>8 DEF OnDevice, Mapped, pte
<1>12. DOMAIN pte2 \subseteq 0 .. CheckVp - 1 BY <1>2, <1>7 DEF CheckSpace, pte
<1>13. Checking(m2, {})
  BY <1>1, <1>4, <1>5, <1>7, <1>8, <1>10, <1>11, <1>12, CheckingIs
<1>14. HasParts(mem, m2, mem.free, ref2, con2, pte2, pra2, mem.swap)
  BY <1>1, <1>4, <1>5, <1>7, <1>8, CheckMemIs
<1> HIDE DEF m2
<1>15. m2.mm[Check].pte = pte2 /\ m2.content = con2 /\ m2.swap = mem.swap
  BY <1>14 DEF HasParts
<1>16. Seen(m2, Check) = Put(Seen(mem, Check), la, c)
  <2> DEFINE e(a) == IF pte[a].v THEN mem.content[pte[a].at] ELSE mem.swap[pte[a].at]
             e2(a) == IF pte2[a].v THEN con2[pte2[a].at] ELSE mem.swap[pte2[a].at]
  <2>1. ASSUME NEW a \in DOMAIN pte2 PROVE e2(a) = IF a = la THEN c ELSE e(a)
    <3>1. CASE a = la BY <1>3, <1>5, <1>6, <1>7, <3>1
    <3>2. CASE a # la /\ a \in Mapped(pte)
      <4>1. pte2[a] = pte[a] /\ pte[a].v BY <1>7, <3>2 DEF Mapped
      <4>2. pte[a].at \in Pages /\ pte[a].at # x
        BY <1>2, <3>2, CheckNumbers DEF Frames, pte
      <4>3. QED BY <1>5, <3>2, <4>1, <4>2
    <3>3. CASE a # la /\ a \notin Mapped(pte)
      <4>1. a \in DOMAIN pte /\ pte2[a] = pte[a] /\ ~pte[a].v BY <1>7, <3>3 DEF Mapped
      <4>2. QED BY <3>3, <4>1
    <3>4. QED BY <3>1, <3>2, <3>3
  <2>2. Seen(mem, Check) = [a \in DOMAIN pte |-> e(a)] BY DEF Seen, pte
  <2>3. Seen(m2, Check) = [a \in DOMAIN pte2 |-> e2(a)] BY <1>15 DEF Seen
  <2> HIDE DEF e, e2
  <2>4. Put(Seen(mem, Check), la, c)
        = [a \in DOMAIN pte \cup {la} |-> IF a = la THEN c ELSE Seen(mem, Check)[a]]
    BY <2>2 DEF Put
  <2>5. \A a \in DOMAIN pte2 : a # la => Seen(mem, Check)[a] = e(a) BY <1>7, <2>2
  <2>6. QED BY <1>7, <2>1, <2>3, <2>4, <2>5
<1>17. QED BY <1>9, <1>13, <1>16

\* pgfault_new of check_swap.
LEMMA CheckTouchIs ==
  ASSUME NEW mem, Checking(mem, {}), NEW la \in Vas, la \in 0 .. CheckVp - 1,
         la \notin DOMAIN mem.mm[Check].pte, NEW c \in Values
  PROVE  LET m2 == pgdir_alloc_page(get_pte(mem, Check, la), Check, la, c) IN
         Checking(m2, {}) /\ Seen(m2, Check) = Put(Seen(mem, Check), la, c)
<1> DEFINE m1 == alloc_page(mem)
           x == NextPage(mem)
           m2 == pgdir_alloc_page(mem, Check, la, c)
<1>1. get_pte(mem, Check, la) = mem BY GetPteThere DEF Checking, CheckSpace
<1>2. x \in CheckFrames /\ Checking(m1, {x}) /\ SameSeen(mem, m1) BY CheckAllocIs
<1>3. mem.check BY DEF Checking
<1>4. m2 = CheckMap(m1, x, la, c) BY <1>3 DEF pgdir_alloc_page, CheckMap
<1> HIDE DEF m1, x, m2
<1>5. la \notin Mapped(m1.mm[Check].pte) /\ Seen(m1, Check) = Seen(mem, Check)
  BY <1>2 DEF SameSeen, Mapped
<1>6. Checking(m2, {}) /\ Seen(m2, Check) = Put(Seen(m1, Check), la, c)
  BY <1>2, <1>4, <1>5, CheckMapIs
<1>7. QED BY <1>1, <1>5, <1>6 DEF m2

\* pgfault_swap.
SwappedIn(mem, la) ==
  LET x  == NextPage(mem)
      m1 == alloc_page(mem)
      m2 == [m1 EXCEPT !.content[x] = m1.swap[mem.mm[Check].pte[la].at]]
  IN  swap_map_swappable(page_insert(m2, Check, x, la), x, la)

LEMMA CheckSwapInIs ==
  ASSUME NEW mem, Checking(mem, {}), NEW la \in Vas,
         la \in DOMAIN mem.mm[Check].pte, la \notin Mapped(mem.mm[Check].pte)
  PROVE  Checking(SwappedIn(mem, la), {}) /\ Seen(SwappedIn(mem, la), Check) = Seen(mem, Check)
<1> DEFINE m1 == alloc_page(mem)
           x == NextPage(mem)
           at == mem.mm[Check].pte[la].at
           c == m1.swap[at]
           m2 == SwappedIn(mem, la)
           pte1 == m1.mm[Check].pte
<1>1. x \in CheckFrames /\ Checking(m1, {x}) /\ SameSeen(mem, m1) BY CheckAllocIs
<1>2. m2 = CheckMap(m1, x, la, c) BY DEF SwappedIn, CheckMap
<1> HIDE DEF m1, x, m2
<1>3. at = la + 1
  <2>1. mem.mm[Check].pte[la] = SwapEntry(la) BY DEF Checking, OnDevice
  <2>2. QED BY <2>1 DEF SwapEntry
<1>4. la \in DOMAIN pte1 /\ la \notin Mapped(pte1) /\ Seen(m1, Check) = Seen(mem, Check)
  BY <1>1 DEF SameSeen
<1>5. pte1[la].at = la + 1 /\ ~pte1[la].v /\ la + 1 \in DOMAIN m1.swap
  <2>1. pte1[la] = SwapEntry(la) /\ la + 1 \in DOMAIN m1.swap
    BY <1>1, <1>4 DEF Checking, OnDevice
  <2>2. QED BY <2>1 DEF SwapEntry
<1>6. c \in Values
  <2>1. m1.swap \in Maps(Values) BY <1>1, CheckParts
  <2>2. m1.swap \in [DOMAIN m1.swap -> Values] BY <2>1, MapsIs
  <2>3. QED BY <1>3, <1>5, <2>2
<1>7. la \in 0 .. CheckVp - 1 BY DEF Checking, CheckSpace
<1>8. Seen(m1, Check) = [a \in DOMAIN pte1 |-> IF pte1[a].v THEN m1.content[pte1[a].at]
                                                          ELSE m1.swap[pte1[a].at]]
  BY DEF Seen
<1> DEFINE f == Seen(m1, Check)
<1>9. DOMAIN f = DOMAIN pte1 /\ f[la] = c /\ f = [a \in DOMAIN pte1 |-> f[a]]
  BY <1>3, <1>4, <1>5, <1>8
<1> HIDE DEF at, c, pte1, f
<1>10. Put(f, la, c) = f BY <1>4, <1>9 DEF Put
<1>11. Checking(m2, {}) /\ Seen(m2, Check) = Put(f, la, c)
  BY <1>1, <1>2, <1>4, <1>6, <1>7, CheckMapIs DEF pte1, f
<1>12. QED BY <1>4, <1>10, <1>11 DEF f, m2

\* A write of check_swap.
LEMMA CheckWriteIs ==
  ASSUME NEW mem, Checking(mem, {}), NEW la \in Mapped(mem.mm[Check].pte), NEW c \in Values
  PROVE  LET m2 == Written(mem, Check, la, c) IN
         Checking(m2, {}) /\ Seen(m2, Check) = [Seen(mem, Check) EXCEPT ![la] = c]
<1> DEFINE s == mem.mm[Check]
           pte == s.pte
           x == pte[la].at
           c2 == [mem.content EXCEPT ![x] = c]
           m2 == Written(mem, Check, la, c)
<1>1. /\ mem \in Memories /\ Frames(pte, mem.free, mem.ref, {}) /\ CheckSpace(s)
      /\ Queue(pte, mem.pra) /\ OnDevice(pte, mem.swap)
  BY DEF Checking
<1>2. \A a \in Mapped(pte) : pte[a].at \in Pages /\ (pte[a].at = x => a = la)
  BY <1>1, CheckNumbers DEF Frames
<1>3. c2 \in [Pages -> Values] /\ \A y \in Pages : c2[y] = IF y = x THEN c ELSE mem.content[y]
  BY <1>1, <1>2 DEF Memories
<1>4. m2 = [mem EXCEPT !.content = c2] BY <1>1 DEF Written, Memories
<1> HIDE DEF m2, c2, x
<1>5. /\ m2 \in Memories /\ m2.free = mem.free /\ m2.mm = mem.mm /\ m2.ref = mem.ref
      /\ m2.kstack = mem.kstack /\ m2.check = mem.check
      /\ m2.pra = mem.pra /\ m2.swap = mem.swap /\ m2.content = c2
  BY <1>1, <1>3, <1>4 DEF Memories
<1>6. Checking(m2, {}) BY <1>5 DEF Checking
<1>7. Seen(m2, Check) = [Seen(mem, Check) EXCEPT ![la] = c]
  <2> DEFINE e(a) == IF pte[a].v THEN mem.content[pte[a].at] ELSE mem.swap[pte[a].at]
             e2(a) == IF pte[a].v THEN c2[pte[a].at] ELSE mem.swap[pte[a].at]
  <2>1. Seen(mem, Check) = [a \in DOMAIN pte |-> e(a)] BY DEF Seen
  <2>2. Seen(m2, Check) = [a \in DOMAIN pte |-> e2(a)] BY <1>5 DEF Seen
  <2>3. ASSUME NEW a \in DOMAIN pte PROVE e2(a) = IF a = la THEN c ELSE e(a)
    <3>1. CASE a \in Mapped(pte)
      <4>1. pte[a].v /\ pte[a].at \in Pages /\ (pte[a].at = x => a = la) BY <1>2, <3>1 DEF Mapped
      <4>2. a = la => pte[a].at = x BY DEF x
      <4>3. QED BY <1>3, <4>1, <4>2
    <3>2. CASE a \notin Mapped(pte) BY <3>2 DEF Mapped
    <3>3. QED BY <3>1, <3>2
  <2>4. la \in DOMAIN pte BY DEF Mapped
  <2> HIDE DEF e, e2, pte
  <2>5. QED BY <2>1, <2>2, <2>3, <2>4
<1>8. QED BY <1>6, <1>7 DEF m2

LEMMA NothingSeen ==
  ASSUME NEW mem, NEW p, mem.mm[p] = NoMm
  PROVE  Seen(mem, p) = Empty
<1>1. mem.mm[p].pte = Empty BY DEF NoMm, NewMm
<1>2. QED BY <1>1, EmptyIs DEF Seen, Empty

\* The beginning of check_swap.
LEMMA CheckInitIs ==
  ASSUME Init
  PROVE  Checking(m, {}) /\ \A p \in Procs : Seen(m, p) = Empty
<1> DEFINE s == [NewMm(Boot) EXCEPT !.vmas = <<CheckVma>>,
                   !.pde1 = Put(Empty, 0, 0), !.pde0 = Put(Empty, 0, 1)]
           mm0 == [p \in Procs |-> IF p = Check THEN s ELSE NoMm]
           r0 == [x \in Pages |-> IF x < 2 THEN 1 ELSE 0]
           c0 == [x \in Pages |-> 0]
           k0 == [p \in Users |-> None]
           b0 == [p \in Users |-> Boot]
<1>1. m = [free |-> CheckFrames, ref |-> r0, content |-> c0, mm |-> mm0, kstack |-> k0,
           cr3 |-> b0, check |-> TRUE, pra |-> <<>>, swap |-> Empty]
  BY DEF Init, CheckFrames
<1>2. s.pgdir = Boot /\ s.vmas = <<CheckVma>> /\ s.pde1 = Put(Empty, 0, 0)
      /\ s.pde0 = Put(Empty, 0, 1) /\ s.pte = Empty
  BY DEF NewMm
<1>3. Put(Empty, 0, 0) \in Maps(Pages) /\ Put(Empty, 0, 1) \in Maps(Pages)
      /\ Empty \in Maps(Entries)
  BY CheckNumbers, EmptyIs, PutIs
<1>4. CheckVma \in Vmas BY Constants DEF CheckVma, Vmas
<1>5. <<CheckVma>> \in Seq(Vmas) BY <1>4
<1>6. s \in Spaces
  <2> DEFINE d == Put(Empty, 0, 0)
             t == Put(Empty, 0, 1)
             v == <<CheckVma>>
             e == NewMm(Boot)
  <2>1. s = [e EXCEPT !.vmas = v, !.pde1 = d, !.pde0 = t] OBVIOUS
  <2>2. d \in Maps(Pages) /\ t \in Maps(Pages) /\ v \in Seq(Vmas) BY <1>3, <1>5
  <2>3. e = [pgdir |-> Boot, vmas |-> <<>>, pde1 |-> Empty, pde0 |-> Empty, pte |-> Empty]
    BY DEF NewMm
  <2> HIDE DEF d, t, v, s, e
  <2>4. s = [pgdir |-> Boot, vmas |-> v, pde1 |-> d, pde0 |-> t, pte |-> Empty] BY <2>1, <2>3
  <2>5. QED BY <1>3, <2>2, <2>4 DEF Spaces
<1> HIDE DEF s
<1>7. NoMm \in Spaces BY NewMmIs DEF NoMm
<1>8. Check \in Procs /\ \A p \in Users : p \in Procs /\ p # Check BY Constants DEF Procs
<1>9. mm0 \in [Procs -> Spaces] /\ mm0[Check] = s /\ \A p \in Users : mm0[p] = NoMm
  BY <1>6, <1>7, <1>8
<1>10. r0 \in [Pages -> Int] /\ \A x \in Pages : r0[x] = IF x < 2 THEN 1 ELSE 0 OBVIOUS
<1>11. c0 \in [Pages -> Values] BY Constants
<1>12. k0 \in [Users -> Pages \cup {None}] /\ \A p \in Users : k0[p] = None OBVIOUS
<1>13. b0 \in [Users -> Pages \cup {Boot}] OBVIOUS
<1>14. <<>> \in Seq([page : Pages, vaddr : Vas]) /\ Empty \in Maps(Values) BY EmptyIs
<1>15. CheckFrames \in SUBSET Pages BY CheckNumbers
<1> HIDE DEF mm0, r0, c0, k0, b0
<1>16. m \in Memories BY <1>1, <1>9, <1>10, <1>11, <1>12, <1>13, <1>14, <1>15 DEF Memories
<1>17. /\ m.free = CheckFrames /\ m.ref = r0 /\ m.mm = mm0 /\ m.kstack = k0 /\ m.check
       /\ m.pra = <<>> /\ m.swap = Empty
  BY <1>1
<1>18. CheckSpace(s) BY <1>2, EmptyIs DEF CheckSpace
<1>19. Mapped(Empty) = {} /\ DOMAIN Empty = {} BY EmptyIs DEF Mapped
<1>20. Frames(Empty, CheckFrames, r0, {})
  <2>1. \A x \in Pages : r0[x] = IF x \in {0, 1} \cup (CheckFrames \ (CheckFrames \cup {}))
                                 THEN 1 ELSE 0
    BY <1>10, Constants DEF Pages
  <2>2. QED BY <1>19, <2>1 DEF Frames
<1>21. Queue(Empty, <<>>) /\ OnDevice(Empty, Empty) BY <1>19 DEF Queue, OnDevice
<1>22. Checking(m, {}) BY <1>2, <1>9, <1>12, <1>16, <1>17, <1>18, <1>20, <1>21 DEF Checking
<1>23. Seen(m, Check) = Empty
  <2>1. m.mm[Check].pte = Empty BY <1>2, <1>9, <1>17
  <2>2. QED BY <2>1, EmptyIs DEF Seen, Empty
<1>24. \A p \in Users : Seen(m, p) = Empty BY <1>9, <1>17, NothingSeen
<1>25. QED BY <1>22, <1>23, <1>24 DEF Procs

\* The end of check_swap.
Ended(mem) ==
  [free_pages(mem, Pages) EXCEPT !.mm[Check] = NoMm, !.check = FALSE,
                                 !.pra = <<>>, !.swap = Empty]

LEMMA CheckEndIs ==
  ASSUME NEW mem, Checking(mem, {})
  PROVE  /\ Sound(Ended(mem)) /\ \A p \in Procs : Ended(mem).mm[p] = NoMm
         /\ Ended(mem).kstack = mem.kstack
<1> DEFINE m1 == free_pages(mem, Pages)
           mm2 == [m1.mm EXCEPT ![Check] = NoMm]
           m2 == Ended(mem)
<1>1. mem \in Memories /\ mem.free \subseteq Pages BY DEF Checking, Memories
<1>2. /\ m1 \in Memories /\ m1.free = Pages /\ m1.mm = mem.mm /\ m1.kstack = mem.kstack
      /\ \A x \in Pages : m1.ref[x] = 0
  <2>1. Pages \in SUBSET Pages /\ mem.free \cup Pages = Pages BY <1>1
  <2>2. QED BY <1>1, <2>1, FreePagesIs
<1>3. m2 = [m1 EXCEPT !.mm = mm2, !.check = FALSE, !.pra = <<>>, !.swap = Empty] BY DEF Ended
<1> HIDE DEF m1
<1>4. NoMm \in Spaces BY NewMmIs DEF NoMm
<1>5. \A p \in Users : m1.mm[p] = NoMm BY <1>2 DEF Checking
<1>6. mm2 \in [Procs -> Spaces] /\ \A p \in Procs : mm2[p] = NoMm
  BY <1>2, <1>4, <1>5 DEF Memories, Procs
<1>7. <<>> \in Seq([page : Pages, vaddr : Vas]) /\ Empty \in Maps(Values) BY EmptyIs
<1> HIDE DEF mm2, m2
<1>8. /\ m2 \in Memories /\ m2.free = m1.free /\ m2.ref = m1.ref /\ m2.mm = mm2
      /\ m2.kstack = m1.kstack /\ ~m2.check /\ m2.pra = <<>> /\ m2.swap = Empty
  BY <1>2, <1>3, <1>6, <1>7 DEF Memories
<1>9. \A p \in Users : StackOf(m2, p) = {} BY <1>2, <1>8 DEF Checking, StackOf
<1>10. \A p \in Procs : SpaceOf(m2, p) = {} BY <1>6, <1>8 DEF SpaceOf
<1>11. Parts(m2) BY <1>2, <1>8, <1>9, <1>10 DEF Parts
<1>12. Counted(m2) BY <1>2, <1>8, <1>9, <1>10 DEF Counted
<1>13. Check \in Procs BY DEF Procs
<1>14. QED BY <1>2, <1>6, <1>8, <1>11, <1>12, <1>13 DEF Sound, m2

-----------------------------------------------------------------------------
(***************************************************************************)
(* The invariant.                                                          *)
(***************************************************************************)
\* What the state of a process says of its memory.
Sane(st, mem, p) ==
  /\ st[p] # "live" => mem.mm[p] = NoMm
  /\ st[p] = "none" <=> mem.kstack[p] = None
  /\ st[p] = "live" => mem.cr3[p] = IF mem.mm[p] = NoMm THEN Boot ELSE mem.mm[p].pgdir

Life(st, mem, n) ==
  /\ st \in [Users -> {"none", "live", "zombie"}] /\ n \in Nat
  /\ \A p \in Users : Sane(st, mem, p)
  /\ n = 0 => \A p \in Users : st[p] = "none"

VmInv(st, mem, n) ==
  /\ Life(st, mem, n)
  /\ (Checking(mem, {}) /\ n = 0) \/ Sound(mem)

\* What everybody sees.
View(mem) == [p \in Procs |-> Seen(mem, p)]

LEMMA ViewIs ==
  ASSUME NEW mem, NEW m2, NEW p \in Procs, \A q \in Procs \ {p} : Seen(m2, q) = Seen(mem, q)
  PROVE  View(m2) = [View(mem) EXCEPT ![p] = Seen(m2, p)]
BY DEF View

LEMMA StepView ==
  ASSUME NEW mem, NEW m2, NEW p \in Procs, ProcStep(mem, m2, p), NEW f, Seen(m2, p) = f
  PROVE  View(m2) = [View(mem) EXCEPT ![p] = f]
BY ViewIs DEF ProcStep

\* Only p has changed, and it is sane.
OnlyLife(st, mem, st2, m2, p) ==
  /\ st2 \in [Users -> {"none", "live", "zombie"}]
  /\ \A q \in Users \ {p} : /\ st2[q] = st[q] /\ m2.mm[q] = mem.mm[q]
                            /\ m2.kstack[q] = mem.kstack[q] /\ m2.cr3[q] = mem.cr3[q]
  /\ Sane(st2, m2, p)

LEMMA LifeIs ==
  ASSUME NEW st, NEW mem, NEW n, Life(st, mem, n), NEW p \in Users, NEW st2, NEW m2, NEW n2,
         OnlyLife(st, mem, st2, m2, p), n2 \in Nat, n2 # 0
  PROVE  Life(st2, m2, n2)
<1>1. ASSUME NEW q \in Users PROVE Sane(st2, m2, q)
  <2>1. CASE q = p BY <2>1 DEF OnlyLife
  <2>2. CASE q # p
    <3>1. Sane(st, mem, q) BY DEF Life
    <3>2. QED BY <2>2, <3>1 DEF Sane, OnlyLife
  <2>3. QED BY <2>1, <2>2
<1>2. QED BY <1>1 DEF Life, OnlyLife

\* A process can only run once init has been started.
LEMMA RunningIs ==
  ASSUME VmInv(state, m, calls), NEW p \in Users, Running(p)
  PROVE  /\ Sound(m) /\ Sane(state, m, p) /\ calls \in Nat /\ calls # 0
         /\ state \in [Users -> {"none", "live", "zombie"}] /\ m \in Memories
BY DEF VmInv, Checking, Running, Life, Sound

LEMMA DoExit ==
  ASSUME VmInv(state, m, calls), NEW p \in Users, do_exit(p)
  PROVE  VmInv(state', m', calls') /\ View(m') = [View(m) EXCEPT ![p] = Empty]
<1>1. Running(p) /\ m' = release_mm(m, p) /\ state' = [state EXCEPT ![p] = "zombie"]
      /\ calls' = calls
  BY DEF do_exit
<1>2. Sound(m) /\ Sane(state, m, p) /\ calls \in Nat /\ calls # 0
      /\ state \in [Users -> {"none", "live", "zombie"}]
  BY <1>1, RunningIs
<1>3. ProcStep(m, m', p) /\ m'.cr3 = m.cr3 /\ m'.mm[p] = NoMm /\ Seen(m', p) = Empty
  BY <1>1, <1>2, ExitIs
<1>4. p \in Procs /\ \A q \in Users : q \in Procs BY DEF Procs
<1>5. Sane(state', m', p) BY <1>1, <1>2, <1>3 DEF Sane, ProcStep, Running
<1>6. Life(state', m', calls')
  <2>1. \A q \in Users \ {p} : /\ state'[q] = state[q] /\ m'.mm[q] = m.mm[q]
                               /\ m'.kstack[q] = m.kstack[q] /\ m'.cr3[q] = m.cr3[q]
    BY <1>1, <1>2, <1>3, <1>4 DEF ProcStep
  <2>2. state' \in [Users -> {"none", "live", "zombie"}] BY <1>1, <1>2
  <2>3. Life(state, m, calls) BY DEF VmInv
  <2>4. OnlyLife(state, m, state', m', p) BY <1>5, <2>1, <2>2 DEF OnlyLife
  <2>5. calls' \in Nat /\ calls' # 0 BY <1>1, <1>2
  <2>6. QED BY <2>3, <2>4, <2>5, LifeIs
<1>7. View(m') = [View(m) EXCEPT ![p] = Empty] BY <1>3, <1>4, StepView
<1>8. QED BY <1>3, <1>6, <1>7 DEF VmInv, ProcStep

\* What a program finds in its memory when it starts.
ProgramImage(prog, old) ==
  Over(Over(Empty, SegIm(prog, GoodSegs(prog)), PagesUpTo(prog, GoodSegs(prog))), old, Loaded)

LEMMA DoExecve ==
  ASSUME VmInv(state, m, calls), NEW p \in Users, NEW prog \in Programs, do_execve(p, prog)
  PROVE  /\ VmInv(state', m', calls')
         /\ \/ View(m') = [View(m) EXCEPT ![p] = Empty]
            \/ /\ IsGood(prog)
               /\ \E old \in [Loaded -> Values] :
                    View(m') = [View(m) EXCEPT ![p] = ProgramImage(prog, old)]
<1> DEFINE A == m.free \cup SpaceOf(m, p)
           bare == release_mm(m, p)
           loads == load_segments(new_mm(bare, p), p, prog)
<1>1. /\ Running(p) /\ calls' = calls + 1
      /\ Cardinality(bare.free) >= Takes(prog)
      /\ \/ /\ IsGood(prog)
            /\ \E old \in [Loaded -> Values] : m' = load_stack(loads, p, old)
            /\ state' = state
         \/ /\ ~IsGood(prog)
            /\ m' = release_mm(loads, p)
            /\ state' = [state EXCEPT ![p] = "zombie"]
  BY DEF do_execve
<1>2. Sound(m) /\ Sane(state, m, p) /\ calls \in Nat
      /\ state \in [Users -> {"none", "live", "zombie"}]
      /\ state[p] = "live"
  BY <1>1, RunningIs DEF Running
<1>3. Loads(m, loads, p, prog, A) BY <1>1, <1>2, LoadsIs
<1> HIDE DEF bare, loads
<1>4. p \in Procs /\ \A q \in Users : q \in Procs BY DEF Procs
<1>5. calls' \in Nat /\ calls' # 0 BY <1>1, <1>2
<1>6. Life(state, m, calls) BY DEF VmInv
<1>7. CASE IsGood(prog) /\ \E old \in [Loaded -> Values] : m' = load_stack(loads, p, old)
          /\ state' = state
  <2>1. PICK old \in [Loaded -> Values] : m' = load_stack(loads, p, old) BY <1>7
  <2>2. state' = state BY <1>7
  <2>3. OnItsOwn(m, m', p) /\ Seen(m', p) = ProgramImage(prog, old)
    BY <1>2, <1>3, <2>1, ExecIs DEF ProgramImage, A
  <2>4. ProcStep(m, m', p) /\ m'.mm[p] # NoMm /\ m'.cr3 = [m.cr3 EXCEPT ![p] = m'.mm[p].pgdir]
    BY <2>3 DEF OnItsOwn
  <2>5. m.cr3 \in [Users -> Pages \cup {Boot}] BY <1>2 DEF Sound, Memories
  <2>6. Sane(state', m', p) BY <1>2, <2>2, <2>4, <2>5 DEF Sane, ProcStep
  <2>7. OnlyLife(state, m, state', m', p)
    BY <1>2, <1>4, <2>2, <2>4, <2>5, <2>6 DEF OnlyLife, ProcStep
  <2>8. Life(state', m', calls') BY <1>5, <1>6, <2>7, LifeIs
  <2>9. View(m') = [View(m) EXCEPT ![p] = ProgramImage(prog, old)]
    BY <1>4, <2>3, <2>4, StepView
  <2>10. QED BY <1>7, <2>4, <2>8, <2>9 DEF VmInv, ProcStep
<1>8. CASE m' = release_mm(loads, p) /\ state' = [state EXCEPT ![p] = "zombie"]
  <2>1. ProcStep(m, m', p) /\ m'.cr3 = m.cr3 /\ m'.mm[p] = NoMm /\ Seen(m', p) = Empty
    BY <1>2, <1>3, <1>8, FailedExecIs DEF A
  <2>2. /\ state' \in [Users -> {"none", "live", "zombie"}] /\ state'[p] = "zombie"
        /\ \A q \in Users \ {p} : state'[q] = state[q]
    BY <1>2, <1>8
  <2>3. Sane(state', m', p) BY <1>2, <2>1, <2>2 DEF Sane, ProcStep
  <2>4. OnlyLife(state, m, state', m', p) BY <1>4, <2>1, <2>2, <2>3 DEF OnlyLife, ProcStep
  <2>5. Life(state', m', calls') BY <1>5, <1>6, <2>4, LifeIs
  <2>6. View(m') = [View(m) EXCEPT ![p] = Empty] BY <1>4, <2>1, StepView
  <2>7. QED BY <2>1, <2>5, <2>6 DEF VmInv, ProcStep
<1>9. QED BY <1>1, <1>7, <1>8

LEMMA DoWait ==
  ASSUME VmInv(state, m, calls), NEW c \in Users, do_wait(c)
  PROVE  VmInv(state', m', calls') /\ View(m') = View(m)
<1>1. ~m.check /\ state[c] = "zombie" /\ m' = Reaped(m, c)
      /\ state' = [state EXCEPT ![c] = "none"] /\ calls' = calls
  BY DEF do_wait, Reaped
<1>2. /\ Sound(m) /\ Sane(state, m, c) /\ calls \in Nat /\ calls # 0 /\ Life(state, m, calls)
      /\ state \in [Users -> {"none", "live", "zombie"}]
  BY <1>1 DEF VmInv, Checking, Life
<1>3. m.kstack[c] # None /\ m.mm[c] = NoMm BY <1>1, <1>2 DEF Sane
<1>4. /\ Sound(m') /\ m'.mm = m.mm
      /\ m'.kstack = [m.kstack EXCEPT ![c] = None] /\ m'.cr3 = [m.cr3 EXCEPT ![c] = Boot]
      /\ \A p \in Procs : Seen(m', p) = Seen(m, p)
  <2> DEFINE m2 == Reaped(m, c)
  <2>1. /\ Sound(m2) /\ m2.mm = m.mm
        /\ m2.kstack = [m.kstack EXCEPT ![c] = None] /\ m2.cr3 = [m.cr3 EXCEPT ![c] = Boot]
        /\ \A p \in Procs : Seen(m2, p) = Seen(m, p)
    BY <1>2, <1>3, ReapedIs
  <2>2. m' = m2 BY <1>1
  <2> HIDE DEF m2
  <2>3. QED BY <2>1, <2>2
<1>5. m.cr3 \in [Users -> Pages \cup {Boot}] /\ m.kstack \in [Users -> Pages \cup {None}]
  BY <1>2 DEF Sound, Memories
<1>6. /\ state' \in [Users -> {"none", "live", "zombie"}] /\ state'[c] = "none"
      /\ \A q \in Users \ {c} : state'[q] = state[q]
  BY <1>1, <1>2
<1>7. m'.kstack[c] = None
      /\ \A q \in Users \ {c} : m'.kstack[q] = m.kstack[q] /\ m'.cr3[q] = m.cr3[q]
  BY <1>4, <1>5
<1>8. Sane(state', m', c) BY <1>3, <1>4, <1>6, <1>7 DEF Sane
<1>9. OnlyLife(state, m, state', m', c) BY <1>4, <1>6, <1>7, <1>8 DEF OnlyLife
<1>10. Life(state', m', calls') BY <1>1, <1>2, <1>9, LifeIs
<1>11. View(m') = View(m) BY <1>4 DEF View
<1>12. QED BY <1>4, <1>10, <1>11 DEF VmInv

\* The pages of an address space, as the code counts them.
LEMMA OwnedIs ==
  ASSUME NEW mem, NEW p, mem.mm[p] \in Spaces, GoodSpace(mem.mm[p])
  PROVE  Owned(mem, p) = Own(mem.mm[p]) /\ ValidOf(mem, p) = DOMAIN mem.mm[p].pte
<1> DEFINE s == mem.mm[p]
<1>1. s.pgdir \in Pages /\ s.pgdir # Boot /\ s.pgdir # None BY Constants DEF GoodSpace
<1>2. ValidOf(mem, p) = DOMAIN s.pte BY DEF ValidOf, GoodSpace, Shape
<1>3. Owned(mem, p) = {s.pgdir} \cup {s.pde1[d] : d \in DOMAIN s.pde1}
                      \cup {s.pde0[t] : t \in DOMAIN s.pde0}
                      \cup {s.pte[la].at : la \in DOMAIN s.pte}
  BY <1>1, <1>2 DEF Owned, Tables
<1>4. \A x \in Own(s) : \/ x = s.pgdir \/ \E d \in DOMAIN s.pde1 : x = s.pde1[d]
                        \/ \E t \in DOMAIN s.pde0 : x = s.pde0[t]
                        \/ \E la \in DOMAIN s.pte : x = s.pte[la].at
  BY DEF Own, Slots, PageAt
<1>5. s.pgdir \in Own(s)
  <2>1. <<0, 0>> \in Slots(s) /\ PageAt(s, <<0, 0>>) = s.pgdir BY DEF Slots, PageAt
  <2>2. QED BY <2>1 DEF Own
<1>6. \A d \in DOMAIN s.pde1 : s.pde1[d] \in Own(s)
  <2>1. ASSUME NEW d \in DOMAIN s.pde1 PROVE s.pde1[d] \in Own(s)
    <3>1. <<1, d>> \in Slots(s) BY DEF Slots
    <3>2. PageAt(s, <<1, d>>) = s.pde1[d] BY DEF PageAt
    <3>3. QED BY <3>1, <3>2 DEF Own
  <2>2. QED BY <2>1
<1>7. \A t \in DOMAIN s.pde0 : s.pde0[t] \in Own(s)
  <2>1. ASSUME NEW t \in DOMAIN s.pde0 PROVE s.pde0[t] \in Own(s)
    <3>1. <<2, t>> \in Slots(s) BY DEF Slots
    <3>2. PageAt(s, <<2, t>>) = s.pde0[t] BY DEF PageAt
    <3>3. QED BY <3>1, <3>2 DEF Own
  <2>2. QED BY <2>1
<1>8. \A la \in DOMAIN s.pte : s.pte[la].at \in Own(s)
  <2>1. ASSUME NEW la \in DOMAIN s.pte PROVE s.pte[la].at \in Own(s)
    <3>1. <<3, la>> \in Slots(s) BY DEF Slots
    <3>2. PageAt(s, <<3, la>>) = s.pte[la].at BY DEF PageAt
    <3>3. QED BY <3>1, <3>2 DEF Own
  <2>2. QED BY <2>1
<1> HIDE DEF s
<1>9. QED BY <1>2, <1>3, <1>4, <1>5, <1>6, <1>7, <1>8 DEF s

\* setup_kstack.
HasStack(mem, m2, c) ==
  /\ Sound(m2) /\ m2.mm = mem.mm /\ m2.kstack[c] # None /\ m2.cr3[c] = Boot
  /\ Cardinality(m2.free) = Cardinality(mem.free) - 2
  /\ \A q \in Users \ {c} : m2.kstack[q] = mem.kstack[q] /\ m2.cr3[q] = mem.cr3[q]
  /\ \A q : Seen(m2, q) = Seen(mem, q)

LEMMA KstackIs ==
  ASSUME Sound(m), NEW c \in Users, m.kstack[c] = None, KstackPlaces(m) # {}
  PROVE  HasStack(m, setup_kstack(c), c)
<1> DEFINE x == Least(KstackPlaces(m))
           m2 == WithKstack(m, c, x)
<1>1. m \in Memories /\ m.free \subseteq Pages /\ m.kstack \in [Users -> Pages \cup {None}]
      /\ m.cr3 \in [Users -> Pages \cup {Boot}]
  BY DEF Sound, Memories
<1>2. x \in KstackPlaces(m)
  <2>1. KstackPlaces(m) \in SUBSET Nat BY <1>1, Constants DEF KstackPlaces
  <2>2. QED BY <2>1, LeastIs
<1>3. setup_kstack(c) = m2 BY DEF setup_kstack, WithKstack
<1> HIDE DEF x
<1>4. /\ Sound(m2) /\ m2.mm = m.mm /\ m2.free = m.free \ Kstack(x)
      /\ m2.kstack = [m.kstack EXCEPT ![c] = x] /\ m2.cr3 = [m.cr3 EXCEPT ![c] = Boot]
      /\ m2.content = m.content /\ m2.swap = m.swap
  BY <1>2, WithKstackIs
<1> HIDE DEF m2
<1>5. x \in m.free /\ x + 1 \in m.free /\ x # None /\ x + 1 # x
  <2>1. x \in m.free /\ x + 1 \in m.free BY <1>2 DEF KstackPlaces
  <2>2. x \in Pages /\ x \in Nat /\ None \notin Pages BY <1>1, <2>1, Constants
  <2>3. x # None BY <2>2
  <2>4. x + 1 # x BY <2>2
  <2>5. QED BY <2>1, <2>3, <2>4
<1>6. Cardinality(m2.free) = Cardinality(m.free) - 2
  <2>1. IsFiniteSet(Pages) BY Constants, FS_Interval DEF Pages
  <2>2. IsFiniteSet(m.free) BY <1>1, <2>1, FS_Subset
  <2> DEFINE F == m.free
             F1 == F \ {x}
             F2 == F1 \ {x + 1}
  <2>3. IsFiniteSet(F1) /\ Cardinality(F1) = Cardinality(F) - 1
    BY <1>5, <2>2, FS_RemoveElement
  <2>4. x + 1 \in F1 BY <1>5
  <2> HIDE DEF F1
  <2>5. Cardinality(F2) = Cardinality(F1) - 1 BY <2>3, <2>4, FS_RemoveElement
  <2>6. m2.free = F2 BY <1>4 DEF Kstack, F1
  <2>7. Cardinality(F) \in Nat BY <2>2, FS_CardinalityType
  <2> HIDE DEF F2, F
  <2>8. QED BY <2>3, <2>5, <2>6, <2>7 DEF F
<1>7. m2.kstack[c] = x /\ m2.cr3[c] = Boot
      /\ \A q \in Users \ {c} : m2.kstack[q] = m.kstack[q] /\ m2.cr3[q] = m.cr3[q]
  BY <1>1, <1>4
<1>8. \A q : Seen(m2, q) = Seen(m, q) BY <1>4 DEF Seen
<1>9. QED BY <1>3, <1>4, <1>5, <1>6, <1>7, <1>8 DEF HasStack

LEMMA KernelThread ==
  ASSUME VmInv(state, m, calls), NEW c \in Users, kernel_thread(c)
  PROVE  VmInv(state', m', calls') /\ View(m') = View(m)
<1>1. ~m.check /\ calls = 0 /\ calls' = 1 /\ KstackPlaces(m) # {} /\ m' = setup_kstack(c)
      /\ state' = [state EXCEPT ![c] = "live"]
  BY DEF kernel_thread
<1>2. /\ Sound(m) /\ Sane(state, m, c) /\ Life(state, m, calls)
      /\ state \in [Users -> {"none", "live", "zombie"}] /\ state[c] = "none"
  BY <1>1 DEF VmInv, Checking, Life
<1>3. m.kstack[c] = None /\ m.mm[c] = NoMm BY <1>2 DEF Sane
<1>4. HasStack(m, m', c) BY <1>1, <1>2, <1>3, KstackIs
<1>5. /\ state' \in [Users -> {"none", "live", "zombie"}] /\ state'[c] = "live"
      /\ \A q \in Users \ {c} : state'[q] = state[q]
  BY <1>1, <1>2
<1>6. Sane(state', m', c) BY <1>3, <1>4, <1>5 DEF Sane, HasStack
<1>7. OnlyLife(state, m, state', m', c) BY <1>4, <1>5, <1>6 DEF OnlyLife, HasStack
<1>8. calls' \in Nat /\ calls' # 0 BY <1>1
<1>9. Life(state', m', calls') BY <1>2, <1>7, <1>8, LifeIs
<1>10. View(m') = View(m) BY <1>4 DEF View, HasStack
<1>11. QED BY <1>4, <1>9, <1>10 DEF VmInv, HasStack

LEMMA DoFork ==
  ASSUME VmInv(state, m, calls), NEW p \in Users, NEW c \in Users, p # c, do_fork(p, c)
  PROVE  /\ VmInv(state', m', calls')
         /\ \/ View(m') = View(m)
            \/ View(m)[c] = Empty /\ View(m') = [View(m) EXCEPT ![c] = View(m)[p]]
<1> DEFINE m1 == setup_kstack(c)
<1>1. Running(p) /\ calls' = calls + 1 /\ state[c] = "none" /\ KstackPlaces(m) # {}
      /\ Cardinality(m.free) - 2 >= Cardinality(Owned(m, p)) /\ m' = copy_mm(m1, p, c)
      /\ state' = [state EXCEPT ![c] = "live"]
  BY DEF do_fork
<1>2. /\ Sound(m) /\ calls \in Nat /\ Life(state, m, calls)
      /\ state \in [Users -> {"none", "live", "zombie"}]
  BY <1>1, RunningIs DEF VmInv
<1>3. Sane(state, m, c) BY <1>2 DEF Life
<1>4. m.kstack[c] = None /\ m.mm[c] = NoMm BY <1>1, <1>3 DEF Sane
<1>5. HasStack(m, m1, c) BY <1>1, <1>2, <1>4, KstackIs
<1> HIDE DEF m1
<1>6. /\ state' \in [Users -> {"none", "live", "zombie"}] /\ state'[c] = "live"
      /\ \A q \in Users \ {c} : state'[q] = state[q]
  BY <1>1, <1>2
<1>7. p \in Procs /\ c \in Procs /\ \A q \in Users : q \in Procs BY DEF Procs
<1>8. calls' \in Nat /\ calls' # 0 BY <1>1, <1>2
<1>9. CASE m.mm[p] = NoMm
  <2>1. m' = m1 BY <1>1, <1>5, <1>9 DEF copy_mm, HasStack
  <2>2. Sane(state', m', c) BY <1>4, <1>5, <1>6, <2>1 DEF Sane, HasStack
  <2>3. OnlyLife(state, m, state', m', c) BY <1>5, <1>6, <2>1, <2>2 DEF OnlyLife, HasStack
  <2>4. Life(state', m', calls') BY <1>2, <1>8, <2>3, LifeIs
  <2>5. View(m') = View(m) BY <1>5, <2>1 DEF View, HasStack
  <2>6. QED BY <1>5, <2>1, <2>4, <2>5 DEF VmInv, HasStack
<1>10. CASE m.mm[p] # NoMm
  <2>1. Sound(m1) /\ m1.mm = m.mm BY <1>5 DEF HasStack
  <2>2. GoodSpace(m.mm[p]) /\ m.mm[p] \in Spaces BY <1>2, <1>7, <1>10 DEF Sound, Memories
  <2>3. Owned(m, p) = Own(m.mm[p]) BY <2>2, OwnedIs
  <2>4. Cardinality(m1.free) >= Cardinality(Own(m1.mm[p])) BY <1>1, <1>5, <2>1, <2>3 DEF HasStack
  <2>5. OnItsOwn(m1, m', c) /\ Seen(m', c) = Seen(m1, p)
    BY <1>1, <1>4, <1>10, <2>1, <2>4, CopyMmIs
  <2>6. ProcStep(m1, m', c) /\ m'.mm[c] # NoMm /\ m'.cr3 = [m1.cr3 EXCEPT ![c] = m'.mm[c].pgdir]
    BY <2>5 DEF OnItsOwn
  <2>7. m1.cr3 \in [Users -> Pages \cup {Boot}] BY <2>1 DEF Sound, Memories
  <2>8. m'.cr3[c] = m'.mm[c].pgdir /\ \A q \in Users \ {c} : m'.cr3[q] = m1.cr3[q]
    BY <2>6, <2>7
  <2>9. Sane(state', m', c) BY <1>5, <1>6, <2>6, <2>8 DEF Sane, ProcStep, HasStack
  <2>10. OnlyLife(state, m, state', m', c)
    BY <1>5, <1>6, <1>7, <2>1, <2>6, <2>8, <2>9 DEF OnlyLife, ProcStep, HasStack
  <2>11. Life(state', m', calls') BY <1>2, <1>8, <2>10, LifeIs
  <2>12. View(m1) = View(m) /\ Seen(m1, p) = View(m)[p] BY <1>5, <1>7 DEF View, HasStack
  <2>13. View(m') = [View(m1) EXCEPT ![c] = Seen(m1, p)] BY <1>7, <2>5, <2>6, StepView
  <2>14. View(m)[c] = Empty BY <1>4, <1>7, NothingSeen DEF View
  <2>15. QED BY <2>6, <2>11, <2>12, <2>13, <2>14 DEF VmInv, ProcStep
<1>11. QED BY <1>9, <1>10

\* During check_swap there are no processes yet.
LEMMA CheckLife ==
  ASSUME VmInv(state, m, calls), m.check, NEW m2, Checking(m2, {})
  PROVE  /\ Checking(m, {}) /\ VmInv(state, m2, calls)
         /\ \A q \in Procs \ {Check} : Seen(m2, q) = Seen(m, q)
<1>1. Checking(m, {}) /\ calls = 0 /\ Life(state, m, calls) BY DEF VmInv, Sound
<1>2. \A q \in Users : /\ m2.mm[q] = NoMm /\ m2.kstack[q] = None /\ m.mm[q] = NoMm
                       /\ state[q] = "none"
  BY <1>1 DEF Checking, Life
<1>3. \A q \in Users : Sane(state, m2, q) BY <1>2 DEF Sane
<1>4. Life(state, m2, calls) BY <1>1, <1>3 DEF Life
<1>5. \A q \in Procs \ {Check} : Seen(m2, q) = Empty /\ Seen(m, q) = Empty
  BY <1>2, NothingSeen DEF Procs
<1>6. QED BY <1>1, <1>4, <1>5 DEF VmInv

\* Who accesses memory.
LEMMA AccessIs ==
  ASSUME VmInv(state, m, calls), NEW p \in Procs, NEW la \in Vas, HasMm(p), InRegion(p, la)
  PROVE  /\ m.check => Checking(m, {}) /\ p = Check /\ la \in 0 .. CheckVp - 1
         /\ ~m.check => /\ Sound(m) /\ p \in Users /\ Running(p) /\ m.mm[p] # NoMm
                        /\ la \in PagesOf(m.mm[p].vmas) /\ GoodSpace(m.mm[p])
<1>1. CASE m.check
  <2>1. Checking(m, {}) BY <1>1 DEF VmInv, Sound
  <2>2. p = Check BY <1>1 DEF HasMm, Running
  <2>3. m.mm[Check].vmas = <<CheckVma>> BY <2>1 DEF Checking, CheckSpace
  <2>4. PICK i \in DOMAIN <<CheckVma>> :
          <<CheckVma>>[i].start <= la /\ la < <<CheckVma>>[i].end
    BY <2>2, <2>3 DEF InRegion
  <2>5. <<CheckVma>>[i] = CheckVma OBVIOUS
  <2>6. 0 <= la /\ la < CheckVp BY <2>4, <2>5 DEF CheckVma
  <2>7. la \in Nat BY Constants
  <2>8. QED BY <1>1, <2>1, <2>2, <2>6, <2>7, Constants
<1>2. CASE ~m.check
  <2>1. Sound(m) BY <1>2 DEF VmInv, Checking
  <2>2. m.mm[p] # NoMm BY DEF HasMm
  <2>3. p \in Users /\ Running(p) BY <2>1, <2>2 DEF HasMm, Running, Sound
  <2>4. GoodSpace(m.mm[p]) BY <2>1, <2>2 DEF Sound
  <2> DEFINE vmas == m.mm[p].vmas
  <2>5. PICK i \in DOMAIN vmas : vmas[i].start <= la /\ la < vmas[i].end BY DEF InRegion
  <2>6. vmas[i].start \in Nat /\ vmas[i].end \in Nat /\ la \in Nat
    BY <2>4, <2>5, RegionsAre, Constants DEF GoodSpace
  <2>7. la \in vmas[i].start .. vmas[i].end - 1 BY <2>5, <2>6
  <2>8. la \in PagesOf(vmas) BY <2>5, <2>7 DEF PagesOf
  <2>9. QED BY <1>2, <2>1, <2>2, <2>3, <2>4, <2>8
<1>3. QED BY <1>1, <1>2

\* An access leaves the processes and their directories alone.
LEMMA AccessLife ==
  ASSUME VmInv(state, m, calls), NEW p \in Users, Running(p), m.mm[p] # NoMm,
         NEW m2, ProcStep(m, m2, p), m2.cr3 = m.cr3, m2.mm[p] # NoMm,
         m2.mm[p].pgdir = m.mm[p].pgdir
  PROVE  VmInv(state, m2, calls)
<1>1. /\ Sound(m) /\ Sane(state, m, p) /\ calls \in Nat /\ calls # 0
      /\ state \in [Users -> {"none", "live", "zombie"}] /\ state[p] = "live"
  BY RunningIs DEF Running
<1>2. Sane(state, m2, p) BY <1>1 DEF Sane, ProcStep
<1>3. \A q \in Users : q \in Procs BY DEF Procs
<1>4. OnlyLife(state, m, state, m2, p) BY <1>1, <1>2, <1>3 DEF OnlyLife, ProcStep
<1>5. Life(state, m, calls) BY DEF VmInv
<1>6. Life(state, m2, calls) BY <1>1, <1>4, <1>5, LifeIs
<1>7. QED BY <1>6 DEF VmInv, ProcStep

LEMMA PgfaultNew ==
  ASSUME VmInv(state, m, calls), NEW p \in Procs, NEW la \in Vas, pgfault_new(p, la)
  PROVE  /\ VmInv(state', m', calls') /\ la \notin DOMAIN View(m)[p]
         /\ \E c \in Values : View(m') = [View(m) EXCEPT ![p] = Put(View(m)[p], la, c)]
<1>1. /\ HasMm(p) /\ InRegion(p, la) /\ la \notin DOMAIN m.mm[p].pte
      /\ m.check \/ Cardinality(m.free) >= 3
      /\ state' = state /\ calls' = calls
  BY DEF pgfault_new
<1>2. PICK c \in Values : m' = pgdir_alloc_page(get_pte(m, p, la), p, la, c)
  BY DEF pgfault_new
<1>3. View(m)[p] = Seen(m, p) /\ DOMAIN Seen(m, p) = DOMAIN m.mm[p].pte BY DEF View, Seen
<1> DEFINE f == Put(Seen(m, p), la, c)
<1>4. CASE m.check
  <2>1. Checking(m, {}) /\ p = Check /\ la \in 0 .. CheckVp - 1 BY <1>1, <1>4, AccessIs
  <2>2. Checking(m', {}) /\ Seen(m', p) = f BY <1>1, <1>2, <2>1, CheckTouchIs
  <2>3. VmInv(state', m', calls') /\ \A q \in Procs \ {p} : Seen(m', q) = Seen(m, q)
    BY <1>1, <1>4, <2>1, <2>2, CheckLife
  <2> HIDE DEF f
  <2>4. View(m') = [View(m) EXCEPT ![p] = Seen(m', p)] BY <2>3, ViewIs
  <2>5. QED BY <1>1, <1>3, <2>2, <2>3, <2>4 DEF f
<1>5. CASE ~m.check
  <2>1. /\ Sound(m) /\ p \in Users /\ Running(p) /\ m.mm[p] # NoMm
        /\ la \in PagesOf(m.mm[p].vmas) /\ Cardinality(m.free) >= 3
    BY <1>1, <1>5, AccessIs
  <2>2. /\ ProcStep(m, m', p) /\ m'.cr3 = m.cr3
        /\ m'.mm[p] # NoMm /\ m'.mm[p].pgdir = m.mm[p].pgdir
        /\ Seen(m', p) = f
    BY <1>1, <1>2, <2>1, TouchIs
  <2>3. VmInv(state', m', calls') BY <1>1, <2>1, <2>2, AccessLife
  <2>4. View(m') = [View(m) EXCEPT ![p] = f] BY <2>2, StepView
  <2>5. QED BY <1>1, <1>3, <2>3, <2>4
<1>6. QED BY <1>4, <1>5

LEMMA PgfaultSwap ==
  ASSUME VmInv(state, m, calls), NEW p \in Procs, NEW la \in Vas, pgfault_swap(p, la)
  PROVE  VmInv(state', m', calls') /\ View(m') = View(m)
<1>1. /\ HasMm(p) /\ InRegion(p, la) /\ la \in DOMAIN m.mm[p].pte /\ ~m.mm[p].pte[la].v
      /\ state' = state /\ calls' = calls
  BY DEF pgfault_swap
<1>2. m.check
  <2>1. SUFFICES ASSUME ~m.check PROVE FALSE OBVIOUS
  <2>2. GoodSpace(m.mm[p]) BY <1>1, <2>1, AccessIs
  <2>3. QED BY <1>1, <2>2 DEF GoodSpace, Shape
<1>3. Checking(m, {}) /\ p = Check BY <1>1, <1>2, AccessIs
<1>4. m' = SwappedIn(m, la) BY <1>3 DEF pgfault_swap, SwappedIn
<1>5. la \notin Mapped(m.mm[Check].pte) BY <1>1, <1>3 DEF Mapped
<1>6. Checking(m', {}) /\ Seen(m', Check) = Seen(m, Check) BY <1>1, <1>3, <1>4, <1>5, CheckSwapInIs
<1>7. VmInv(state', m', calls') /\ \A q \in Procs \ {Check} : Seen(m', q) = Seen(m, q)
  BY <1>1, <1>2, <1>6, CheckLife
<1>8. \A q \in Procs : Seen(m', q) = Seen(m, q) BY <1>6, <1>7
<1>9. QED BY <1>7, <1>8 DEF View

LEMMA DoWrite ==
  ASSUME VmInv(state, m, calls), NEW p \in Procs, NEW la \in Vas, NEW c \in Values, write(p, la, c)
  PROVE  /\ VmInv(state', m', calls') /\ la \in DOMAIN View(m)[p]
         /\ View(m') = [View(m) EXCEPT ![p] = [View(m)[p] EXCEPT ![la] = c]]
<1>1. /\ HasMm(p) /\ InRegion(p, la) /\ la \in DOMAIN m.mm[p].pte /\ m.mm[p].pte[la].v
      /\ m' = Written(m, p, la, c) /\ state' = state /\ calls' = calls
  BY DEF write, IsValid, Written
<1>2. View(m)[p] = Seen(m, p) /\ DOMAIN Seen(m, p) = DOMAIN m.mm[p].pte BY DEF View, Seen
<1> DEFINE f == [Seen(m, p) EXCEPT ![la] = c]
<1>3. CASE m.check
  <2>1. Checking(m, {}) /\ p = Check BY <1>1, <1>3, AccessIs
  <2>2. la \in Mapped(m.mm[Check].pte) BY <1>1, <2>1 DEF Mapped
  <2>3. Checking(m', {}) /\ Seen(m', p) = f BY <1>1, <2>1, <2>2, CheckWriteIs
  <2>4. VmInv(state', m', calls') /\ \A q \in Procs \ {p} : Seen(m', q) = Seen(m, q)
    BY <1>1, <1>3, <2>1, <2>3, CheckLife
  <2> HIDE DEF f
  <2>5. View(m') = [View(m) EXCEPT ![p] = Seen(m', p)] BY <2>4, ViewIs
  <2>6. QED BY <1>1, <1>2, <2>3, <2>4, <2>5 DEF f
<1>4. CASE ~m.check
  <2>1. Sound(m) /\ p \in Users /\ Running(p) /\ m.mm[p] # NoMm BY <1>1, <1>4, AccessIs
  <2> DEFINE m2 == Written(m, p, la, c)
  <2>2. ProcStep(m, m2, p) /\ m2.cr3 = m.cr3 /\ m2.mm = m.mm /\ Seen(m2, p) = f
    BY <1>1, <2>1, WriteIs
  <2> HIDE DEF m2
  <2>3. m' = m2 BY <1>1 DEF m2
  <2>4. VmInv(state', m', calls') BY <1>1, <2>1, <2>2, <2>3, AccessLife
  <2> HIDE DEF f
  <2>5. View(m') = [View(m) EXCEPT ![p] = f] BY <2>2, <2>3, StepView
  <2>6. QED BY <1>1, <1>2, <2>4, <2>5 DEF f
<1>5. QED BY <1>3, <1>4

LEMMA CheckSwapEnds ==
  ASSUME VmInv(state, m, calls), check_swap_ends
  PROVE  VmInv(state', m', calls') /\ View(m') = [View(m) EXCEPT ![Check] = Empty]
<1>1. m.check /\ m' = Ended(m) /\ state' = state /\ calls' = calls BY DEF check_swap_ends, Ended
<1>2. Checking(m, {}) /\ calls = 0 /\ Life(state, m, calls) BY <1>1 DEF VmInv, Sound
<1>3. Sound(m') /\ m'.kstack = m.kstack /\ \A p \in Procs : m'.mm[p] = NoMm
  BY <1>1, <1>2, CheckEndIs
<1>4. \A q \in Users : m.kstack[q] = None /\ state[q] = "none" /\ q \in Procs /\ m.mm[q] = NoMm
  BY <1>2 DEF Checking, Life, Procs
<1>5. \A q \in Users : Sane(state, m', q) BY <1>3, <1>4 DEF Sane
<1>6. Life(state', m', calls') BY <1>1, <1>2, <1>5 DEF Life
<1>7. \A q \in Procs \ {Check} : Seen(m', q) = Seen(m, q)
  BY <1>3, <1>4, NothingSeen DEF Procs
<1>8. Check \in Procs /\ Seen(m', Check) = Empty BY <1>3, NothingSeen DEF Procs
<1>9. View(m') = [View(m) EXCEPT ![Check] = Seen(m', Check)] BY <1>7, <1>8, ViewIs
<1>10. QED BY <1>3, <1>6, <1>8, <1>9 DEF VmInv

-----------------------------------------------------------------------------
(***************************************************************************)
(* The theorems.                                                           *)
(***************************************************************************)
VmIInv == VmInv(state, m, calls)

LEMMA VmInitial ==
  ASSUME Init
  PROVE  VmIInv
<1>1. Checking(m, {}) BY CheckInitIs
<1>2. state = [p \in Users |-> "none"] /\ calls = 0 BY DEF Init
<1>3. \A p \in Users : Sane(state, m, p)
  <2>1. ASSUME NEW p \in Users PROVE Sane(state, m, p)
    <3>1. state[p] = "none" /\ m.mm[p] = NoMm /\ m.kstack[p] = None BY <1>1, <1>2 DEF Checking
    <3>2. QED BY <3>1 DEF Sane
  <2>2. QED BY <2>1
<1>4. Life(state, m, calls) BY <1>2, <1>3 DEF Life
<1>5. QED BY <1>1, <1>2, <1>4 DEF VmIInv, VmInv

LEMMA VmStep ==
  ASSUME VmIInv, [VmNext]_vmvars
  PROVE  VmIInv'
<1>1. VmInv(state, m, calls) BY DEF VmIInv
<1>2. SUFFICES VmInv(state', m', calls') BY DEF VmIInv
<1>3. CASE UNCHANGED vmvars BY <1>1, <1>3 DEF vmvars
<1>4. CASE check_swap_ends BY <1>1, <1>4, CheckSwapEnds
<1>5. ASSUME NEW p \in Users, kernel_thread(p) PROVE VmInv(state', m', calls')
  BY <1>1, <1>5, KernelThread
<1>6. ASSUME NEW p \in Users, do_exit(p) PROVE VmInv(state', m', calls') BY <1>1, <1>6, DoExit
<1>7. ASSUME NEW p \in Users, do_wait(p) PROVE VmInv(state', m', calls') BY <1>1, <1>7, DoWait
<1>8. ASSUME NEW p \in Users, NEW c \in Users \ {p}, do_fork(p, c) PROVE VmInv(state', m', calls')
  BY <1>1, <1>8, DoFork
<1>9. ASSUME NEW p \in Users, NEW prog \in Programs, do_execve(p, prog)
      PROVE  VmInv(state', m', calls')
  BY <1>1, <1>9, DoExecve
<1>10. ASSUME NEW p \in Procs, NEW la \in Vas, pgfault_new(p, la) PROVE VmInv(state', m', calls')
  BY <1>1, <1>10, PgfaultNew
<1>11. ASSUME NEW p \in Procs, NEW la \in Vas, pgfault_swap(p, la) PROVE VmInv(state', m', calls')
  BY <1>1, <1>11, PgfaultSwap
<1>12. ASSUME NEW p \in Procs, NEW la \in Vas, NEW c \in Values, write(p, la, c)
       PROVE  VmInv(state', m', calls')
  BY <1>1, <1>12, DoWrite
<1>13. QED BY <1>3, <1>4, <1>5, <1>6, <1>7, <1>8, <1>9, <1>10, <1>11, <1>12 DEF VmNext

\* Before the end of check_swap there is only its own memory; after it, every page
\* has one owner, every reference count is right and every address space is whole.
THEOREM VmAlways == VmSpec => []VmIInv
<1>1. Init => VmIInv BY VmInitial
<1>2. VmIInv /\ [VmNext]_vmvars => VmIInv' BY VmStep
<1>3. QED BY <1>1, <1>2, PTL DEF VmSpec

LEMMA AddressSpacesIs ==
  ASSUME VmIInv
  PROVE  AddressSpacesSound
<1>1. \A p \in Users : state[p] = "live" =>
        m.cr3[p] = IF m.mm[p] = NoMm THEN Boot ELSE m.mm[p].pgdir
  BY DEF VmIInv, VmInv, Life, Sane
<1>2. ASSUME NEW p \in Procs, m.mm[p] # NoMm
      PROVE  /\ \A la \in DOMAIN m.mm[p].pte :
                  /\ la \div PTSIZE \in DOMAIN m.mm[p].pde0
                  /\ \E i \in DOMAIN m.mm[p].vmas :
                       m.mm[p].vmas[i].start <= la /\ la < m.mm[p].vmas[i].end
             /\ \A t \in DOMAIN m.mm[p].pde0 : (t * PTSIZE) \div PDSIZE \in DOMAIN m.mm[p].pde1
  <2> DEFINE s == m.mm[p]
  <2>1. CASE Sound(m)
    <3>1. GoodSpace(s) BY <1>2, <2>1 DEF Sound
    <3>2. Shape(s, PagesOf(s.vmas)) /\ Regions(s.vmas) BY <3>1 DEF GoodSpace
    <3>3. ASSUME NEW la \in DOMAIN s.pte
          PROVE  \E i \in DOMAIN s.vmas : s.vmas[i].start <= la /\ la < s.vmas[i].end
      <4>1. la \in PagesOf(s.vmas) BY <3>2 DEF Shape
      <4>2. PICK i \in DOMAIN s.vmas : la \in s.vmas[i].start .. s.vmas[i].end - 1
        BY <4>1 DEF PagesOf
      <4>3. s.vmas[i].start \in Nat /\ s.vmas[i].end \in Nat BY <3>2, <4>2, RegionsAre
      <4>4. QED BY <4>2, <4>3
    <3>4. \A la \in DOMAIN s.pte : la \div PTSIZE \in DOMAIN s.pde0 BY <3>2 DEF Shape
    <3>5. \A t \in DOMAIN s.pde0 : (t * PTSIZE) \div PDSIZE \in DOMAIN s.pde1
      BY <3>2 DEF Shape, DirOf
    <3>6. QED BY <3>3, <3>4, <3>5
  <2>2. CASE Checking(m, {})
    <3>1. p = Check /\ CheckSpace(s) BY <1>2, <2>2 DEF Checking, Procs
    <3>2. DOMAIN s.pde0 = {0} /\ DOMAIN s.pde1 = {0} BY <3>1, EmptyIs DEF CheckSpace, Put
    <3>3. DOMAIN s.vmas = {1} /\ s.vmas[1] = CheckVma BY <3>1 DEF CheckSpace
    <3>4. CheckVma.start = 0 /\ CheckVma.end = CheckVp BY DEF CheckVma
    <3>5. ASSUME NEW la \in DOMAIN s.pte
          PROVE  la \div PTSIZE = 0 /\ 0 <= la /\ la < CheckVp
      <4>1. la \in 0 .. CheckVp - 1 BY <3>1 DEF CheckSpace
      <4>2. QED BY <4>1, CheckNumbers, Constants
    <3>6. (0 * PTSIZE) \div PDSIZE = 0
      <4>1. 0 * PTSIZE = 0 /\ PDSIZE * 0 <= 0 /\ 0 < PDSIZE * (0 + 1) BY Constants
      <4>2. 0 \div PDSIZE = 0 BY <4>1, Constants, QuotientIs
      <4>3. QED BY <4>1, <4>2
    <3> HIDE DEF s
    <3>7. QED BY <3>2, <3>3, <3>4, <3>5, <3>6 DEF s
  <2>3. QED BY <2>1, <2>2 DEF VmIInv, VmInv
<1>3. QED BY <1>1, <1>2 DEF AddressSpacesSound

\* No process that can run is on a page directory that is not its own, and
\* whatever it has mapped lies in one of its regions and can be reached.
THEOREM AlwaysAddressSpacesSound == VmSpec => []AddressSpacesSound
<1>1. VmIInv => AddressSpacesSound BY AddressSpacesIs
<1>2. QED BY <1>1, VmAlways, PTL

LEMMA ResidentIs ==
  ASSUME VmIInv
  PROVE  ResidentQueue
<1>1. SUFFICES ASSUME m.check PROVE
        /\ Len(m.pra) = Cardinality(ValidOf(m, Check))
        /\ \A la \in ValidOf(m, Check) :
             \E i \in DOMAIN m.pra : m.pra[i] = [page |-> m.mm[Check].pte[la].at, vaddr |-> la]
  BY DEF ResidentQueue
<1> DEFINE pte == m.mm[Check].pte
           pra == m.pra
           n == Len(pra)
           S == Mapped(pte)
           f == [i \in 1 .. n |-> pra[i].vaddr]
<1>2. Checking(m, {}) BY <1>1 DEF VmIInv, VmInv, Sound
<1>3. pra \in Seq(Orders) /\ Queue(pte, pra) BY <1>2, CheckParts DEF Checking
<1>4. n \in Nat /\ DOMAIN pra = 1 .. n /\ \A i \in 1 .. n : pra[i] \in Orders BY <1>3
<1>5. ValidOf(m, Check) = S BY DEF ValidOf, Mapped
<1> HIDE DEF pte, pra, S, n
<1>6. /\ \A i \in 1 .. n : pra[i].vaddr \in S /\ pra[i].page = pte[pra[i].vaddr].at
      /\ \A i, j \in 1 .. n : pra[i].vaddr = pra[j].vaddr => i = j
      /\ \A la \in S : \E i \in 1 .. n : pra[i].vaddr = la
  BY <1>3 DEF Queue, S, n
<1>7. f \in [1 .. n -> S] /\ (\A i, j \in 1 .. n : f[i] = f[j] => i = j)
      /\ \A la \in S : \E i \in 1 .. n : f[i] = la
  BY <1>6
<1> HIDE DEF f
<1>8. f \in Injection(1 .. n, S)
  <2>1. IsInjective(f) BY <1>7 DEF IsInjective
  <2>2. QED BY <1>7, <2>1 DEF Injection
<1>9. f \in Surjection(1 .. n, S) BY <1>7 DEF Surjection
<1>10. IsFiniteSet(1 .. n) /\ Cardinality(1 .. n) = n BY <1>4, FS_Interval
<1>11. Cardinality(S) = n BY <1>8, <1>9, <1>10, FS_Surjection
<1>12. ASSUME NEW la \in S
       PROVE  \E i \in DOMAIN pra : pra[i] = [page |-> pte[la].at, vaddr |-> la]
  <2>1. PICK i \in 1 .. n : pra[i].vaddr = la BY <1>6
  <2>2. pra[i].page = pte[la].at /\ pra[i] \in Orders BY <1>4, <1>6, <2>1
  <2>3. pra[i] = [page |-> pte[la].at, vaddr |-> la] BY <2>1, <2>2 DEF Orders
  <2>4. QED BY <1>4, <2>3
<1>13. QED BY <1>5, <1>11, <1>12 DEF n, pra, pte

\* The queue of swap_fifo.c has exactly the pages that are in memory, so that its
\* first one can always be swapped out.
THEOREM AlwaysResidentQueue == VmSpec => []ResidentQueue
<1>1. VmIInv => ResidentQueue BY ResidentIs
<1>2. QED BY <1>1, VmAlways, PTL

\* A process without memory owns nothing.
LEMMA OwnedNone ==
  ASSUME NEW mem, NEW p, mem.mm[p] = NoMm
  PROVE  Owned(mem, p) = {} /\ SpaceOf(mem, p) = {}
<1>1. /\ mem.mm[p].pgdir = None /\ mem.mm[p].pde1 = Empty /\ mem.mm[p].pde0 = Empty
      /\ mem.mm[p].pte = Empty
  BY DEF NoMm, NewMm
<1>2. Tables(mem, p) = {} BY <1>1, EmptyIs DEF Tables
<1>3. ValidOf(mem, p) = {} BY <1>1, EmptyIs DEF ValidOf
<1>4. QED BY <1>1, <1>2, <1>3 DEF Owned, SpaceOf

\* PagesAccounted after check_swap ...
LEMMA AccountedLater ==
  ASSUME Sound(m)
  PROVE  PagesAccounted
<1> DEFINE users == UNION {Owned(m, p) : p \in Procs}
           stacks == UNION {KstackOf(p) : p \in Users}
           spaces == {p \in Procs : m.mm[p] # NoMm}
           uses(p) == (IF m.mm[p].pgdir = Boot THEN 0 ELSE 1) + Cardinality(ValidOf(m, p))
                      + Cardinality(DOMAIN m.mm[p].pde1) + Cardinality(DOMAIN m.mm[p].pde0)
<1>1. Stored = {} /\ m \in Memories /\ m.free \subseteq Pages BY DEF Stored, Sound, Memories
<1>2. \A p \in Procs : Owned(m, p) = SpaceOf(m, p)
  <2>1. ASSUME NEW p \in Procs PROVE Owned(m, p) = SpaceOf(m, p)
    <3>1. CASE m.mm[p] = NoMm BY <3>1, OwnedNone
    <3>2. CASE m.mm[p] # NoMm
      <4>1. GoodSpace(m.mm[p]) /\ m.mm[p] \in Spaces BY <3>2 DEF Sound, Memories
      <4>2. QED BY <3>2, <4>1, OwnedIs DEF SpaceOf
    <3>3. QED BY <3>1, <3>2
  <2>2. QED BY <2>1
<1>3. \A p \in Users : KstackOf(p) = StackOf(m, p) BY DEF KstackOf, StackOf
<1>4. Parts(m) /\ Counted(m) BY DEF Sound
<1>5. m.free \cup Stored \cup users \cup stacks = Pages
  <2>1. users \subseteq Pages BY <1>2, <1>4 DEF Parts
  <2>2. stacks \subseteq Pages BY <1>3, <1>4 DEF Parts
  <2>3. \A x \in Pages : x \in m.free \/ x \in users \/ x \in stacks BY <1>2, <1>3, <1>4 DEF Parts
  <2> HIDE DEF users, stacks
  <2>4. QED BY <1>1, <2>1, <2>2, <2>3
<1>6. m.free \cap (Stored \cup users \cup stacks) = {}
  <2>1. m.free \cap users = {} BY <1>2, <1>4 DEF Parts
  <2>2. m.free \cap stacks = {} BY <1>3, <1>4 DEF Parts
  <2> HIDE DEF users, stacks
  <2>3. QED BY <1>1, <2>1, <2>2
<1>7. Stored \cap (users \cup stacks) = {} /\ users \cap stacks = {}
  BY <1>1, <1>2, <1>3, <1>4 DEF Parts
<1>8. \A p, q \in Procs : p # q => Owned(m, p) \cap Owned(m, q) = {} BY <1>2, <1>4 DEF Parts
<1>9. \A p, q \in Users : p # q => KstackOf(p) \cap KstackOf(q) = {} BY <1>3, <1>4 DEF Parts
<1>10. ASSUME NEW p \in spaces PROVE Cardinality(Owned(m, p)) = uses(p)
  <2> DEFINE s == m.mm[p]
  <2>1. GoodSpace(s) /\ s \in Spaces BY DEF Sound, Memories
  <2>2. Owned(m, p) = Own(s) /\ ValidOf(m, p) = DOMAIN s.pte BY <2>1, OwnedIs
  <2>3. Own(s) \subseteq Pages BY <1>4 DEF Parts, SpaceOf
  <2>4. Injective(s) /\ s.pgdir \in Pages BY <2>1 DEF GoodSpace
  <2>5. Cardinality(Own(s)) = 1 + Cardinality(DOMAIN s.pde1) + Cardinality(DOMAIN s.pde0)
                                + Cardinality(DOMAIN s.pte)
        /\ IsFiniteSet(Slots(s)) /\ IsFiniteSet(Own(s))
    BY <2>3, <2>4, SpaceCount
  <2>6. s.pgdir # Boot BY <2>4, Constants
  <2> DEFINE a == Cardinality(DOMAIN s.pde1)
             b == Cardinality(DOMAIN s.pde0)
             c == Cardinality(DOMAIN s.pte)
  <2>7. a \in Nat /\ b \in Nat /\ c \in Nat BY <2>3, <2>4, SpaceCount, FS_CardinalityType
  <2>8. uses(p) = 1 + c + a + b BY <2>2, <2>6
  <2>9. Cardinality(Owned(m, p)) = 1 + a + b + c BY <2>2, <2>5
  <2> HIDE DEF uses, a, b, c
  <2>10. QED BY <2>7, <2>8, <2>9
<1>11. ASSUME NEW x \in Pages
       PROVE  m.ref[x] = IF \E p \in spaces : x \in Owned(m, p) \ {m.mm[p].pgdir} THEN 1 ELSE 0
  <2>1. CASE \E p \in Procs : x \in SpaceOf(m, p)
    <3>1. PICK p \in Procs : x \in SpaceOf(m, p) BY <2>1
    <3>2. m.ref[x] = IF x = m.mm[p].pgdir THEN 0 ELSE 1 BY <1>4, <3>1 DEF Counted
    <3>3. p \in spaces BY <3>1 DEF SpaceOf
    <3>4. \A q \in spaces : x \in Owned(m, q) => q = p BY <1>2, <1>8, <3>1
    <3>5. QED BY <1>2, <3>1, <3>2, <3>3, <3>4
  <2>2. CASE ~\E p \in Procs : x \in SpaceOf(m, p)
    <3>1. m.ref[x] = 0 BY <1>4, <2>2 DEF Parts, Counted
    <3>2. QED BY <1>2, <2>2, <3>1
  <2>3. QED BY <2>1, <2>2
<1>12. QED BY <1>5, <1>6, <1>7, <1>8, <1>9, <1>10, <1>11 DEF PagesAccounted

\* What check_swap owns: its two tables and the mapped frames.
CheckUsed(mem) == CheckFrames \ mem.free

LEMMA CheckOwns ==
  ASSUME NEW mem, Checking(mem, {})
  PROVE  LET s == mem.mm[Check] IN
         /\ Owned(mem, Check) = {0, 1} \cup CheckUsed(mem)
         /\ ValidOf(mem, Check) = Mapped(s.pte)
         /\ DOMAIN s.pde1 = {0} /\ DOMAIN s.pde0 = {0} /\ s.pgdir = Boot
         /\ CheckUsed(mem) \subseteq Pages /\ {0, 1} \cap CheckUsed(mem) = {}
         /\ IsFiniteSet(CheckUsed(mem)) /\ Cardinality(CheckUsed(mem)) = Cardinality(Mapped(s.pte))
<1> DEFINE s == mem.mm[Check]
           S == Mapped(s.pte)
           F == CheckUsed(mem)
           f == [la \in S |-> s.pte[la].at]
<1>1. CheckSpace(s) /\ Frames(s.pte, mem.free, mem.ref, {}) BY DEF Checking
<1>2. ValidOf(mem, Check) = S BY DEF ValidOf, Mapped
<1>3. /\ DOMAIN s.pde1 = {0} /\ s.pde1[0] = 0 /\ DOMAIN s.pde0 = {0} /\ s.pde0[0] = 1
      /\ s.pgdir = Boot
  <2> HIDE DEF s
  <2>1. s.pde1 = Put(Empty, 0, 0) /\ s.pde0 = Put(Empty, 0, 1) /\ s.pgdir = Boot
    BY <1>1 DEF CheckSpace
  <2>2. \A y : DOMAIN Put(Empty, 0, y) = {0} /\ Put(Empty, 0, y)[0] = y BY EmptyIs DEF Put
  <2>3. QED BY <2>1, <2>2
<1>4. Tables(mem, Check) = {0, 1} BY <1>3 DEF Tables
<1>5. /\ \A la \in S : s.pte[la].at \in F
      /\ \A a, b \in S : s.pte[a].at = s.pte[b].at => a = b
      /\ \A x \in F : \E la \in S : x = s.pte[la].at
  BY <1>1 DEF Frames, CheckUsed
<1>6. F \subseteq Pages /\ {0, 1} \cap F = {} BY CheckNumbers DEF CheckUsed
<1> HIDE DEF S, F, s
<1>7. {s.pte[la].at : la \in S} = F BY <1>5
<1>8. Owned(mem, Check) = {0, 1} \cup F
  <2>1. Owned(mem, Check) = ({s.pgdir} \ {Boot, None}) \cup Tables(mem, Check)
                            \cup {s.pte[la].at : la \in S}
    BY <1>2 DEF Owned, s
  <2>2. {s.pgdir} \ {Boot, None} = {} BY <1>3
  <2>3. QED BY <1>4, <1>7, <2>1, <2>2
<1>9. IsFiniteSet(F)
  <2>1. IsFiniteSet(Pages) BY Constants, FS_Interval DEF Pages
  <2>2. QED BY <1>6, <2>1, FS_Subset
<1>10. f \in [S -> F] /\ (\A a, b \in S : f[a] = f[b] => a = b)
       /\ \A x \in F : \E la \in S : f[la] = x
  BY <1>5
<1> HIDE DEF f
<1>11. f \in Injection(S, F) BY <1>10 DEF Injection, IsInjective
<1>12. f \in Surjection(S, F) BY <1>10 DEF Surjection
<1>13. Cardinality(F) = Cardinality(S) BY <1>9, <1>11, <1>12, FS_Injection
<1>14. QED BY <1>2, <1>3, <1>6, <1>8, <1>9, <1>13 DEF S, F, s

\* ... and during it.
LEMMA AccountedDuring ==
  ASSUME Checking(m, {})
  PROVE  PagesAccounted
<1> DEFINE users == UNION {Owned(m, p) : p \in Procs}
           stacks == UNION {KstackOf(p) : p \in Users}
           spaces == {p \in Procs : m.mm[p] # NoMm}
           uses(p) == (IF m.mm[p].pgdir = Boot THEN 0 ELSE 1) + Cardinality(ValidOf(m, p))
                      + Cardinality(DOMAIN m.mm[p].pde1) + Cardinality(DOMAIN m.mm[p].pde0)
           s == m.mm[Check]
           O == Owned(m, Check)
           F == CheckUsed(m)
<1>1. m.check /\ \A p \in Users : m.mm[p] = NoMm /\ m.kstack[p] = None BY DEF Checking
<1>2. /\ O = {0, 1} \cup F /\ ValidOf(m, Check) = Mapped(s.pte)
      /\ DOMAIN s.pde1 = {0} /\ DOMAIN s.pde0 = {0} /\ s.pgdir = Boot
      /\ F \subseteq Pages /\ {0, 1} \cap F = {}
      /\ IsFiniteSet(F) /\ Cardinality(F) = Cardinality(Mapped(s.pte))
  BY CheckOwns
<1>3. Check \in Procs /\ (\A p \in Users : p \in Procs) /\ \A p \in Procs : p = Check \/ p \in Users
  BY DEF Procs
<1>4. \A p \in Users : Owned(m, p) = {} /\ KstackOf(p) = {} BY <1>1, OwnedNone DEF KstackOf
<1>5. users = O /\ stacks = {}
  <2>1. \A x : x \in users <=> x \in O BY <1>3, <1>4
  <2>2. \A x : x \notin stacks BY <1>4
  <2> HIDE DEF users, stacks, O
  <2>3. QED BY <2>1, <2>2
<1>6. Stored = CheckRp + 2 .. NP - 1 BY <1>1 DEF Stored
<1>7. m.free \subseteq CheckFrames BY DEF Checking, Frames
<1>8. Pages = {0, 1} \cup CheckFrames \cup Stored BY <1>6, Constants DEF Pages, CheckFrames
<1>9. Stored \cap {0, 1} = {} /\ Stored \cap CheckFrames = {} BY <1>6, Constants DEF CheckFrames
<1>10. F = CheckFrames \ m.free BY DEF CheckUsed
<1>11. 0 \notin CheckFrames /\ 1 \notin CheckFrames BY CheckNumbers
<1>12. s # NoMm
  <2>1. NoMm.pgdir = None BY DEF NoMm, NewMm
  <2>2. QED BY <1>2, <2>1, Constants
<1>13. spaces = {Check} BY <1>1, <1>3, <1>12
<1>14. \A x \in Pages : m.ref[x] = IF x \in O THEN 1 ELSE 0
  <2>1. \A x \in Pages : m.ref[x] = IF x \in {0, 1} \cup (CheckFrames \ m.free) THEN 1 ELSE 0
    BY DEF Checking, Frames
  <2> HIDE DEF O
  <2>2. QED BY <1>2, <1>10, <2>1
<1>15. Cardinality(O) = uses(Check)
  <2>1. IsFiniteSet({0, 1}) /\ Cardinality({0, 1}) = 2
    <3>1. IsFiniteSet({0}) /\ Cardinality({0}) = 1 BY FS_Singleton
    <3>2. IsFiniteSet({1}) /\ Cardinality({1}) = 1 BY FS_Singleton
    <3>3. {0} \cap {1} = {} /\ {0} \cup {1} = {0, 1} OBVIOUS
    <3>4. QED BY <3>1, <3>2, <3>3, DisjointCount
  <2> HIDE DEF O, F, uses
  <2>2. Cardinality(O) = 2 + Cardinality(F) BY <1>2, <2>1, DisjointCount
  <2>3. Cardinality({0}) = 1 BY FS_Singleton
  <2>4. uses(Check) = 0 + Cardinality(ValidOf(m, Check)) + 1 + 1 BY <1>2, <2>3 DEF uses, s
  <2>5. Cardinality(F) \in Nat BY <1>2, FS_CardinalityType
  <2>6. QED BY <1>2, <2>2, <2>4, <2>5
<1>16. \A p \in spaces : Cardinality(Owned(m, p)) = uses(p)
  <2> HIDE DEF uses
  <2>1. QED BY <1>13, <1>15
<1>17. \A x \in Pages :
         m.ref[x] = IF \E p \in spaces : x \in Owned(m, p) \ {m.mm[p].pgdir} THEN 1 ELSE 0
  <2>1. Boot \notin Pages BY Constants
  <2> HIDE DEF spaces, s
  <2>2. m.mm[Check].pgdir = Boot BY <1>2 DEF s
  <2>3. \A x \in Pages : (\E p \in spaces : x \in Owned(m, p) \ {m.mm[p].pgdir}) <=> x \in O
    BY <1>13, <2>1, <2>2
  <2> HIDE DEF O
  <2>4. QED BY <1>14, <2>3
<1>18. \A p, q \in Procs : p # q => Owned(m, p) \cap Owned(m, q) = {} BY <1>3, <1>4
<1>19. \A p, q \in Users : p # q => KstackOf(p) \cap KstackOf(q) = {} BY <1>4
<1> DEFINE st == Stored
           fr == m.free
           cf == CheckFrames
<1>20. /\ fr \cup st \cup users \cup stacks = Pages
       /\ fr \cap (st \cup users \cup stacks) = {}
       /\ st \cap (users \cup stacks) = {} /\ users \cap stacks = {}
  <2> HIDE DEF st, fr, users, stacks, O, F
  <2>1. F = cf \ fr /\ fr \subseteq cf BY <1>7, <1>10 DEF fr
  <2>2. Pages = {0, 1} \cup cf \cup st /\ st \cap {0, 1} = {} /\ st \cap cf = {}
    BY <1>8, <1>9 DEF st
  <2> HIDE DEF cf
  <2>3. 0 \notin cf /\ 1 \notin cf BY <1>11 DEF cf
  <2>4. QED BY <1>2, <1>5, <2>1, <2>2, <2>3
<1>21. QED BY <1>16, <1>17, <1>18, <1>19, <1>20 DEF PagesAccounted

\* No path of fork, exec, a failed exec, exit, wait and swapping loses a page, gives
\* it to two, frees it while it is used or miscounts its references.
THEOREM AlwaysPagesAccounted == VmSpec => []PagesAccounted
<1>1. VmIInv => PagesAccounted BY AccountedLater, AccountedDuring DEF VmIInv, VmInv
<1>2. QED BY <1>1, VmAlways, PTL

-----------------------------------------------------------------------------
(***************************************************************************)
(* The address spaces implement UserMemory.                                *)
(***************************************************************************)
\* What the segments say is what UserMemory takes for the image of the file.
LEMMA ImageIs ==
  ASSUME NEW prog \in Programs, IsGood(prog)
  PROVE  LET n == GoodSegs(prog) IN
         /\ ImageOf(prog) = SegIm(prog, n)
         /\ DOMAIN SegIm(prog, n) = PagesUpTo(prog, n) /\ PagesUpTo(prog, n) \cap Loaded = {}
<1> DEFINE n == GoodSegs(prog)
           segs == prog.segs
           D == PagesUpTo(prog, n)
           j(la) == CHOOSE i \in DOMAIN segs : segs[i].start <= la /\ la < segs[i].end
<1>1. n \in Nat /\ DOMAIN segs = 1 .. n /\ Apart(prog, n) BY SegmentsAre, GoodSegsIs
<1>2. \A i \in 1 .. n : IsSegment(segs[i]) /\ segs[i].end <= StackFrom
  BY SegmentsAre, GoodSegsIs
<1>3. PagesOf(segs) = D BY <1>1 DEF PagesOf, PagesUpTo, SegPages
<1>4. D \cap Loaded = {}
  <2>1. SUFFICES ASSUME NEW la \in D, la \in Loaded PROVE FALSE OBVIOUS
  <2>2. PICK i \in 1 .. n : la \in segs[i].start .. segs[i].end - 1
    BY <2>1 DEF PagesUpTo, SegPages
  <2>3. segs[i].start \in Nat /\ segs[i].end \in Nat /\ segs[i].end <= StackFrom
    BY <1>2, <2>2, Constants DEF IsSegment
  <2>4. la < StackFrom BY <2>2, <2>3, Constants
  <2>5. QED BY <2>1, <2>4, Constants DEF Loaded
<1> HIDE DEF n, segs, D
<1>5. ASSUME NEW la \in D PROVE segs[j(la)].image[la] = SegIm(prog, n)[la]
  <2>1. PICK i \in 1 .. n : la \in segs[i].start .. segs[i].end - 1
    BY <1>5 DEF PagesUpTo, SegPages, D, segs
  <2>2. segs[i].start \in Nat /\ segs[i].end \in Nat BY <1>2, <2>1, Constants DEF IsSegment
  <2>3. segs[i].start <= la /\ la < segs[i].end /\ la \in Int BY <2>1, <2>2
  <2>4. j(la) \in 1 .. n /\ segs[j(la)].start <= la /\ la < segs[j(la)].end
    BY <1>1, <2>1, <2>3
  <2> DEFINE k == j(la)
  <2>5. k \in 1 .. n /\ segs[k].start <= la /\ la < segs[k].end BY <2>4
  <2> HIDE DEF k, j
  <2>6. segs[k].start \in Nat /\ segs[k].end \in Nat BY <1>2, <2>5, Constants DEF IsSegment
  <2>7. la \in SegPages(segs[k]) /\ la \in SegPages(segs[i])
    BY <2>1, <2>3, <2>5, <2>6 DEF SegPages
  <2>8. SegIm(prog, n)[la] = segs[k].image[la] BY <1>1, <2>5, <2>7, SegImIs DEF segs
  <2>9. QED BY <2>8 DEF k
<1>6. ImageOf(prog) = [la \in D |-> segs[j(la)].image[la]] BY <1>3 DEF ImageOf, segs
<1>7. DOMAIN SegIm(prog, n) = D BY DEF SegIm, D
<1>8. ImageOf(prog) = SegIm(prog, n)
  <2>1. SegIm(prog, n) = [la \in D |-> SegIm(prog, n)[la]] BY <1>7 DEF SegIm, D
  <2> HIDE DEF j
  <2>2. QED BY <1>5, <1>6, <2>1
<1>9. QED BY <1>4, <1>7, <1>8 DEF n, D

\* A new program finds its own pages as in the file, and the stack.
LEMMA ProgramImageIs ==
  ASSUME NEW prog \in Programs, IsGood(prog), NEW old \in [Loaded -> Values]
  PROVE  LET im == ImageOf(prog) IN
         ProgramImage(prog, old)
           = [la \in DOMAIN im \cup Loaded |-> IF la \in DOMAIN im THEN im[la] ELSE old[la]]
<1> DEFINE im == ImageOf(prog)
           D == PagesUpTo(prog, GoodSegs(prog))
           f == Over(Empty, im, D)
<1>1. im = SegIm(prog, GoodSegs(prog)) /\ DOMAIN im = D /\ D \cap Loaded = {} BY ImageIs
<1>2. ProgramImage(prog, old) = Over(f, old, Loaded) BY <1>1 DEF ProgramImage
<1> HIDE DEF im, D
<1>3. DOMAIN f = D /\ \A la \in D : f[la] = im[la] BY <1>1, EmptyIs DEF Over
<1> HIDE DEF f
<1>4. DOMAIN old = Loaded OBVIOUS
<1> DEFINE g == Over(f, old, Loaded)
<1>5. g = [la \in D \cup Loaded |-> IF la \in Loaded THEN old[la] ELSE f[la]]
  BY <1>3, <1>4 DEF Over
<1>6. \A la \in D \cup Loaded :
        (IF la \in Loaded THEN old[la] ELSE f[la]) = IF la \in D THEN im[la] ELSE old[la]
  BY <1>1, <1>3
<1> HIDE DEF g
<1>7. g = [la \in D \cup Loaded |-> IF la \in D THEN im[la] ELSE old[la]] BY <1>5, <1>6
<1>8. QED BY <1>1, <1>2, <1>7 DEF g, im

\* The steps of UserMemory, as they change the view.
UserStep(v, v2) ==
  \/ v2 = v
  \/ \E p \in Procs : v2 = [v EXCEPT ![p] = Empty]
  \/ \E p \in Procs, prog \in Programs : \E old \in [Loaded -> Values] :
       IsGood(prog) /\ v2 = [v EXCEPT ![p] = ProgramImage(prog, old)]
  \/ \E p \in Procs : \E c \in Procs \ {p} : v[c] = Empty /\ v2 = [v EXCEPT ![c] = v[p]]
  \/ \E p \in Procs, la \in Vas, c \in Values :
       la \in DOMAIN v[p] /\ v2 = [v EXCEPT ![p] = [v[p] EXCEPT ![la] = c]]
  \/ \E p \in Procs, la \in Vas, c \in Values :
       la \notin DOMAIN v[p] /\ v2 = [v EXCEPT ![p] = Put(v[p], la, c)]

LEMMA ViewStep ==
  ASSUME VmIInv, [VmNext]_vmvars
  PROVE  UserStep(View(m), View(m'))
<1>1. VmInv(state, m, calls) BY DEF VmIInv
<1>2. Check \in Procs /\ \A p \in Users : p \in Procs BY DEF Procs
<1> DEFINE Goal == UserStep(View(m), View(m'))
<1>3. CASE UNCHANGED vmvars BY <1>3 DEF vmvars, UserStep
<1>4. CASE check_swap_ends BY <1>1, <1>2, <1>4, CheckSwapEnds DEF UserStep
<1>5. ASSUME NEW p \in Users, kernel_thread(p) PROVE Goal
  BY <1>1, <1>5, KernelThread DEF UserStep
<1>6. ASSUME NEW p \in Users, do_exit(p) PROVE Goal BY <1>1, <1>2, <1>6, DoExit DEF UserStep
<1>7. ASSUME NEW p \in Users, do_wait(p) PROVE Goal BY <1>1, <1>7, DoWait DEF UserStep
<1>8. ASSUME NEW p \in Users, NEW c \in Users \ {p}, do_fork(p, c) PROVE Goal
  <2>1. \/ View(m') = View(m)
        \/ View(m)[c] = Empty /\ View(m') = [View(m) EXCEPT ![c] = View(m)[p]]
    BY <1>1, <1>8, DoFork
  <2>2. p \in Procs /\ c \in Procs \ {p} BY <1>2
  <2>3. QED BY <2>1, <2>2 DEF UserStep
<1>9. ASSUME NEW p \in Users, NEW prog \in Programs, do_execve(p, prog) PROVE Goal
  BY <1>1, <1>2, <1>9, DoExecve DEF UserStep
<1>10. ASSUME NEW p \in Procs, NEW la \in Vas, pgfault_new(p, la) PROVE Goal
  BY <1>1, <1>10, PgfaultNew DEF UserStep
<1>11. ASSUME NEW p \in Procs, NEW la \in Vas, pgfault_swap(p, la) PROVE Goal
  BY <1>1, <1>11, PgfaultSwap DEF UserStep
<1>12. ASSUME NEW p \in Procs, NEW la \in Vas, NEW c \in Values, write(p, la, c) PROVE Goal
  BY <1>1, <1>12, DoWrite DEF UserStep
<1> HIDE DEF Goal
<1>13. Goal
  <2>1. CASE UNCHANGED vmvars BY <1>3, <2>1 DEF Goal
  <2>2. CASE VmNext
    BY <1>4, <1>5, <1>6, <1>7, <1>8, <1>9, <1>10, <1>11, <1>12, <2>2 DEF VmNext, Goal
  <2>3. QED BY <2>1, <2>2
<1>14. QED BY <1>13 DEF Goal

Seeing == [p \in Procs |-> Seen(m, p)]
UserImages == {ImageOf(prog) : prog \in {q \in Programs : IsGood(q)}}

\* Each of them is one of UserMemory, or a stutter.
LEMMA UserStepIs ==
  ASSUME UserStep(Seeing, Seeing')
  PROVE  [Abstract!Next]_Seeing
<1> DEFINE v == Seeing
<1>1. Abstract!Nothing = Empty BY DEF Abstract!Nothing, Empty
<1>2. v = [p \in Procs |-> Seen(m, p)] /\ v' = [p \in Procs |-> Seen(m, p)]' BY DEF Seeing
<1>3. CASE v' = v BY <1>3
<1>4. ASSUME NEW p \in Procs, v' = [v EXCEPT ![p] = Empty] PROVE Abstract!Next
  <2>1. Abstract!Clear(p) BY <1>1, <1>2, <1>4 DEF Abstract!Clear
  <2>2. QED BY <2>1 DEF Abstract!Next
<1>5. ASSUME NEW p \in Procs, NEW prog \in Programs, NEW old \in [Loaded -> Values], IsGood(prog),
             v' = [v EXCEPT ![p] = ProgramImage(prog, old)]
      PROVE  Abstract!Next
  <2> DEFINE im == ImageOf(prog)
  <2>1. im \in UserImages BY <1>5 DEF UserImages
  <2>2. ProgramImage(prog, old)
          = [la \in DOMAIN im \cup Loaded |-> IF la \in DOMAIN im THEN im[la] ELSE old[la]]
    BY <1>5, ProgramImageIs
  <2> HIDE DEF im
  <2>3. v' = [v EXCEPT ![p] =
                [la \in DOMAIN im \cup Loaded |-> IF la \in DOMAIN im THEN im[la] ELSE old[la]]]
    BY <1>5, <2>2
  <2>4. \E i \in UserImages : \E s \in [Loaded -> Values] :
          v' = [v EXCEPT ![p] = [la \in DOMAIN i \cup Loaded |->
                                  IF la \in DOMAIN i THEN i[la] ELSE s[la]]]
    BY <2>1, <2>3
  <2>5. Abstract!Load(p) BY <2>4 DEF Abstract!Load, UserImages, Seeing
  <2>6. QED BY <2>5 DEF Abstract!Next
<1>6. ASSUME NEW p \in Procs, NEW c \in Procs \ {p}, v[c] = Empty, v' = [v EXCEPT ![c] = v[p]]
      PROVE  Abstract!Next
  <2>1. Abstract!Fork(p, c) BY <1>1, <1>2, <1>6 DEF Abstract!Fork
  <2>2. QED BY <2>1 DEF Abstract!Next
<1>7. ASSUME NEW p \in Procs, NEW la \in Vas, NEW c \in Values, la \in DOMAIN v[p],
             v' = [v EXCEPT ![p] = [v[p] EXCEPT ![la] = c]]
      PROVE  Abstract!Next
  <2>1. v' = [v EXCEPT ![p][la] = c] BY <1>7
  <2>2. Abstract!Write(p, la) BY <1>2, <1>7, <2>1 DEF Abstract!Write
  <2>3. la \in DOMAIN [q \in Procs |-> Seen(m, q)][p] BY <1>2, <1>7
  <2>4. QED BY <2>2, <2>3 DEF Abstract!Next
<1>8. ASSUME NEW p \in Procs, NEW la \in Vas, NEW c \in Values, la \notin DOMAIN v[p],
             v' = [v EXCEPT ![p] = Put(v[p], la, c)]
      PROVE  Abstract!Next
  <2>1. v' = [v EXCEPT ![p] = [a \in DOMAIN v[p] \cup {la} |-> IF a = la THEN c ELSE v[p][a]]]
    BY <1>8 DEF Put
  <2>2. v' = [v EXCEPT ![p] = [a \in DOMAIN @ \cup {la} |-> IF a = la THEN c ELSE @[a]]] BY <2>1
  <2>3. Abstract!Touch(p, la) BY <1>2, <1>8, <2>2 DEF Abstract!Touch
  <2>4. QED BY <2>3 DEF Abstract!Next
<1>9. QED BY <1>3, <1>4, <1>5, <1>6, <1>7, <1>8 DEF UserStep

\* To the processes, all this is a memory of their own: fork copies it, exec replaces
\* it, only its owner writes to it, and a page comes back from the device as it was.
THEOREM VmImplementsUserMemory == VmSpec => UserMemorySpec
<1>1. Seeing = View(m) /\ Seeing' = View(m') BY DEF Seeing, View
<1>2. Init => Abstract!Init
  <2>1. SUFFICES ASSUME Init PROVE Abstract!Init OBVIOUS
  <2>2. \A p \in Procs : Seen(m, p) = Empty BY <2>1, CheckInitIs
  <2>3. Abstract!Nothing = Empty BY DEF Abstract!Nothing, Empty
  <2>4. QED BY <2>2, <2>3 DEF Abstract!Init
<1>3. VmIInv /\ [VmNext]_vmvars => [Abstract!Next]_([p \in Procs |-> Seen(m, p)])
  <2>1. SUFFICES ASSUME VmIInv, [VmNext]_vmvars
                 PROVE  [Abstract!Next]_([p \in Procs |-> Seen(m, p)])
    OBVIOUS
  <2>2. [Abstract!Next]_Seeing BY <1>1, <2>1, ViewStep, UserStepIs
  <2>3. QED BY <2>2 DEF Seeing
<1>4. QED BY <1>2, <1>3, VmAlways, PTL DEF VmSpec, UserMemorySpec, Abstract!Spec
=============================================================================
