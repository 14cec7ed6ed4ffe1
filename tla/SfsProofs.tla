------------------------------ MODULE SfsProofs ------------------------------
(***************************************************************************)
(* Theorems about the Simple File System under its open files.             *)
(*                                                                         *)
(* The blocks of a file are described by its map: for each place, the      *)
(* block there or 0.  Place -1 is the indirect block, places 0, 1, ... are *)
(* the blocks of the file in order.  Sound says that such a map, the free  *)
(* map and the blocks O that belong to others make up the disk without     *)
(* overlap.  Lemmas say what the functions of sfs_inode.c make of a sound  *)
(* state; they never touch a block of O.                                   *)
(***************************************************************************)
EXTENDS Sfs, FiniteSetTheorems, SequenceTheorems, WellFoundedInduction, TLAPS

Cells == Marks \cup Blocks
Offsets == 0 .. SFS_BLKSIZE - 1
Disks == [Blocks -> [Offsets -> Cells]]

\* The outcomes of an operation.
Rets == {"ok", "E_NO_MEM", "E_INVAL", "index_out_of_range", "index_beyond_blocks",
         "block_out_of_range", "blocks_differ", "blkno_is_0"}

\* The records of the block map.
States == [free : SUBSET Blocks, disk : Disks, din : DiskInode, dirty : BOOLEAN,
           ino : Blocks, alen : Nat, got : Seq(Cells), ret : Rets]

MaxBlocks == SFS_NDIRECT + SFS_BLKSIZE
Places == -1 .. MaxBlocks - 1
DataPlaces == 0 .. MaxBlocks - 1

\* The block at place k of the file with inode d.
At(dk, d, k) ==
  IF k = -1 THEN d.indirect
  ELSE IF k < SFS_NDIRECT THEN d.direct[k]
  ELSE IF d.indirect = 0 THEN 0 ELSE dk[d.indirect][k - SFS_NDIRECT]

MapOf(dk, d) == [k \in Places |-> At(dk, d, k)]

Sound(free, A, O) ==
  /\ free \subseteq Blocks /\ A \in [Places -> Blocks] /\ 0 \in O
  /\ \A j, k \in Places : A[j] = A[k] /\ A[j] # 0 => j = k
  /\ \A k \in Places : A[k] # 0 => A[k] \notin free /\ A[k] \notin O
  /\ free \cap O = {}
  /\ \A b \in Blocks : b \in free \/ b \in O \/ \E k \in Places : A[k] = b

\* Cell j of block k of the file.
CellAt(dk, d, k, j) == LET b == At(dk, d, k) IN IF b = 0 THEN 0 ELSE dk[b][j]

-----------------------------------------------------------------------------
(* Numbers, sets of numbers and loops.                                     *)

LEMMA Constants ==
  /\ SFS_BLKSIZE \in Nat /\ SFS_BLKSIZE > 0 /\ SFS_NDIRECT \in Nat /\ SFS_NDIRECT > 0
  /\ SFS_MAX_FILE_SIZE \in Nat /\ NBlocks \in Nat
  /\ MaxBlocks \in Nat /\ MaxBlocks > SFS_NDIRECT
  /\ 0 \in Reserved /\ 0 \in Blocks /\ Blocks \subseteq Nat /\ Blocks \subseteq Cells /\ 0 \in Cells
  /\ Offsets \subseteq Nat /\ Places \subseteq Int /\ DataPlaces \subseteq Places /\ DataPlaces \subseteq Nat
<1>1. Cardinality(Files) \in Nat BY SfsAssumption, FS_CardinalityType
<1>2. 0 \in Reserved BY <1>1 DEF Reserved
<1>3. QED BY <1>2, SfsAssumption DEF Blocks, Cells, MaxBlocks, Offsets, Places, DataPlaces

\* Every nonempty set of natural numbers has a least element.
LEMMA NatLeast ==
  ASSUME NEW T \in SUBSET Nat, T # {}
  PROVE  \E x \in T : \A y \in T : x <= y
<1> DEFINE R == OpToRel(<, Nat)
<1>1. IsWellFoundedOn(R, Nat) BY NatLessThanWellFounded
<1>2. \A x, y \in Nat : x < y => <<x, y>> \in R BY DEF OpToRel
<1> HIDE DEF R
<1>3. PICK x \in T : \A y \in T : ~(<<y, x>> \in R) BY <1>1, WFMin
<1>4. \A y \in T : ~(y < x) BY <1>2, <1>3
<1>5. \A y \in T : x \in Nat /\ y \in Nat OBVIOUS
<1>6. QED BY <1>4, <1>5

\* A set of natural numbers with 0 and with the successors of its members
\* has them all.
LEMMA SetInduction ==
  ASSUME NEW S, 0 \in S, \A n \in Nat : n \in S => n + 1 \in S
  PROVE  Nat \subseteq S
<1>1. SUFFICES ASSUME Nat \ S # {} PROVE FALSE OBVIOUS
<1>2. PICK x \in Nat \ S : \A y \in Nat \ S : x <= y BY <1>1, NatLeast
<1>3. x # 0 OBVIOUS
<1>4. x - 1 \in Nat /\ x - 1 \notin Nat \ S BY <1>2, <1>3
<1>5. QED BY <1>4

\* Positions and blocks.
LEMMA Division ==
  /\ \A i \in Nat : i \div SFS_BLKSIZE \in Nat /\ i % SFS_BLKSIZE \in Offsets
  /\ \A i, j \in Nat : i \div SFS_BLKSIZE = j \div SFS_BLKSIZE /\ i % SFS_BLKSIZE = j % SFS_BLKSIZE => i = j
<1>1. SFS_BLKSIZE \in Nat /\ SFS_BLKSIZE > 0 BY Constants
<1>2. \A i \in Nat : i \div SFS_BLKSIZE \in Nat /\ i % SFS_BLKSIZE \in Offsets BY <1>1 DEF Offsets
<1>3. \A i \in Nat : i = SFS_BLKSIZE * (i \div SFS_BLKSIZE) + (i % SFS_BLKSIZE) BY <1>1
<1>4. QED BY <1>2, <1>3

LEMMA CeilIs ==
  /\ Ceil(0) = 0
  /\ \A n \in Nat : Ceil(n) \in Nat
  /\ \A n \in Nat, i \in Nat : i < n => i \div SFS_BLKSIZE < Ceil(n)
<1>1. SFS_BLKSIZE \in Nat /\ SFS_BLKSIZE > 0 BY Constants
<1>2. Ceil(0) = 0 BY <1>1 DEF Ceil
<1>3. \A n \in Nat : Ceil(n) \in Nat BY <1>1 DEF Ceil
<1>4. ASSUME NEW n \in Nat, NEW i \in Nat, i < n PROVE i \div SFS_BLKSIZE < Ceil(n)
  <2>1. n + SFS_BLKSIZE - 1 >= i + SFS_BLKSIZE BY <1>1, <1>4
  <2>2. (n + SFS_BLKSIZE - 1) \div SFS_BLKSIZE >= (i + SFS_BLKSIZE) \div SFS_BLKSIZE BY <1>1, <2>1
  <2>3. (i + SFS_BLKSIZE) \div SFS_BLKSIZE = i \div SFS_BLKSIZE + 1 BY <1>1
  <2>4. QED BY <1>1, <2>2, <2>3 DEF Ceil
<1>5. QED BY <1>2, <1>3, <1>4

\* Positions that stay within a block, and the first one of the next block.
LEMMA SameBlock ==
  ASSUME NEW a \in Nat, NEW t \in Nat
  PROVE  /\ (a % SFS_BLKSIZE) + t < SFS_BLKSIZE =>
              (a + t) \div SFS_BLKSIZE = a \div SFS_BLKSIZE /\ (a + t) % SFS_BLKSIZE = (a % SFS_BLKSIZE) + t
         /\ (a % SFS_BLKSIZE) + t = SFS_BLKSIZE =>
              (a + t) \div SFS_BLKSIZE = a \div SFS_BLKSIZE + 1 /\ (a + t) % SFS_BLKSIZE = 0
<1> DEFINE B == SFS_BLKSIZE
           q == a \div B
           m == a % B
<1>1. B \in Nat /\ B > 0 BY Constants
<1>2. q \in Nat /\ m \in Nat /\ m < B /\ a = B * q + m BY <1>1
<1> HIDE DEF B, q, m
<1>3. ASSUME m + t < B PROVE (a + t) \div B = q /\ (a + t) % B = m + t
  <2>1. a + t = B * q + (m + t) BY <1>1, <1>2
  <2>2. QED BY <1>1, <1>2, <1>3, <2>1
<1>4. ASSUME m + t = B PROVE (a + t) \div B = q + 1 /\ (a + t) % B = 0
  <2>1. a + t = B * (q + 1) BY <1>1, <1>2, <1>4
  <2>2. QED BY <1>1, <1>2, <1>4, <2>1
<1>5. QED BY <1>3, <1>4 DEF B, q, m

\* The runs of n steps from a: F[1], F[2], ... one after the other.
Steps(V) == [Nat -> [V -> V]]
Runs(V, F, a, n) == {g \in [0 .. n -> V] : g[0] = a /\ \A k \in 1 .. n : g[k] = F[k][g[k - 1]]}

\* There is one.
LEMMA Iterates ==
  ASSUME NEW V, NEW F \in Steps(V), NEW a \in V, NEW n \in Nat
  PROVE  Runs(V, F, a, n) # {}
<1> USE DEF Steps
<1> DEFINE P(m, g) == g[0] = a /\ \A k \in 1 .. m : g[k] = F[k][g[k - 1]]
           T == {m \in Nat : \E g \in [0 .. m -> V] : P(m, g)}
<1>1. 0 \in T
  <2> DEFINE g == [k \in 0 .. 0 |-> a]
  <2>1. g \in [0 .. 0 -> V] /\ P(0, g) OBVIOUS
  <2>2. QED BY <2>1
<1>2. ASSUME NEW m \in Nat, m \in T PROVE m + 1 \in T
  <2>1. PICK g \in [0 .. m -> V] : P(m, g) BY <1>2
  <2> DEFINE h == [k \in 0 .. m + 1 |-> IF k = m + 1 THEN F[k][g[m]] ELSE g[k]]
  <2>2. h \in [0 .. m + 1 -> V] OBVIOUS
  <2>3. h[0] = a BY <2>1
  <2>4. ASSUME NEW k \in 1 .. m + 1 PROVE h[k] = F[k][h[k - 1]]
    <3>1. CASE k = m + 1
      <4>1. h[k] = F[k][g[m]] /\ h[k - 1] = g[m] BY <3>1
      <4>2. QED BY <4>1
    <3>2. CASE k # m + 1
      <4>1. k \in 1 .. m /\ k - 1 \in 0 .. m BY <3>2
      <4>2. h[k] = g[k] /\ h[k - 1] = g[k - 1] BY <4>1, <3>2
      <4>3. QED BY <4>1, <4>2, <2>1
    <3>3. QED BY <3>1, <3>2
  <2>5. P(m + 1, h) BY <2>3, <2>4
  <2> HIDE DEF P, h
  <2>6. QED BY <2>2, <2>5
<1>3. n \in T
  <2> HIDE DEF T
  <2>1. QED BY <1>1, <1>2, SetInduction
<1>4. QED BY <1>3 DEF Runs

\* Cells in a row: the n of F from the one at a on.
Series(S) == [Nat -> S]
Part(F, a, n) == [k \in 1 .. n |-> F[a + k - 1]]

LEMMA PartIs ==
  ASSUME NEW S, NEW F \in Series(S), NEW a \in Nat, NEW n \in Nat
  PROVE  Part(F, a, n) \in Seq(S) /\ Len(Part(F, a, n)) = n /\ \A k \in 1 .. n : Part(F, a, n)[k] = F[a + k - 1]
<1>1. \A k \in 1 .. n : F[a + k - 1] \in S
  <2>1. \A k \in 1 .. n : a + k - 1 \in Nat OBVIOUS
  <2>2. QED BY <2>1 DEF Series
<1> DEFINE c(k) == F[a + k - 1]
<1>2. Part(F, a, n) = [k \in 1 .. n |-> c(k)] BY DEF Part
<1>3. \A k \in 1 .. n : c(k) \in S BY <1>1
<1> HIDE DEF c
<1>4. Part(F, a, n) \in Seq(S) /\ Len(Part(F, a, n)) = n /\ \A k \in 1 .. n : Part(F, a, n)[k] = c(k) BY <1>2, <1>3
<1>5. QED BY <1>4 DEF c

Cat(p, q) == p \o q

LEMMA Join ==
  ASSUME NEW S, NEW F \in Series(S), NEW a \in Nat, NEW m \in Nat, NEW n \in Nat,
         NEW q, q = Part(F, a + m, n)
  PROVE  Cat(Part(F, a, m), q) = Part(F, a, m + n)
<1> DEFINE p == Part(F, a, m)
           r == Part(F, a, m + n)
<1>1. /\ p \in Seq(S) /\ Len(p) = m /\ \A k \in 1 .. m : p[k] = F[a + k - 1] BY PartIs
<1>2. /\ q \in Seq(S) /\ Len(q) = n /\ \A k \in 1 .. n : q[k] = F[a + m + k - 1]
  <2>1. a + m \in Nat OBVIOUS
  <2>2. QED BY <2>1, PartIs
<1>3. /\ r \in Seq(S) /\ Len(r) = m + n /\ \A k \in 1 .. m + n : r[k] = F[a + k - 1] BY PartIs
<1> HIDE DEF p, r
<1>4. p \o q \in Seq(S) /\ Len(p \o q) = m + n BY <1>1, <1>2, ConcatProperties
<1>5. ASSUME NEW k \in 1 .. m + n PROVE (p \o q)[k] = r[k]
  <2>1. CASE k <= m
     <3>1. (p \o q)[k] = p[k] BY <1>1, <1>2, <2>1
     <3>2. QED BY <3>1, <2>1, <1>1, <1>3
  <2>2. CASE ~(k <= m)
     <3>1. (p \o q)[k] = q[k - m] BY <1>1, <1>2, <2>2
     <3>2. k - m \in 1 .. n /\ a + m + (k - m) - 1 = a + k - 1 BY <2>2
     <3>3. QED BY <3>1, <3>2, <1>2, <1>3
  <2>3. QED BY <2>1, <2>2
<1>6. p \o q = r BY <1>3, <1>4, <1>5, SeqEqual
<1>7. QED BY <1>6 DEF p, r, Cat

-----------------------------------------------------------------------------
(* Blocks move between the free map and a file.                            *)

LEMMA AddBlock ==
  ASSUME NEW free, NEW A, NEW O, Sound(free, A, O), NEW b \in free, NEW k \in Places, A[k] = 0
  PROVE  Sound(free \ {b}, [A EXCEPT ![k] = b], O) /\ b # 0 /\ \A j \in Places : A[j] # b
<1> USE DEF Sound
<1>1. b # 0 /\ b \in Blocks /\ b \notin O OBVIOUS
<1>2. \A j \in Places : A[j] # b BY <1>1
<1> DEFINE B == [A EXCEPT ![k] = b]
<1>3. B \in [Places -> Blocks] /\ \A j \in Places : B[j] = IF j = k THEN b ELSE A[j] BY <1>1
<1> HIDE DEF B
<1>4. \A i, j \in Places : B[i] = B[j] /\ B[i] # 0 => i = j BY <1>2, <1>3
<1>5. \A j \in Places : B[j] # 0 => B[j] \notin free \ {b} /\ B[j] \notin O BY <1>1, <1>2, <1>3
<1>6. \A c \in Blocks : c \in free \ {b} \/ c \in O \/ \E j \in Places : B[j] = c
  <2> SUFFICES ASSUME NEW c \in Blocks, c \notin free \ {b}, c \notin O PROVE \E j \in Places : B[j] = c OBVIOUS
  <2>1. CASE c = b BY <2>1, <1>3
  <2>2. CASE c # b
    <3>1. PICK j \in Places : A[j] = c BY <2>2
    <3>2. c # 0 OBVIOUS
    <3>3. B[j] = c BY <3>1, <3>2, <1>3
    <3>4. QED BY <3>3
  <2>3. QED BY <2>1, <2>2
<1>7. QED BY <1>1, <1>2, <1>3, <1>4, <1>5, <1>6 DEF B

LEMMA DropBlock ==
  ASSUME NEW free, NEW A, NEW O, Sound(free, A, O), NEW k \in Places
  PROVE  Sound(IF A[k] = 0 THEN free ELSE free \cup {A[k]}, [A EXCEPT ![k] = 0], O)
<1> USE DEF Sound
<1> DEFINE B == [A EXCEPT ![k] = 0]
           G == IF A[k] = 0 THEN free ELSE free \cup {A[k]}
<1>1. B \in [Places -> Blocks] /\ \A j \in Places : B[j] = IF j = k THEN 0 ELSE A[j] BY Constants
<1>2. G \subseteq Blocks /\ \A c : c \in G <=> (c \in free \/ (c = A[k] /\ A[k] # 0)) OBVIOUS
<1> HIDE DEF B, G
<1>3. \A i, j \in Places : B[i] = B[j] /\ B[i] # 0 => i = j BY <1>1
<1>4. \A j \in Places : B[j] # 0 => B[j] \notin G /\ B[j] \notin O BY <1>1, <1>2
<1>5. \A c \in Blocks : c \in G \/ c \in O \/ \E j \in Places : B[j] = c
  <2> SUFFICES ASSUME NEW c \in Blocks, c \notin G, c \notin O PROVE \E j \in Places : B[j] = c OBVIOUS
  <2>1. PICK j \in Places : A[j] = c BY <1>2
  <2>2. c # 0 OBVIOUS
  <2>3. j # k BY <2>1, <2>2, <1>2
  <2>4. QED BY <2>1, <2>3, <1>1
<1>6. G \cap O = {} BY <1>2
<1>7. QED BY <1>1, <1>2, <1>3, <1>4, <1>5, <1>6 DEF B, G

-----------------------------------------------------------------------------
(* A place of the map gets a cleared block.                                *)

\* The free map, the disk and an inode go together.
Core(free, dk, d, O) ==
  /\ dk \in Disks /\ d \in DiskInode /\ d.blocks <= MaxBlocks
  /\ Sound(free, MapOf(dk, d), O)

Good(st, O) == st \in States /\ Core(st.free, st.disk, st.din, O)

\* The same cells at the same positions.
SameCells(dk, d, dk2, d2) ==
  \A k \in DataPlaces, j \in Offsets : CellAt(dk2, d2, k, j) = CellAt(dk, d, k, j)

SameOn(O, dk, dk2) == \A b \in O \cap Blocks : dk2[b] = dk[b]

LEMMA AtType ==
  ASSUME NEW dk, NEW d, NEW free, NEW O, Core(free, dk, d, O)
  PROVE  /\ \A k \in Places : At(dk, d, k) \in Blocks /\ MapOf(dk, d)[k] = At(dk, d, k)
         /\ d.indirect \in Blocks /\ d.indirect = At(dk, d, -1) /\ -1 \in Places
         /\ \A j, k \in Places : At(dk, d, j) = At(dk, d, k) /\ At(dk, d, j) # 0 => j = k
         /\ \A k \in Places : At(dk, d, k) # 0 => At(dk, d, k) \notin free /\ At(dk, d, k) \notin O
         /\ free \subseteq Blocks /\ free \cap O = {} /\ 0 \in O
<1>1. \A k \in Places : MapOf(dk, d)[k] = At(dk, d, k) BY DEF MapOf
<1>2. d.indirect = At(dk, d, -1) /\ d.indirect \in Blocks BY DEF At, Core, DiskInode
<1>3. -1 \in Places BY Constants DEF Places
<1>4. QED BY <1>1, <1>2, <1>3 DEF Core, Sound

LEMMA PutBlock ==
  ASSUME NEW free, NEW dk, NEW d, NEW O, Core(free, dk, d, O),
         NEW b \in free, NEW p \in DataPlaces, At(dk, d, p) = 0,
         NEW dk2 \in Disks, NEW d2 \in DiskInode, d2.blocks <= MaxBlocks, dk2[b] = ZeroBlock,
         \A c \in Blocks : c # b /\ (c # d.indirect \/ c = 0) => dk2[c] = dk[c],
         \A k \in Places : At(dk2, d2, k) = IF k = p THEN b ELSE At(dk, d, k)
  PROVE  Core(free \ {b}, dk2, d2, O) /\ SameCells(dk, d, dk2, d2) /\ SameOn(O, dk, dk2)
<1> DEFINE A == MapOf(dk, d)
<1>1. p \in Places /\ A[p] = 0 /\ Sound(free, A, O) BY AtType, Constants DEF Core
<1>2. Sound(free \ {b}, [A EXCEPT ![p] = b], O) /\ b # 0 /\ \A j \in Places : A[j] # b
  <2> HIDE DEF A
  <2>1. QED BY <1>1, AddBlock
<1>3. MapOf(dk2, d2) = [A EXCEPT ![p] = b] BY <1>1 DEF MapOf
<1>4. Core(free \ {b}, dk2, d2, O) BY <1>2, <1>3 DEF Core
<1>5. SameOn(O, dk, dk2)
  <2>1. ASSUME NEW c \in O \cap Blocks PROVE dk2[c] = dk[c]
    <3>1. c # b /\ (c # d.indirect \/ c = 0) BY AtType
    <3>2. QED BY <3>1
  <2>2. QED BY <2>1 DEF SameOn
<1>6. SameCells(dk, d, dk2, d2)
  <2>1. ASSUME NEW k \in DataPlaces, NEW j \in Offsets
        PROVE  CellAt(dk2, d2, k, j) = CellAt(dk, d, k, j)
    <3>1. CASE k = p
      <4>1. At(dk2, d2, k) = b /\ b # 0 /\ dk2[b][j] = 0 BY <3>1, <1>1, <1>2 DEF ZeroBlock, Offsets
      <4>2. QED BY <4>1, <3>1 DEF CellAt
    <3>2. CASE k # p
      <4> DEFINE a == At(dk, d, k)
      <4>1. k \in Places /\ k # -1 /\ At(dk2, d2, k) = a /\ a \in Blocks BY <3>2, Constants, AtType
      <4>2. a # b BY <1>2, <4>1, AtType
      <4>3. a # d.indirect \/ a = 0 BY <4>1, AtType
      <4>4. dk2[a] = dk[a] BY <4>1, <4>2, <4>3
      <4>5. QED BY <4>1, <4>4 DEF CellAt
    <3>3. QED BY <3>1, <3>2
  <2>2. QED BY <2>1 DEF SameCells
<1>7. QED BY <1>4, <1>5, <1>6

\* The indirect block, when there is none yet.
LEMMA PutIndirect ==
  ASSUME NEW free, NEW dk, NEW d, NEW O, Core(free, dk, d, O),
         NEW b \in free, d.indirect = 0
  PROVE  LET dk2 == [dk EXCEPT ![b] = ZeroBlock]
             d2  == [d EXCEPT !.indirect = b]
         IN  /\ Core(free \ {b}, dk2, d2, O) /\ SameCells(dk, d, dk2, d2) /\ SameOn(O, dk, dk2)
             /\ \A k \in Places : At(dk2, d2, k) = IF k = -1 THEN b ELSE At(dk, d, k)
             /\ b # 0 /\ b \in Blocks
<1> DEFINE dk2 == [dk EXCEPT ![b] = ZeroBlock]
           d2  == [d EXCEPT !.indirect = b]
           A == MapOf(dk, d)
<1>1. A[-1] = 0 /\ -1 \in Places /\ Sound(free, A, O) BY AtType DEF Core
<1>2. Sound(free \ {b}, [A EXCEPT ![-1] = b], O) /\ b # 0 /\ \A j \in Places : A[j] # b
  <2> HIDE DEF A
  <2>1. QED BY <1>1, AddBlock
<1>3. b \in Blocks BY AtType
<1>4. ZeroBlock \in [Offsets -> Cells] BY Constants DEF ZeroBlock, Offsets
<1>5. dk2 \in Disks /\ dk2[b] = ZeroBlock /\ \A c \in Blocks : c # b => dk2[c] = dk[c]
  BY <1>3, <1>4 DEF Core, Disks
<1>6. d2 \in DiskInode /\ d2.indirect = b /\ d2.direct = d.direct /\ d2.blocks = d.blocks
  BY <1>3 DEF Core, DiskInode
<1>7. ASSUME NEW k \in Places PROVE At(dk2, d2, k) = IF k = -1 THEN b ELSE At(dk, d, k)
  <2>1. CASE k < SFS_NDIRECT BY <2>1, <1>6 DEF At
  <2>2. CASE ~(k < SFS_NDIRECT)
    <3>1. k # -1 /\ k - SFS_NDIRECT \in Offsets BY <2>2, Constants DEF Places, Offsets, MaxBlocks
    <3>2. At(dk, d, k) = 0 BY <3>1, <2>2 DEF At
    <3>3. ZeroBlock[k - SFS_NDIRECT] = 0 BY <3>1 DEF ZeroBlock, Offsets
    <3>4. At(dk2, d2, k) = dk2[b][k - SFS_NDIRECT] BY <3>1, <2>2, <1>2, <1>6 DEF At
    <3>5. QED BY <3>1, <3>2, <3>3, <3>4, <1>5
  <2>3. QED BY <2>1, <2>2
<1>8. MapOf(dk2, d2) = [A EXCEPT ![-1] = b]
  <2> HIDE DEF dk2, d2
  <2>1. QED BY <1>1, <1>7 DEF MapOf
<1>9. Core(free \ {b}, dk2, d2, O)
  <2> HIDE DEF dk2, d2, A
  <2>1. QED BY <1>2, <1>5, <1>6, <1>8 DEF Core
<1>10. SameOn(O, dk, dk2)
  <2>1. \A c \in O \cap Blocks : c # b BY AtType
  <2>2. QED BY <2>1, <1>5 DEF SameOn
<1>11. SameCells(dk, d, dk2, d2)
  <2> HIDE DEF dk2, d2
  <2>1. ASSUME NEW k \in DataPlaces, NEW j \in Offsets
        PROVE  CellAt(dk2, d2, k, j) = CellAt(dk, d, k, j)
    <3> DEFINE a == At(dk, d, k)
    <3>1. k \in Places /\ k # -1 /\ At(dk2, d2, k) = a /\ a \in Blocks BY <1>7, Constants, AtType
    <3>2. a # b BY <1>2, <3>1, AtType
    <3>3. dk2[a] = dk[a] BY <3>1, <3>2, <1>5
    <3>4. QED BY <3>1, <3>3 DEF CellAt
  <2>2. QED BY <2>1 DEF SameCells
<1>12. QED BY <1>2, <1>3, <1>7, <1>9, <1>10, <1>11

-----------------------------------------------------------------------------
(* Allocating a block, and the blocks of a file one by one.                *)

LEMMA AllocIs ==
  ASSUME NEW st \in States
  PROVE  LET r == sfs_block_alloc(st)
         IN  /\ st.free = {} => r = [st EXCEPT !.ret = "E_NO_MEM"]
             /\ st.free # {} =>
                  /\ r \in States /\ r.ino \in st.free /\ r.free = st.free \ {r.ino}
                  /\ r.disk = [st.disk EXCEPT ![r.ino] = ZeroBlock] /\ r.din = st.din
                  /\ r.dirty = st.dirty /\ r.alen = st.alen /\ r.got = st.got /\ r.ret = st.ret
<1>1. CASE st.free = {} BY <1>1 DEF sfs_block_alloc
<1>2. CASE st.free # {}
  <2> DEFINE b == Min(st.free)
             r == [st EXCEPT !.free = @ \ {b}, !.disk[b] = ZeroBlock, !.ino = b]
  <2>1. st.free \in SUBSET Nat BY Constants DEF States
  <2>2. \E x \in st.free : \A y \in st.free : x <= y BY <2>1, <1>2, NatLeast
  <2>3. b \in st.free BY <2>2 DEF Min
  <2>4. sfs_block_alloc(st) = r BY <1>2 DEF sfs_block_alloc, bitmap_alloc
  <2> HIDE DEF b
  <2>5. ZeroBlock \in [Offsets -> Cells] BY Constants DEF ZeroBlock, Offsets
  <2>6. b \in Blocks BY <2>3 DEF States
  <2>7. /\ r.ino = b /\ r.free = st.free \ {b} /\ r.disk = [st.disk EXCEPT ![b] = ZeroBlock]
        /\ r.din = st.din /\ r.dirty = st.dirty /\ r.alen = st.alen /\ r.got = st.got /\ r.ret = st.ret
    BY DEF States
  <2>8. [st.disk EXCEPT ![b] = ZeroBlock] \in Disks BY <2>5, <2>6 DEF States, Disks
  <2>9. r \in States BY <2>6, <2>8 DEF States
  <2> HIDE DEF r
  <2>10. QED BY <1>2, <2>3, <2>4, <2>7, <2>9
<1>3. QED BY <1>1, <1>2

LEMMA SetRet ==
  ASSUME NEW st \in States, NEW e \in Rets, NEW r, r = [st EXCEPT !.ret = e]
  PROVE  /\ r \in States /\ r.free = st.free /\ r.disk = st.disk /\ r.din = st.din
         /\ r.dirty = st.dirty /\ r.ino = st.ino /\ r.alen = st.alen /\ r.got = st.got
         /\ r.ret = e
BY DEF States

\* What finding or adding a block leaves as it was.
Kept(st, r, O) ==
  /\ Good(r, O) /\ SameOn(O, st.disk, r.disk) /\ SameCells(st.disk, st.din, r.disk, r.din)
  /\ r.din.size = st.din.size /\ r.alen = st.alen /\ r.got = st.got
  /\ ~r.dirty => ~st.dirty /\ r.din.direct = st.din.direct /\ r.din.indirect = st.din.indirect

\* The outcome r of looking for block p of the file, that is added with `create'.
Found(st, r, O, p, create) ==
  /\ Kept(st, r, O) /\ r.din.blocks = st.din.blocks
  /\ r.ret \in {"ok", "E_NO_MEM"}
  /\ r.ret = "ok" => r.ino = At(r.disk, r.din, p) /\ (create => r.ino # 0)

LEMMA KeptSame ==
  ASSUME NEW O, NEW st, Good(st, O), NEW r \in States,
         r.free = st.free, r.disk = st.disk, r.din = st.din, r.dirty = st.dirty,
         r.alen = st.alen, r.got = st.got
  PROVE  Kept(st, r, O)
BY DEF Kept, Good, SameOn, SameCells

\* Nothing but a free block is written.
LEMMA KeptFree ==
  ASSUME NEW O, NEW st, Good(st, O), NEW r \in States, NEW b \in st.free,
         r.free = st.free, r.disk = [st.disk EXCEPT ![b] = ZeroBlock], r.din = st.din,
         r.dirty = st.dirty, r.alen = st.alen, r.got = st.got
  PROVE  Kept(st, r, O)
<1> DEFINE dk == st.disk
           d == st.din
<1>1. Core(st.free, dk, d, O) /\ dk \in Disks /\ r.disk \in Disks BY DEF Good, Core, States
<1>2. b \in Blocks BY DEF Good, States
<1>3. \A c \in Blocks : c # b => r.disk[c] = dk[c] BY <1>1, <1>2 DEF Disks
<1>4. \A k \in Places : At(dk, d, k) # b /\ At(dk, d, k) \in Blocks BY <1>1, AtType
<1>5. d.indirect # b /\ d.indirect \in Blocks BY <1>1, <1>4, AtType
<1>6. \A k \in Places : At(r.disk, d, k) = At(dk, d, k) BY <1>3, <1>5 DEF At
<1>7. MapOf(r.disk, d) = MapOf(dk, d) BY <1>6 DEF MapOf
<1>8. Good(r, O) BY <1>1, <1>7 DEF Good, Core
<1>9. SameOn(O, dk, r.disk) BY <1>1, <1>3, AtType DEF SameOn
<1>10. SameCells(dk, d, r.disk, r.din)
  <2>1. ASSUME NEW k \in DataPlaces, NEW j \in Offsets
        PROVE  CellAt(r.disk, r.din, k, j) = CellAt(dk, d, k, j)
    <3>1. k \in Places BY Constants
    <3>2. r.disk[At(dk, d, k)] = dk[At(dk, d, k)] BY <3>1, <1>3, <1>4
    <3>3. QED BY <3>1, <3>2, <1>6 DEF CellAt
  <2>2. QED BY <2>1 DEF SameCells
<1>11. QED BY <1>8, <1>9, <1>10 DEF Kept

LEMMA DirectIs ==
  ASSUME NEW O, NEW st, Good(st, O), st.ret = "ok", NEW p \in Nat, p < SFS_NDIRECT, NEW create \in BOOLEAN
  PROVE  Found(st, direct_get(st, p, create), O, p, create)
<1> DEFINE b == sfs_block_alloc(st)
           r == direct_get(st, p, create)
<1>0. st \in States /\ Core(st.free, st.disk, st.din, O) /\ st.din.direct[p] \in Blocks
  <2>1. p \in 0 .. SFS_NDIRECT - 1 BY Constants
  <2>2. QED BY <2>1 DEF Good, States, DiskInode
<1>a. p \in DataPlaces /\ p \in Places /\ p # -1 BY Constants DEF DataPlaces, Places
<1>1. CASE st.din.direct[p] # 0 \/ ~create
  <2>1. r = [st EXCEPT !.ino = st.din.direct[p]] BY <1>1 DEF direct_get
  <2> HIDE DEF r
  <2>2. /\ r \in States /\ r.free = st.free /\ r.disk = st.disk /\ r.din = st.din
        /\ r.dirty = st.dirty /\ r.alen = st.alen /\ r.got = st.got /\ r.ret = "ok"
        /\ r.ino = st.din.direct[p]
    BY <2>1, <1>0 DEF States
  <2>3. Kept(st, r, O) BY <2>2, KeptSame
  <2>4. r.ino = At(r.disk, r.din, p) BY <2>2, <1>a DEF At
  <2>5. QED BY <2>2, <2>3, <2>4, <1>1 DEF Found, r
<1>2. CASE st.din.direct[p] = 0 /\ create /\ st.free = {}
  <2>1. b = [st EXCEPT !.ret = "E_NO_MEM"] BY <1>0, <1>2, AllocIs
  <2>2. b.ret = "E_NO_MEM" BY <2>1, <1>0 DEF States
  <2>3. r = b BY <1>2, <2>2 DEF direct_get
  <2> HIDE DEF r, b
  <2>4. /\ r \in States /\ r.free = st.free /\ r.disk = st.disk /\ r.din = st.din
        /\ r.dirty = st.dirty /\ r.alen = st.alen /\ r.got = st.got /\ r.ret = "E_NO_MEM"
    <3>1. "E_NO_MEM" \in Rets BY DEF Rets
    <3>2. r = [st EXCEPT !.ret = "E_NO_MEM"] BY <2>1, <2>3
    <3>3. QED BY <3>1, <3>2, <1>0, SetRet
  <2>5. Kept(st, r, O) BY <2>4, KeptSame
  <2>6. QED BY <2>4, <2>5 DEF Found, r
<1>3. CASE st.din.direct[p] = 0 /\ create /\ st.free # {}
  <2>1. /\ b \in States /\ b.ino \in st.free /\ b.free = st.free \ {b.ino}
        /\ b.disk = [st.disk EXCEPT ![b.ino] = ZeroBlock] /\ b.din = st.din
        /\ b.dirty = st.dirty /\ b.alen = st.alen /\ b.got = st.got /\ b.ret = "ok"
    BY <1>0, <1>3, AllocIs
  <2>2. r = [b EXCEPT !.din.direct[p] = b.ino, !.dirty = TRUE] BY <1>3, <2>1 DEF direct_get
  <2> HIDE DEF r, b
  <2>3. /\ b.ino \in Blocks /\ st.disk \in Disks /\ st.din \in DiskInode /\ st.din.blocks <= MaxBlocks
    BY <2>1, <1>0 DEF States, Core
  <2>4. p \in 0 .. SFS_NDIRECT - 1 BY Constants
  <2>5. /\ r.free = st.free \ {b.ino} /\ r.disk = b.disk /\ r.dirty = TRUE /\ r.alen = st.alen
        /\ r.got = st.got /\ r.ret = "ok" /\ r.ino = b.ino
        /\ r.din = [st.din EXCEPT !.direct[p] = b.ino]
    BY <2>1, <2>2 DEF States
  <2>6. /\ r.din \in DiskInode /\ r.din.size = st.din.size /\ r.din.blocks = st.din.blocks
        /\ r.din.direct = [st.din.direct EXCEPT ![p] = b.ino]
        /\ r.din.indirect = st.din.indirect
    <3> DEFINE q == [st.din.direct EXCEPT ![p] = b.ino]
    <3>1. q \in [0 .. SFS_NDIRECT - 1 -> Blocks] BY <2>3, <2>4 DEF DiskInode
    <3>2. r.din = [st.din EXCEPT !.direct = q] BY <2>3, <2>5 DEF DiskInode
    <3> HIDE DEF q
    <3>3. /\ r.din \in DiskInode /\ r.din.size = st.din.size /\ r.din.blocks = st.din.blocks
          /\ r.din.direct = q /\ r.din.indirect = st.din.indirect
      BY <2>3, <3>1, <3>2 DEF DiskInode
    <3>4. QED BY <3>3 DEF q
  <2>7. r \in States BY <2>1, <2>2, <2>5, <2>6 DEF States
  <2>8. /\ r.disk \in Disks /\ r.disk[b.ino] = ZeroBlock
        /\ \A c \in Blocks : c # b.ino => r.disk[c] = st.disk[c]
    BY <2>1, <2>3, <2>5, <2>7 DEF Disks, States
  <2>9. \A k \in Places : At(st.disk, st.din, k) # b.ino
    BY <1>0, <2>1, AtType
  <2>10. st.din.indirect # b.ino /\ st.din.indirect \in Blocks BY <1>0, <2>9, AtType
  <2>11. ASSUME NEW k \in Places
         PROVE  At(r.disk, r.din, k) = IF k = p THEN b.ino ELSE At(st.disk, st.din, k)
    <3>1. CASE k = -1 BY <3>1, <2>6, <1>a DEF At
    <3>2. CASE k # -1 /\ k < SFS_NDIRECT
      <4>1. k \in 0 .. SFS_NDIRECT - 1 BY <3>2, Constants DEF Places
      <4>2. r.din.direct[k] = IF k = p THEN b.ino ELSE st.din.direct[k] BY <4>1, <2>3, <2>6 DEF DiskInode
      <4>3. QED BY <3>2, <4>2 DEF At
    <3>3. CASE k # -1 /\ ~(k < SFS_NDIRECT)
      <4>1. k # p BY <3>3
      <4>2. r.disk[st.din.indirect] = st.disk[st.din.indirect] BY <2>8, <2>10
      <4>3. QED BY <3>3, <4>1, <4>2, <2>6 DEF At
    <3>4. QED BY <3>1, <3>2, <3>3
  <2>12. At(st.disk, st.din, p) = 0 BY <1>3, <1>a DEF At
  <2>13. /\ Core(st.free \ {b.ino}, r.disk, r.din, O)
         /\ SameCells(st.disk, st.din, r.disk, r.din) /\ SameOn(O, st.disk, r.disk)
    <3> DEFINE c == b.ino
               dk == st.disk
               d == st.din
               dk2 == r.disk
               d2 == r.din
               free == st.free
    <3>1. /\ Core(free, dk, d, O) /\ c \in free /\ At(dk, d, p) = 0 /\ dk2 \in Disks
          /\ d2 \in DiskInode /\ d2.blocks <= MaxBlocks /\ dk2[c] = ZeroBlock
      BY <1>0, <2>1, <2>3, <2>6, <2>8, <2>12
    <3>2. \A x \in Blocks : x # c /\ (x # d.indirect \/ x = 0) => dk2[x] = dk[x] BY <2>8
    <3>3. \A k \in Places : At(dk2, d2, k) = IF k = p THEN c ELSE At(dk, d, k) BY <2>11
    <3> HIDE DEF c, dk, d, dk2, d2, free
    <3>4. Core(free \ {c}, dk2, d2, O) /\ SameCells(dk, d, dk2, d2) /\ SameOn(O, dk, dk2)
      BY <1>a, <3>1, <3>2, <3>3, PutBlock
    <3>5. QED BY <3>4 DEF c, dk, d, dk2, d2, free
  <2>14. Kept(st, r, O) BY <2>5, <2>6, <2>7, <2>13 DEF Kept, Good
  <2>15. r.ino = At(r.disk, r.din, p) /\ r.ino # 0
    <3>1. b.ino # 0 BY <2>1, <1>0, AtType
    <3>2. QED BY <3>1, <2>5, <2>11, <1>a
  <2>16. QED BY <2>5, <2>6, <2>14, <2>15 DEF Found, r
<1>4. QED BY <1>1, <1>2, <1>3

\* An entry of the indirect block.
LEMMA PutEntry ==
  ASSUME NEW free, NEW dk, NEW d, NEW O, Core(free, dk, d, O), NEW b \in free,
         NEW e, e = d.indirect, e # 0, NEW i \in Offsets, dk[e][i] = 0
  PROVE  LET dk2 == [[dk EXCEPT ![b] = ZeroBlock] EXCEPT ![e][i] = b]
         IN  /\ Core(free \ {b}, dk2, d, O) /\ SameCells(dk, d, dk2, d) /\ SameOn(O, dk, dk2)
             /\ At(dk2, d, SFS_NDIRECT + i) = b /\ b # 0
<1> DEFINE p == SFS_NDIRECT + i
           dk1 == [dk EXCEPT ![b] = ZeroBlock]
           dk2 == [dk1 EXCEPT ![e][i] = b]
<1>1. p \in DataPlaces /\ p \in Places /\ p # -1 /\ ~(p < SFS_NDIRECT) /\ p - SFS_NDIRECT = i /\ i \in Nat
  BY Constants DEF DataPlaces, Places, Offsets, MaxBlocks
<1>2. /\ b \in Blocks /\ e \in Blocks /\ b # e /\ b # 0 /\ b \in Cells
  <2>1. b \in Blocks /\ b # 0 /\ e \in Blocks /\ e = At(dk, d, -1) /\ -1 \in Places BY AtType
  <2>2. e \notin free BY <2>1, AtType
  <2>3. QED BY <2>1, <2>2, Constants
<1>3. ZeroBlock \in [Offsets -> Cells] BY Constants DEF ZeroBlock, Offsets
<1>4. dk \in Disks /\ d \in DiskInode /\ d.blocks <= MaxBlocks BY DEF Core
<1>5. dk1 \in Disks /\ dk1[b] = ZeroBlock /\ dk1[e] = dk[e] /\ \A c \in Blocks : c # b => dk1[c] = dk[c]
  BY <1>2, <1>3, <1>4 DEF Disks
<1> HIDE DEF dk1
<1>6. dk1[e] \in [Offsets -> Cells] BY <1>2, <1>5 DEF Disks
<1> DEFINE x == [dk1[e] EXCEPT ![i] = b]
<1>7. x \in [Offsets -> Cells] /\ x[i] = b /\ \A j \in Offsets : j # i => x[j] = dk[e][j]
  BY <1>2, <1>5, <1>6
<1>8. dk2 = [dk1 EXCEPT ![e] = x] BY <1>2, <1>5, <1>6 DEF Disks
<1> HIDE DEF x, dk2
<1>9. dk2 \in Disks /\ dk2[e] = x /\ \A c \in Blocks : c # e => dk2[c] = dk1[c]
  BY <1>2, <1>5, <1>7, <1>8 DEF Disks
<1>10. At(dk, d, p) = 0 BY <1>1 DEF At
<1>11. ASSUME NEW k \in Places PROVE At(dk2, d, k) = IF k = p THEN b ELSE At(dk, d, k)
  <2>1. CASE k < SFS_NDIRECT BY <2>1, <1>1 DEF At
  <2>2. CASE ~(k < SFS_NDIRECT)
    <3>1. k # -1 /\ k - SFS_NDIRECT \in Offsets /\ (k - SFS_NDIRECT = i <=> k = p)
      BY <2>2, <1>1, Constants DEF Places, Offsets, MaxBlocks
    <3>2. At(dk2, d, k) = x[k - SFS_NDIRECT] /\ At(dk, d, k) = dk[e][k - SFS_NDIRECT]
      BY <3>1, <2>2, <1>9 DEF At
    <3>3. QED BY <3>1, <3>2, <1>7
  <2>3. QED BY <2>1, <2>2
<1>12. \A c \in Blocks : c # b /\ (c # d.indirect \/ c = 0) => dk2[c] = dk[c] BY <1>5, <1>9
<1>13. dk2[b] = ZeroBlock BY <1>2, <1>5, <1>9
<1> HIDE DEF p
<1>14. Core(free \ {b}, dk2, d, O) /\ SameCells(dk, d, dk2, d) /\ SameOn(O, dk, dk2)
  BY <1>1, <1>4, <1>9, <1>10, <1>11, <1>12, <1>13, PutBlock
<1>15. At(dk2, d, SFS_NDIRECT + i) = b BY <1>1, <1>11 DEF p
<1>16. QED BY <1>2, <1>14, <1>15 DEF dk1, dk2

LEMMA SubCreateIs ==
  ASSUME NEW O, NEW st, Good(st, O), st.ret = "ok", NEW i \in Offsets,
         At(st.disk, st.din, SFS_NDIRECT + i) = 0
  PROVE  Found(st, sub_create(st, i), O, SFS_NDIRECT + i, TRUE)
<1> DEFINE ent == st.din.indirect
           e == IF ent = 0 THEN sfs_block_alloc(st) ELSE [st EXCEPT !.ino = ent]
           b == sfs_block_alloc(e)
           r == sub_create(st, i)
<1>0. /\ st \in States /\ Core(st.free, st.disk, st.din, O) /\ ent \in Blocks
      /\ st.disk \in Disks /\ st.din \in DiskInode
  BY DEF Good, States, DiskInode
<1>a. "E_NO_MEM" \in Rets BY DEF Rets
<1>1. CASE ent = 0 /\ st.free = {}
  <2>1. e = [st EXCEPT !.ret = "E_NO_MEM"] BY <1>0, <1>1, AllocIs
  <2>2. e.ret = "E_NO_MEM" BY <2>1, <1>0 DEF States
  <2>3. r = e BY <2>2 DEF sub_create
  <2> HIDE DEF r, b, e
  <2>4. /\ r \in States /\ r.free = st.free /\ r.disk = st.disk /\ r.din = st.din
        /\ r.dirty = st.dirty /\ r.alen = st.alen /\ r.got = st.got /\ r.ret = "E_NO_MEM"
    BY <2>1, <2>3, <1>0, <1>a, SetRet
  <2>5. Kept(st, r, O) BY <2>4, KeptSame
  <2>6. QED BY <2>4, <2>5 DEF Found, r
<1>2. CASE ent = 0 /\ st.free # {}
  <2>1. /\ e \in States /\ e.ino \in st.free /\ e.free = st.free \ {e.ino}
        /\ e.disk = [st.disk EXCEPT ![e.ino] = ZeroBlock] /\ e.din = st.din
        /\ e.dirty = st.dirty /\ e.alen = st.alen /\ e.got = st.got /\ e.ret = "ok"
    BY <1>0, <1>2, AllocIs
  <2>2. CASE e.free = {}
    <3>1. b = [e EXCEPT !.ret = "E_NO_MEM"]
      <4> HIDE DEF e
      <4>1. QED BY <2>1, <2>2, AllocIs
    <3>2. b.ret = "E_NO_MEM"
      <4> HIDE DEF b, e
      <4>1. QED BY <2>1, <3>1 DEF States
    <3>3. r = [b EXCEPT !.free = @ \cup {e.ino}] BY <1>2, <2>1, <3>2 DEF sub_create
    <3> HIDE DEF r, b, e
    <3>4. /\ b \in States /\ b.free = e.free /\ b.disk = e.disk /\ b.din = e.din
          /\ b.dirty = e.dirty /\ b.alen = e.alen /\ b.got = e.got /\ b.ret = "E_NO_MEM"
      BY <2>1, <3>1, <1>a, SetRet
    <3>5. /\ r.free = b.free \cup {e.ino} /\ r.disk = e.disk /\ r.din = st.din
          /\ r.dirty = st.dirty /\ r.alen = st.alen /\ r.got = st.got /\ r.ret = "E_NO_MEM"
      BY <2>1, <3>3, <3>4 DEF States
    <3>6. r.free = st.free BY <2>1, <3>4, <3>5
    <3>7. r \in States BY <1>0, <3>3, <3>4, <3>5, <3>6 DEF States
    <3>8. Kept(st, r, O) BY <2>1, <3>5, <3>6, <3>7, KeptFree
    <3>9. QED BY <3>5, <3>8 DEF Found, r
  <2>3. CASE e.free # {}
    <3>1. /\ b \in States /\ b.ino \in e.free /\ b.free = e.free \ {b.ino}
          /\ b.disk = [e.disk EXCEPT ![b.ino] = ZeroBlock] /\ b.din = e.din
          /\ b.dirty = e.dirty /\ b.alen = e.alen /\ b.got = e.got /\ b.ret = "ok"
      <4> HIDE DEF e
      <4>1. QED BY <2>1, <2>3, AllocIs
    <3>2. r = [b EXCEPT !.disk[e.ino][i] = b.ino, !.din.indirect = e.ino, !.dirty = TRUE]
      BY <1>2, <2>1, <3>1 DEF sub_create
    <3> HIDE DEF r, b, e
    <3> DEFINE d1 == [st.din EXCEPT !.indirect = e.ino]
    <3>3. /\ Core(e.free, e.disk, d1, O) /\ SameCells(st.disk, st.din, e.disk, d1)
          /\ SameOn(O, st.disk, e.disk) /\ e.ino # 0 /\ e.ino \in Blocks
      BY <1>0, <1>2, <2>1, PutIndirect
    <3>4. /\ d1 \in DiskInode /\ d1.indirect = e.ino /\ d1.blocks = st.din.blocks /\ d1.size = st.din.size
      BY <1>0, <3>3 DEF DiskInode
    <3> HIDE DEF d1
    <3>5. e.disk[e.ino][i] = 0
      <4>1. e.disk[e.ino] = ZeroBlock BY <1>0, <2>1, <3>3 DEF Disks
      <4>2. QED BY <4>1 DEF ZeroBlock, Offsets
    <3> DEFINE dk2 == [b.disk EXCEPT ![e.ino][i] = b.ino]
    <3>6. /\ Core(e.free \ {b.ino}, dk2, d1, O) /\ SameCells(e.disk, d1, dk2, d1)
          /\ SameOn(O, e.disk, dk2) /\ At(dk2, d1, SFS_NDIRECT + i) = b.ino /\ b.ino # 0
      BY <3>1, <3>3, <3>4, <3>5, PutEntry
    <3>7. /\ r.free = b.free /\ r.disk = dk2 /\ r.din = d1 /\ r.dirty = TRUE /\ r.alen = st.alen
          /\ r.got = st.got /\ r.ret = "ok" /\ r.ino = b.ino
      BY <2>1, <3>1, <3>2 DEF States, d1
    <3> HIDE DEF dk2
    <3>8. dk2 \in Disks /\ b.free \in SUBSET Blocks BY <3>6, <3>1 DEF Core, States
    <3>9. r \in States BY <3>1, <3>2, <3>4, <3>7, <3>8 DEF States
    <3>10. Good(r, O) BY <3>1, <3>6, <3>7, <3>9 DEF Good
    <3>11. SameOn(O, st.disk, r.disk) BY <3>3, <3>6, <3>7 DEF SameOn
    <3>12. SameCells(st.disk, st.din, r.disk, r.din) BY <3>3, <3>6, <3>7 DEF SameCells
    <3>13. Kept(st, r, O) BY <3>4, <3>7, <3>10, <3>11, <3>12 DEF Kept
    <3>14. QED BY <3>4, <3>6, <3>7, <3>13 DEF Found, r
  <2>4. QED BY <2>2, <2>3
<1>3. CASE ent # 0
  <2>1. e = [st EXCEPT !.ino = ent] BY <1>3
  <2>2. /\ e \in States /\ e.ino = ent /\ e.free = st.free /\ e.disk = st.disk /\ e.din = st.din
        /\ e.dirty = st.dirty /\ e.alen = st.alen /\ e.got = st.got /\ e.ret = "ok"
    <3> HIDE DEF e
    <3>1. QED BY <1>0, <2>1 DEF States
  <2>3. CASE e.free = {}
    <3>1. b = [e EXCEPT !.ret = "E_NO_MEM"]
      <4> HIDE DEF e
      <4>1. QED BY <2>2, <2>3, AllocIs
    <3>2. b.ret = "E_NO_MEM"
      <4> HIDE DEF b, e
      <4>1. QED BY <2>2, <3>1 DEF States
    <3>3. r = [b EXCEPT !.free = @] BY <1>3, <2>2, <3>2 DEF sub_create
    <3> HIDE DEF r, b, e
    <3>4. /\ b \in States /\ b.free = e.free /\ b.disk = e.disk /\ b.din = e.din
          /\ b.dirty = e.dirty /\ b.alen = e.alen /\ b.got = e.got /\ b.ret = "E_NO_MEM"
      BY <2>2, <3>1, <1>a, SetRet
    <3>5. /\ r.free = b.free /\ r.disk = e.disk /\ r.din = st.din
          /\ r.dirty = st.dirty /\ r.alen = st.alen /\ r.got = st.got /\ r.ret = "E_NO_MEM"
      BY <2>2, <3>3, <3>4 DEF States
    <3>6. r \in States BY <3>3, <3>4 DEF States
    <3>7. Kept(st, r, O) BY <2>2, <3>4, <3>5, <3>6, KeptSame
    <3>8. QED BY <3>5, <3>7 DEF Found, r
  <2>4. CASE e.free # {}
    <3>1. /\ b \in States /\ b.ino \in e.free /\ b.free = e.free \ {b.ino}
          /\ b.disk = [e.disk EXCEPT ![b.ino] = ZeroBlock] /\ b.din = e.din
          /\ b.dirty = e.dirty /\ b.alen = e.alen /\ b.got = e.got /\ b.ret = "ok"
      <4> HIDE DEF e
      <4>1. QED BY <2>2, <2>4, AllocIs
    <3>2. r = [b EXCEPT !.disk[e.ino][i] = b.ino, !.din.indirect = e.ino, !.dirty = @ \/ FALSE]
      BY <1>3, <2>2, <3>1 DEF sub_create
    <3> HIDE DEF r, b, e
    <3>3. st.disk[ent][i] = 0
      <4>1. /\ SFS_NDIRECT + i # -1 /\ ~(SFS_NDIRECT + i < SFS_NDIRECT)
            /\ (SFS_NDIRECT + i) - SFS_NDIRECT = i
        BY Constants DEF Offsets
      <4>2. QED BY <4>1, <1>3 DEF At
    <3> DEFINE dk2 == [b.disk EXCEPT ![ent][i] = b.ino]
    <3>4. /\ Core(st.free \ {b.ino}, dk2, st.din, O) /\ SameCells(st.disk, st.din, dk2, st.din)
          /\ SameOn(O, st.disk, dk2) /\ At(dk2, st.din, SFS_NDIRECT + i) = b.ino /\ b.ino # 0
      <4>1. b.disk = [st.disk EXCEPT ![b.ino] = ZeroBlock] /\ b.ino \in st.free BY <2>2, <3>1
      <4>2. QED BY <1>0, <1>3, <3>3, <4>1, PutEntry
    <3>5. [st.din EXCEPT !.indirect = ent] = st.din BY <1>0 DEF DiskInode
    <3>6. /\ r.free = b.free /\ r.disk = dk2 /\ r.din = [st.din EXCEPT !.indirect = ent]
          /\ r.alen = st.alen /\ r.got = st.got /\ r.ret = "ok" /\ r.ino = b.ino
          /\ r.dirty = (b.dirty \/ FALSE)
      BY <2>2, <3>1, <3>2 DEF States
    <3>7. r.dirty = st.dirty BY <2>2, <3>1, <3>6 DEF States
    <3> HIDE DEF dk2
    <3>8. dk2 \in Disks /\ b.free \in SUBSET Blocks /\ st.dirty \in BOOLEAN
      BY <1>0, <3>4, <3>1 DEF Core, States
    <3>9. r \in States BY <1>0, <3>1, <3>2, <3>5, <3>6, <3>7, <3>8 DEF States
    <3>10. Good(r, O) BY <2>2, <3>1, <3>4, <3>5, <3>6, <3>9 DEF Good
    <3>11. Kept(st, r, O) BY <3>4, <3>5, <3>6, <3>7, <3>10 DEF Kept
    <3>12. QED BY <3>4, <3>5, <3>6, <3>11 DEF Found, r
  <2>5. QED BY <2>3, <2>4
<1>4. QED BY <1>1, <1>2, <1>3

LEMMA SubIs ==
  ASSUME NEW O, NEW st, Good(st, O), st.ret = "ok", NEW i \in Offsets, NEW create \in BOOLEAN
  PROVE  Found(st, sfs_bmap_get_sub_nolock(st, i, create), O, SFS_NDIRECT + i, create)
<1> DEFINE p == SFS_NDIRECT + i
           ent == st.din.indirect
           ino == IF ent = 0 THEN 0 ELSE st.disk[ent][i]
           r == sfs_bmap_get_sub_nolock(st, i, create)
<1>1. p \in Places /\ p # -1 /\ ~(p < SFS_NDIRECT) /\ p - SFS_NDIRECT = i
  BY Constants DEF Places, Offsets, MaxBlocks
<1>2. At(st.disk, st.din, p) = ino BY <1>1 DEF At
<1>3. st \in States /\ Core(st.free, st.disk, st.din, O) BY DEF Good
<1>4. ino \in Blocks BY <1>1, <1>2, <1>3, AtType
<1>5. CASE ino = 0 /\ create
  <2>1. r = sub_create(st, i) BY <1>5 DEF sfs_bmap_get_sub_nolock
  <2>2. Found(st, sub_create(st, i), O, p, TRUE) BY <1>2, <1>5, SubCreateIs
  <2>3. create = TRUE BY <1>5
  <2>4. QED BY <2>1, <2>2, <2>3
<1>6. CASE ~(ino = 0 /\ create)
  <2>1. r = [st EXCEPT !.ino = ino] BY <1>6 DEF sfs_bmap_get_sub_nolock
  <2> HIDE DEF r, ino, p
  <2>2. /\ r \in States /\ r.free = st.free /\ r.disk = st.disk /\ r.din = st.din
        /\ r.dirty = st.dirty /\ r.alen = st.alen /\ r.got = st.got /\ r.ret = "ok"
        /\ r.ino = ino
    BY <2>1, <1>3, <1>4 DEF States
  <2>3. Kept(st, r, O) BY <2>2, KeptSame
  <2>4. Found(st, r, O, p, create) BY <2>2, <2>3, <1>2, <1>6 DEF Found
  <2>5. QED BY <2>4 DEF r, p
<1>7. QED BY <1>5, <1>6

LEMMA GetIs ==
  ASSUME NEW O, NEW st, Good(st, O), st.ret = "ok", NEW p \in Nat, NEW create \in BOOLEAN
  PROVE  LET r == sfs_bmap_get_nolock(st, p, create)
         IN  /\ p < MaxBlocks => Found(st, r, O, p, create)
             /\ ~(p < MaxBlocks) => r = [st EXCEPT !.ret = "index_out_of_range"]
<1>1. CASE p < SFS_NDIRECT
  <2>1. sfs_bmap_get_nolock(st, p, create) = direct_get(st, p, create)
    BY <1>1, Constants DEF sfs_bmap_get_nolock
  <2>2. p < MaxBlocks BY <1>1, Constants
  <2>3. QED BY <1>1, <2>1, <2>2, DirectIs
<1>2. CASE ~(p < SFS_NDIRECT) /\ p < MaxBlocks
  <2> DEFINE i == p - SFS_NDIRECT
  <2>1. i \in Offsets /\ i \in 0 .. SFS_BLK_NENTRY - 1 /\ SFS_NDIRECT + i = p
    BY <1>2, Constants DEF Offsets, MaxBlocks, SFS_BLK_NENTRY
  <2>2. sfs_bmap_get_nolock(st, p, create) = sfs_bmap_get_sub_nolock(st, i, create)
    BY <1>2, <2>1 DEF sfs_bmap_get_nolock
  <2> HIDE DEF i
  <2>3. Found(st, sfs_bmap_get_sub_nolock(st, i, create), O, SFS_NDIRECT + i, create) BY <2>1, SubIs
  <2>4. QED BY <1>2, <2>1, <2>2, <2>3
<1>3. CASE ~(p < MaxBlocks)
  <2>1. ~(p < SFS_NDIRECT) /\ p - SFS_NDIRECT \notin 0 .. SFS_BLK_NENTRY - 1
    BY <1>3, Constants DEF MaxBlocks, SFS_BLK_NENTRY
  <2>2. QED BY <1>3, <2>1 DEF sfs_bmap_get_nolock
<1>4. QED BY <1>1, <1>2, <1>3, Constants

\* What loading block p of the file does: the block is there, or there was no
\* room, or an assertion has failed.
LEMMA LoadIs ==
  ASSUME NEW O, NEW st, Good(st, O), st.ret = "ok", NEW p \in Nat
  PROVE  LET r == sfs_bmap_load_nolock(st, p)
         IN  /\ r \in States
             /\ r.ret = "ok" \/ r.ret = "E_NO_MEM" \/ Panicked(r)
             /\ ~Panicked(r) => Kept(st, r, O) /\ p < MaxBlocks /\ p <= st.din.blocks
             /\ r.ret = "ok" => /\ r.ino = At(r.disk, r.din, p) /\ r.ino # 0
                                /\ r.din.blocks = IF p = st.din.blocks THEN p + 1 ELSE st.din.blocks
             /\ r.ret = "E_NO_MEM" => r.din.blocks = st.din.blocks
<1> DEFINE n == st.din.blocks
           create == p = n
           g == sfs_bmap_get_nolock(st, p, create)
           r == sfs_bmap_load_nolock(st, p)
<1>0. st \in States /\ n \in Nat /\ n <= MaxBlocks /\ create \in BOOLEAN
  BY DEF Good, Core, States, DiskInode
<1>1. CASE p > n
  <2>1. r = [st EXCEPT !.ret = "index_beyond_blocks"] BY <1>0, <1>1 DEF sfs_bmap_load_nolock
  <2>2. "index_beyond_blocks" \in Rets BY DEF Rets
  <2> HIDE DEF r
  <2>3. r \in States /\ r.ret = "index_beyond_blocks" BY <2>1, <2>2, <1>0, SetRet
  <2>4. QED BY <2>3 DEF Panicked, Errors, r
<1>2. CASE ~(p > n) /\ ~(p < MaxBlocks)
  <2>1. g = [st EXCEPT !.ret = "index_out_of_range"]
    <3> HIDE DEF create
    <3>1. QED BY <1>0, <1>2, GetIs
  <2>2. "index_out_of_range" \in Rets BY DEF Rets
  <2>3. g \in States /\ g.ret = "index_out_of_range"
    <3> HIDE DEF g
    <3>1. QED BY <2>1, <2>2, <1>0, SetRet
  <2>4. r = g BY <1>0, <1>2, <2>3 DEF sfs_bmap_load_nolock
  <2> HIDE DEF r, g
  <2>5. QED BY <2>3, <2>4 DEF Panicked, Errors, r
<1>3. CASE ~(p > n) /\ p < MaxBlocks
  <2>1. Found(st, g, O, p, create)
    <3> HIDE DEF create
    <3>1. QED BY <1>0, <1>3, GetIs
  <2>a. p <= n BY <1>3, <1>0
  <2>2. g \in States /\ Kept(st, g, O) /\ g.din.blocks = n /\ g.ret \in {"ok", "E_NO_MEM"}
    <3> HIDE DEF g, create
    <3>1. QED BY <2>1 DEF Found, Kept, Good
  <2>3. CASE g.ret = "ok" /\ g.ino = 0
    <3>1. r = [st EXCEPT !.ret = "block_out_of_range"]
      BY <2>3, <2>a DEF sfs_bmap_load_nolock
    <3>2. "block_out_of_range" \in Rets BY DEF Rets
    <3> HIDE DEF r
    <3>3. r \in States /\ r.ret = "block_out_of_range" BY <3>1, <3>2, <1>0, SetRet
    <3>4. QED BY <3>3 DEF Panicked, Errors, r
  <2>4. CASE g.ret = "ok" /\ g.ino # 0 /\ create
    <3>1. r = [g EXCEPT !.din.blocks = @ + 1] BY <2>4, <2>a DEF sfs_bmap_load_nolock
    <3> HIDE DEF r, g
    <3>2. /\ r.free = g.free /\ r.disk = g.disk /\ r.din = [g.din EXCEPT !.blocks = @ + 1]
          /\ r.dirty = g.dirty /\ r.alen = g.alen /\ r.got = g.got /\ r.ret = "ok" /\ r.ino = g.ino
      BY <2>2, <2>4, <3>1 DEF States
    <3>3. g.din \in DiskInode BY <2>2 DEF States
    <3>4. /\ r.din \in DiskInode /\ r.din.blocks = p + 1 /\ r.din.size = g.din.size
          /\ r.din.direct = g.din.direct /\ r.din.indirect = g.din.indirect
      BY <1>0, <2>2, <2>4, <3>2, <3>3 DEF DiskInode
    <3>5. r \in States BY <2>2, <3>1, <3>2, <3>4 DEF States
    <3>6. \A k \in Int : At(r.disk, r.din, k) = At(g.disk, g.din, k) BY <3>2, <3>4 DEF At
    <3>7. MapOf(r.disk, r.din) = MapOf(g.disk, g.din) BY <3>6 DEF MapOf, Places
    <3>8. Good(r, O)
      <4>1. Core(g.free, g.disk, g.din, O) BY <2>2 DEF Kept, Good
      <4>2. r.din.blocks <= MaxBlocks BY <1>3, <3>4, Constants
      <4>3. QED BY <4>1, <4>2, <3>2, <3>4, <3>5, <3>7 DEF Good, Core
    <3>9. SameCells(st.disk, st.din, r.disk, r.din)
      <4>1. SameCells(st.disk, st.din, g.disk, g.din) BY <2>2 DEF Kept
      <4>2. \A k \in DataPlaces, j \in Offsets : CellAt(r.disk, r.din, k, j) = CellAt(g.disk, g.din, k, j)
        BY <3>2, <3>6 DEF CellAt, DataPlaces
      <4>3. QED BY <4>1, <4>2 DEF SameCells
    <3>10. Kept(st, r, O) BY <2>2, <3>2, <3>4, <3>8, <3>9 DEF Kept
    <3>11. r.ino = At(r.disk, r.din, p) /\ r.ino # 0 BY <2>1, <2>4, <3>2, <3>6 DEF Found
    <3>12. ~Panicked(r) BY <3>2 DEF Panicked
    <3>13. QED BY <1>3, <2>a, <2>4, <3>2, <3>4, <3>5, <3>10, <3>11, <3>12 DEF r
  <2>5. CASE ~(g.ret = "ok" /\ (g.ino = 0 \/ create))
    <3>1. r = g BY <2>5, <2>a, <1>0, <1>3 DEF sfs_bmap_load_nolock
    <3>2. ~Panicked(g)
      <4> HIDE DEF g
      <4>1. QED BY <2>2 DEF Panicked, Errors
    <3>3. g.ret = "ok" => g.ino = At(g.disk, g.din, p) /\ g.ino # 0 /\ ~create
      <4>1. g.ret = "ok" => g.ino = At(g.disk, g.din, p)
        <5> HIDE DEF g, create
        <5>1. QED BY <2>1 DEF Found
      <4>2. QED BY <4>1, <2>5
    <3> HIDE DEF r, g
    <3>4. QED BY <1>3, <2>a, <2>2, <3>1, <3>2, <3>3 DEF r
  <2>6. QED BY <2>3, <2>4, <2>5
<1>4. QED BY <1>1, <1>2, <1>3

\* Dropping the last block: its place and its cells are empty.
LEMMA TruncateIs ==
  ASSUME NEW O, NEW st, Good(st, O), st.din.blocks > 0
  PROVE  LET r == sfs_bmap_truncate_nolock(st)
             n == st.din.blocks - 1
         IN  /\ Good(r, O) /\ SameOn(O, st.disk, r.disk) /\ r.dirty /\ r.ret = st.ret
             /\ r.din.size = st.din.size /\ r.alen = st.alen /\ r.got = st.got /\ r.din.blocks = n
             /\ \A k \in DataPlaces, j \in Offsets :
                  CellAt(r.disk, r.din, k, j) = IF k = n THEN 0 ELSE CellAt(st.disk, st.din, k, j)
<1> DEFINE ent == st.din.indirect
           n == st.din.blocks - 1
           i == n - SFS_NDIRECT
           ino == IF n < SFS_NDIRECT THEN st.din.direct[n]
                  ELSE IF ent # 0 THEN st.disk[ent][i] ELSE 0
           free2 == IF ino = 0 THEN st.free ELSE st.free \cup {ino}
           q == IF n < SFS_NDIRECT THEN [st.din.direct EXCEPT ![n] = 0] ELSE st.din.direct
           dk2 == IF n >= SFS_NDIRECT /\ ent # 0 THEN [st.disk EXCEPT ![ent][i] = 0] ELSE st.disk
           d2 == [st.din EXCEPT !.direct = q, !.blocks = n]
           r == sfs_bmap_truncate_nolock(st)
           A == MapOf(st.disk, st.din)
<1>0. /\ st \in States /\ Core(st.free, st.disk, st.din, O) /\ st.disk \in Disks /\ st.din \in DiskInode
      /\ st.din.blocks \in Nat /\ st.din.blocks <= MaxBlocks /\ ent \in Blocks
      /\ st.din.direct \in [0 .. SFS_NDIRECT - 1 -> Blocks]
  BY DEF Good, Core, States, DiskInode
<1>1. n \in DataPlaces /\ n \in Places /\ n # -1 /\ n \in Nat BY <1>0, Constants DEF DataPlaces, Places
<1>2. n >= SFS_NDIRECT => i \in Offsets BY <1>0, <1>1, Constants DEF Offsets, MaxBlocks
<1>3. A[n] = ino /\ ino = At(st.disk, st.din, n) /\ ino \in Blocks
  <2>1. ino = At(st.disk, st.din, n) BY <1>1 DEF At
  <2>2. QED BY <2>1, <1>0, <1>1, AtType
<1>4. q \in [0 .. SFS_NDIRECT - 1 -> Blocks]
      /\ \A k \in 0 .. SFS_NDIRECT - 1 : q[k] = IF k = n THEN 0 ELSE st.din.direct[k]
  BY <1>0, <1>1, Constants
<1>5. /\ dk2 \in Disks
      /\ \A c \in Blocks : (c # ent \/ ent = 0) => dk2[c] = st.disk[c]
      /\ (ent # 0 => \A j \in Offsets : dk2[ent][j] = IF n >= SFS_NDIRECT /\ j = i THEN 0 ELSE st.disk[ent][j])
  <2>1. CASE n >= SFS_NDIRECT /\ ent # 0
    <3> DEFINE x == [st.disk[ent] EXCEPT ![i] = 0]
    <3>1. st.disk[ent] \in [Offsets -> Cells] BY <1>0 DEF Disks
    <3>2. x \in [Offsets -> Cells] /\ \A j \in Offsets : x[j] = IF j = i THEN 0 ELSE st.disk[ent][j]
      BY <3>1, <1>2, <2>1, Constants
    <3>3. dk2 = [st.disk EXCEPT ![ent] = x] BY <2>1, <1>0 DEF Disks
    <3> HIDE DEF x, dk2
    <3>4. dk2 \in Disks /\ dk2[ent] = x /\ \A c \in Blocks : c # ent => dk2[c] = st.disk[c]
      BY <3>2, <3>3, <1>0 DEF Disks
    <3>5. QED BY <2>1, <3>2, <3>4
  <2>2. CASE ~(n >= SFS_NDIRECT /\ ent # 0) BY <2>2, <1>0, <1>1, Constants
  <2>3. QED BY <2>1, <2>2
<1>6. r = [st EXCEPT !.free = free2, !.din.direct = q, !.disk = dk2, !.din.blocks = n, !.dirty = TRUE]
  BY <1>0 DEF sfs_bmap_truncate_nolock, States, DiskInode
<1>7. free2 \in SUBSET Blocks BY <1>0, <1>3 DEF States
<1> HIDE DEF free2, q, dk2, r, ino
<1>8. /\ d2 \in DiskInode /\ d2.size = st.din.size /\ d2.blocks = n /\ d2.direct = q /\ d2.indirect = ent
  BY <1>0, <1>1, <1>4 DEF DiskInode
<1>9. /\ r.free = free2 /\ r.disk = dk2 /\ r.din = d2 /\ r.dirty = TRUE /\ r.ret = st.ret /\ r.ino = st.ino
      /\ r.alen = st.alen /\ r.got = st.got
  BY <1>0, <1>6 DEF States, DiskInode
<1> HIDE DEF d2
<1>10. r \in States BY <1>0, <1>5, <1>6, <1>7, <1>8, <1>9 DEF States
<1>11. ASSUME NEW k \in Places PROVE At(dk2, d2, k) = IF k = n THEN 0 ELSE At(st.disk, st.din, k)
  <2>1. CASE k = -1 BY <2>1, <1>1, <1>8 DEF At
  <2>2. CASE k # -1 /\ k < SFS_NDIRECT
    <3>1. k \in 0 .. SFS_NDIRECT - 1 BY <2>2, Constants DEF Places
    <3>2. At(dk2, d2, k) = q[k] /\ At(st.disk, st.din, k) = st.din.direct[k] BY <2>2, <1>8 DEF At
    <3>3. QED BY <3>1, <3>2, <1>4
  <2>3. CASE k # -1 /\ ~(k < SFS_NDIRECT)
    <3>1. CASE ent = 0
      <4>1. At(dk2, d2, k) = 0 /\ At(st.disk, st.din, k) = 0 BY <2>3, <3>1, <1>8 DEF At
      <4>2. QED BY <4>1
    <3>2. CASE ent # 0
      <4> DEFINE j == k - SFS_NDIRECT
      <4>1. At(dk2, d2, k) = dk2[ent][j] /\ At(st.disk, st.din, k) = st.disk[ent][j]
        BY <2>3, <3>2, <1>8 DEF At
      <4>2. j \in Offsets /\ (k = n <=> (n >= SFS_NDIRECT /\ j = i))
        BY <2>3, <1>1, Constants DEF Places, Offsets, MaxBlocks
      <4> HIDE DEF j, i, n, ent
      <4>3. dk2[ent][j] = IF n >= SFS_NDIRECT /\ j = i THEN 0 ELSE st.disk[ent][j] BY <4>2, <3>2, <1>5
      <4>4. QED BY <4>1, <4>2, <4>3
    <3>3. QED BY <3>1, <3>2
  <2>4. QED BY <2>1, <2>2, <2>3
<1>12. MapOf(dk2, d2) = [A EXCEPT ![n] = 0] BY <1>1, <1>11 DEF MapOf
<1>13. Sound(free2, [A EXCEPT ![n] = 0], O)
  <2>1. Sound(st.free, A, O) BY <1>0 DEF Core
  <2> HIDE DEF A
  <2>2. free2 = IF A[n] = 0 THEN st.free ELSE st.free \cup {A[n]} BY <1>3 DEF free2
  <2>3. QED BY <2>1, <2>2, <1>1, DropBlock
<1>14. Good(r, O)
  <2>1. d2.blocks <= MaxBlocks BY <1>0, <1>8, Constants
  <2> HIDE DEF A, n
  <2>2. Core(free2, dk2, d2, O) BY <2>1, <1>5, <1>8, <1>12, <1>13 DEF Core
  <2>3. QED BY <2>2, <1>9, <1>10 DEF Good
<1>15. SameOn(O, st.disk, r.disk)
  <2>1. ASSUME NEW c \in O \cap Blocks PROVE c # ent \/ ent = 0 BY <1>0, AtType
  <2>2. QED BY <2>1, <1>5, <1>9 DEF SameOn
<1>16. ASSUME NEW k \in DataPlaces, NEW j \in Offsets
       PROVE  CellAt(dk2, d2, k, j) = IF k = n THEN 0 ELSE CellAt(st.disk, st.din, k, j)
  <2> DEFINE a == At(st.disk, st.din, k)
  <2>1. k \in Places /\ k # -1 /\ a \in Blocks BY <1>0, Constants, AtType
  <2>2. CASE k = n BY <2>1, <2>2, <1>11 DEF CellAt
  <2>3. CASE k # n
    <3>1. a # ent \/ a = 0 BY <2>1, <1>0, AtType
    <3>2. a # 0 => dk2[a] = st.disk[a] BY <2>1, <3>1, <1>5
    <3>3. At(dk2, d2, k) = a BY <2>1, <2>3, <1>11
    <3>4. QED BY <2>3, <3>2, <3>3 DEF CellAt
  <2>4. QED BY <2>2, <2>3
<1>17. QED BY <1>8, <1>9, <1>14, <1>15, <1>16 DEF r

-----------------------------------------------------------------------------
(* The loops of sfs_truncfile.                                             *)

LEMMA KeptTrans ==
  ASSUME NEW O, NEW x, NEW y, NEW z, Kept(x, y, O), Kept(y, z, O)
  PROVE  Kept(x, z, O)
BY DEF Kept, SameOn, SameCells

\* What has come out of loading blocks of the file st, m of them if all went well.
Grew(st, r, O, m) ==
  /\ r \in States
  /\ r.ret \in Errors \cup {"ok"} => Kept(st, r, O) /\ r.ret # "E_INVAL"
  /\ r.ret = "ok" => r.din.blocks = st.din.blocks + m

LEMMA GrewStep ==
  ASSUME NEW O, NEW st, Good(st, O), NEW r, NEW m \in Nat, Grew(st, r, O, m)
  PROVE  Grew(st, sfs_bmap_load_nolock(r, st.din.blocks + (m + 1) - 1), O, m + 1)
<1> DEFINE p == st.din.blocks + (m + 1) - 1
           s == sfs_bmap_load_nolock(r, p)
<1>0. st.din.blocks \in Nat BY DEF Good, States, DiskInode
<1>1. p \in Nat /\ p = st.din.blocks + m BY <1>0
<1>2. CASE r.ret # "ok"
  <2>1. s = r BY <1>2 DEF sfs_bmap_load_nolock
  <2>2. QED BY <1>2, <2>1 DEF Grew
<1>3. CASE r.ret = "ok"
  <2>1. Kept(st, r, O) /\ r.din.blocks = p BY <1>3, <1>1 DEF Grew
  <2>2. Good(r, O) BY <2>1 DEF Kept
  <2> HIDE DEF p
  <2>3. /\ s \in States /\ (s.ret = "ok" \/ s.ret = "E_NO_MEM" \/ Panicked(s))
        /\ (~Panicked(s) => Kept(r, s, O))
        /\ (s.ret = "ok" => s.din.blocks = IF p = r.din.blocks THEN p + 1 ELSE r.din.blocks)
    BY <1>1, <1>3, <2>2, LoadIs
  <2> HIDE DEF s
  <2>4. s.ret = "ok" => s.din.blocks = st.din.blocks + (m + 1) BY <2>1, <2>3, <1>0, <1>1
  <2>5. s.ret \in Errors \cup {"ok"} => Kept(st, s, O) /\ s.ret # "E_INVAL"
    BY <2>1, <2>3, KeptTrans DEF Panicked, Errors
  <2>6. QED BY <2>3, <2>4, <2>5 DEF Grew, s, p
<1>4. QED BY <1>2, <1>3

LEMMA GrowIs ==
  ASSUME NEW O, NEW st, Good(st, O), st.ret = "ok", NEW n \in Nat
  PROVE  Grew(st, grow(st, n), O, n)
<1> DEFINE V == {x \in States : x.ret \in Errors \cup {"ok"} => Good(x, O)}
           body(g) == [k \in 0 .. n |-> IF k = 0 THEN st
                                        ELSE sfs_bmap_load_nolock(g[k - 1], st.din.blocks + k - 1)]
           g == CHOOSE g : g = body(g)
<1>0. st.din.blocks \in Nat /\ st \in States BY DEF Good, States, DiskInode
<1>1. grow(st, n) = g[n] BY DEF grow
<1>2. \E h : h = body(h)
  <2> DEFINE F == [k \in Nat |-> [x \in V |-> IF k = 0 THEN x
                                              ELSE sfs_bmap_load_nolock(x, st.din.blocks + k - 1)]]
  <2>1. st \in V BY <1>0
  <2>2. ASSUME NEW x \in V, NEW p \in Nat PROVE sfs_bmap_load_nolock(x, p) \in V
    <3>1. CASE x.ret # "ok"
      <4>1. sfs_bmap_load_nolock(x, p) = x BY <3>1 DEF sfs_bmap_load_nolock
      <4>2. QED BY <4>1
    <3>2. CASE x.ret = "ok"
      <4> DEFINE s == sfs_bmap_load_nolock(x, p)
      <4>1. Good(x, O) BY <3>2
      <4>2. s \in States /\ (~Panicked(s) => Kept(x, s, O)) BY <3>2, <4>1, LoadIs
      <4> HIDE DEF s
      <4>3. s \in V BY <4>2 DEF Kept, Panicked
      <4>4. QED BY <4>3 DEF s
    <3>3. QED BY <3>1, <3>2
  <2>3. F \in [Nat -> [V -> V]]
    <3>1. ASSUME NEW k \in Nat, NEW x \in V, k # 0
          PROVE  sfs_bmap_load_nolock(x, st.din.blocks + k - 1) \in V
      <4>1. st.din.blocks + k - 1 \in Nat BY <1>0, <3>1
      <4> HIDE DEF V
      <4>2. QED BY <4>1, <2>2
    <3> HIDE DEF V
    <3>2. QED BY <3>1
  <2>4. PICK h \in [0 .. n -> V] : h[0] = st /\ \A k \in 1 .. n : h[k] = F[k][h[k - 1]]
    <3> HIDE DEF V, F
    <3>1. F \in Steps(V) BY <2>3 DEF Steps
    <3>2. Runs(V, F, st, n) # {} BY <2>1, <3>1, Iterates
    <3>3. QED BY <3>2 DEF Runs
  <2>5. ASSUME NEW k \in 0 .. n
        PROVE  h[k] = IF k = 0 THEN st ELSE sfs_bmap_load_nolock(h[k - 1], st.din.blocks + k - 1)
    <3>1. CASE k = 0 BY <3>1, <2>4
    <3>2. CASE k # 0
      <4>1. k \in 1 .. n /\ k - 1 \in 0 .. n /\ k \in Nat BY <3>2
      <4>2. h[k - 1] \in V
        <5> HIDE DEF V
        <5>1. QED BY <4>1
      <4> HIDE DEF V
      <4>3. h[k] = F[k][h[k - 1]] BY <4>1, <2>4
      <4>4. QED BY <3>2, <4>1, <4>2, <4>3
    <3>3. QED BY <3>1, <3>2
  <2>6. h = body(h)
    <3> HIDE DEF V, F
    <3>1. QED BY <2>5
  <2>7. QED BY <2>6
<1>3. g = body(g)
  <2> HIDE DEF body
  <2>1. QED BY <1>2
<1> HIDE DEF g
<1>4. g[0] = st /\ \A k \in 1 .. n : g[k] = sfs_bmap_load_nolock(g[k - 1], st.din.blocks + k - 1)
  BY <1>3
<1> HIDE DEF body
<1> DEFINE S == {m \in Nat : m <= n => Grew(st, g[m], O, m)}
<1>5. 0 \in S
  <2>1. Kept(st, st, O) BY <1>0, KeptSame
  <2>2. Grew(st, st, O, 0) BY <2>1, <1>0 DEF Grew
  <2>3. QED BY <2>2, <1>4
<1>6. ASSUME NEW m \in Nat, m \in S PROVE m + 1 \in S
  <2>1. CASE m + 1 <= n
    <3>1. Grew(st, g[m], O, m) BY <2>1, <1>6
    <3>2. m + 1 \in 1 .. n /\ (m + 1) - 1 = m BY <2>1
    <3>3. g[m + 1] = sfs_bmap_load_nolock(g[m], st.din.blocks + (m + 1) - 1) BY <3>2, <1>4
    <3>4. Grew(st, g[m + 1], O, m + 1) BY <3>1, <3>3, GrewStep
    <3>5. QED BY <3>4
  <2>2. CASE ~(m + 1 <= n) BY <2>2
  <2>3. QED BY <2>1, <2>2
<1>7. n \in S
  <2> HIDE DEF S
  <2>1. QED BY <1>5, <1>6, SetInduction
<1>8. QED BY <1>1, <1>7

\* What has come out of dropping m blocks of the file st.
Shrank(st, r, O, m) ==
  /\ Good(r, O) /\ SameOn(O, st.disk, r.disk) /\ r.ret = st.ret
  /\ r.din.size = st.din.size /\ r.alen = st.alen /\ r.got = st.got
  /\ r.din.blocks = st.din.blocks - m
  /\ \A k \in DataPlaces, j \in Offsets :
       CellAt(r.disk, r.din, k, j) =
         IF k >= st.din.blocks - m /\ k < st.din.blocks THEN 0 ELSE CellAt(st.disk, st.din, k, j)

LEMMA ShrankStep ==
  ASSUME NEW O, NEW st, Good(st, O), NEW r, NEW m \in Nat, m < st.din.blocks, Shrank(st, r, O, m)
  PROVE  Shrank(st, sfs_bmap_truncate_nolock(r), O, m + 1)
<1> DEFINE s == sfs_bmap_truncate_nolock(r)
           n == st.din.blocks
           d == st.din
<1>0. n \in Nat BY DEF Good, States, DiskInode
<1>1. r.din.blocks = n - m /\ r.din.blocks > 0 /\ Good(r, O) BY <1>0 DEF Shrank
<1>2. /\ Good(s, O) /\ SameOn(O, r.disk, s.disk) /\ s.ret = r.ret
      /\ s.din.size = r.din.size /\ s.alen = r.alen /\ s.got = r.got /\ s.din.blocks = r.din.blocks - 1
      /\ \A k \in DataPlaces, j \in Offsets :
           CellAt(s.disk, s.din, k, j) = IF k = r.din.blocks - 1 THEN 0 ELSE CellAt(r.disk, r.din, k, j)
  BY <1>1, TruncateIs
<1> HIDE DEF s
<1>3. ASSUME NEW k \in DataPlaces, NEW j \in Offsets
      PROVE  CellAt(s.disk, s.din, k, j) =
               IF k >= n - (m + 1) /\ k < n THEN 0 ELSE CellAt(st.disk, st.din, k, j)
  <2>1. CellAt(r.disk, r.din, k, j) = IF k >= n - m /\ k < n THEN 0 ELSE CellAt(st.disk, st.din, k, j)
    BY DEF Shrank
  <2>2. k \in Nat BY Constants
  <2>3. CellAt(s.disk, s.din, k, j) = IF k = r.din.blocks - 1 THEN 0 ELSE CellAt(r.disk, r.din, k, j)
    BY <1>2
  <2>4. (k >= n - (m + 1) /\ k < n) <=> (k = r.din.blocks - 1 \/ (k >= n - m /\ k < n))
    BY <1>0, <1>1, <2>2
  <2>5. QED BY <2>1, <2>3, <2>4
<1>4. SameOn(O, st.disk, s.disk) BY <1>2 DEF Shrank, SameOn
<1>5. s.din.blocks = n - (m + 1) BY <1>0, <1>1, <1>2
<1>6. QED BY <1>2, <1>3, <1>4, <1>5 DEF Shrank, s

LEMMA ShrinkIs ==
  ASSUME NEW O, NEW st, Good(st, O), NEW n \in Nat, n <= st.din.blocks
  PROVE  /\ Shrank(st, shrink(st, n), O, n)
         /\ n > 0 => shrink(st, n).dirty
         /\ n = 0 => shrink(st, n) = st
<1> DEFINE V == {x \in States : Good(x, O)}
           body(g) == [k \in 0 .. n |-> IF k = 0 THEN st ELSE sfs_bmap_truncate_nolock(g[k - 1])]
           g == CHOOSE g : g = body(g)
<1>0. st.din.blocks \in Nat /\ st \in States BY DEF Good, States, DiskInode
<1>1. shrink(st, n) = g[n] BY DEF shrink
<1>2. \E h : h = body(h)
  <2> DEFINE F == [k \in Nat |-> [x \in V |-> IF x.din.blocks > 0 THEN sfs_bmap_truncate_nolock(x) ELSE x]]
  <2>1. st \in V BY <1>0
  <2>2. ASSUME NEW x \in V, x.din.blocks > 0 PROVE sfs_bmap_truncate_nolock(x) \in V
    <3> DEFINE s == sfs_bmap_truncate_nolock(x)
    <3>1. Good(s, O) BY <2>2, TruncateIs
    <3> HIDE DEF s
    <3>2. s \in V BY <3>1 DEF Good
    <3>3. QED BY <3>2 DEF s
  <2>3. F \in [Nat -> [V -> V]]
    <3> HIDE DEF V
    <3>1. QED BY <2>2
  <2>4. PICK h \in [0 .. n -> V] : h[0] = st /\ \A k \in 1 .. n : h[k] = F[k][h[k - 1]]
    <3> HIDE DEF V, F
    <3>1. F \in Steps(V) BY <2>3 DEF Steps
    <3>2. Runs(V, F, st, n) # {} BY <2>1, <3>1, Iterates
    <3>3. QED BY <3>2 DEF Runs
  <2> DEFINE S == {m \in Nat : m <= n => h[m].din.blocks = st.din.blocks - m}
  <2>a. \A k \in 0 .. n : h[k] \in V
    <3> HIDE DEF V
    <3>1. QED OBVIOUS
  <2>b. ASSUME NEW m \in Nat, m \in S, m + 1 <= n
        PROVE  h[m].din.blocks > 0 /\ h[m + 1] = sfs_bmap_truncate_nolock(h[m])
    <3>1. h[m].din.blocks = st.din.blocks - m BY <2>b
    <3>2. h[m].din.blocks > 0 BY <3>1, <2>b, <1>0
    <3>3. m + 1 \in 1 .. n /\ (m + 1) - 1 = m /\ m \in 0 .. n BY <2>b
    <3>4. h[m] \in V BY <2>a, <3>3
    <3> HIDE DEF V
    <3>5. h[m + 1] = F[m + 1][h[m]] BY <3>3, <2>4
    <3>6. QED BY <3>2, <3>4, <3>5
  <2>5. ASSUME NEW m \in Nat, m \in S PROVE m + 1 \in S
    <3>1. CASE m + 1 <= n
      <4>1. h[m].din.blocks > 0 /\ h[m + 1] = sfs_bmap_truncate_nolock(h[m]) BY <2>b, <2>5, <3>1
      <4>2. m \in 0 .. n BY <3>1
      <4>3. Good(h[m], O) BY <4>2, <2>a
      <4>4. h[m + 1].din.blocks = h[m].din.blocks - 1 BY <4>1, <4>3, TruncateIs
      <4>5. h[m].din.blocks = st.din.blocks - m BY <2>5, <3>1
      <4>6. h[m + 1].din.blocks = st.din.blocks - (m + 1) BY <4>4, <4>5, <1>0
      <4>7. QED BY <4>6
    <3>2. CASE ~(m + 1 <= n) BY <3>2
    <3>3. QED BY <3>1, <3>2
  <2>6. 0 \in S BY <2>4, <1>0
  <2>7. \A m \in Nat : m \in S
    <3> HIDE DEF S
    <3>1. QED BY <2>5, <2>6, SetInduction
  <2>8. ASSUME NEW k \in 0 .. n
        PROVE  h[k] = IF k = 0 THEN st ELSE sfs_bmap_truncate_nolock(h[k - 1])
    <3>1. CASE k = 0 BY <3>1, <2>4
    <3>2. CASE k # 0
      <4> DEFINE m == k - 1
      <4>1. m \in Nat /\ m + 1 <= n /\ k = m + 1 BY <3>2
      <4> HIDE DEF m
      <4>2. m \in S BY <4>1, <2>7
      <4> HIDE DEF S
      <4>3. h[m + 1] = sfs_bmap_truncate_nolock(h[m]) BY <4>1, <4>2, <2>b
      <4>4. QED BY <4>1, <4>3, <3>2 DEF m
    <3>3. QED BY <3>1, <3>2
  <2>9. h = body(h)
    <3> HIDE DEF V, F
    <3>1. QED BY <2>8
  <2>10. QED BY <2>9
<1>3. g = body(g)
  <2> HIDE DEF body
  <2>1. QED BY <1>2
<1> HIDE DEF g
<1>4. g[0] = st /\ \A k \in 1 .. n : g[k] = sfs_bmap_truncate_nolock(g[k - 1])
  BY <1>3
<1> HIDE DEF body
<1> DEFINE S == {m \in Nat : m <= n => Shrank(st, g[m], O, m)}
<1>5. 0 \in S
  <2>1. Shrank(st, st, O, 0)
    <3>1. \A k \in DataPlaces : ~(k >= st.din.blocks - 0 /\ k < st.din.blocks) BY <1>0, Constants
    <3>2. st.din.blocks = st.din.blocks - 0 BY <1>0
    <3>3. QED BY <3>1, <3>2 DEF Shrank, SameOn
  <2>2. QED BY <2>1, <1>4
<1>6. ASSUME NEW m \in Nat, m \in S PROVE m + 1 \in S
  <2>1. CASE m + 1 <= n
    <3>1. Shrank(st, g[m], O, m) BY <2>1, <1>6
    <3>2. m + 1 \in 1 .. n /\ (m + 1) - 1 = m /\ m < st.din.blocks BY <2>1, <1>0
    <3>3. g[m + 1] = sfs_bmap_truncate_nolock(g[m]) BY <3>2, <1>4
    <3>4. Shrank(st, g[m + 1], O, m + 1) BY <3>1, <3>2, <3>3, ShrankStep
    <3>5. QED BY <3>4
  <2>2. CASE ~(m + 1 <= n) BY <2>2
  <2>3. QED BY <2>1, <2>2
<1>7. \A m \in Nat : m \in S
  <2> HIDE DEF S
  <2>1. QED BY <1>5, <1>6, SetInduction
<1>8. n > 0 => g[n].dirty
  <2> SUFFICES ASSUME n > 0 PROVE g[n].dirty OBVIOUS
  <2> DEFINE m == n - 1
  <2>1. m \in Nat /\ m <= n /\ m < st.din.blocks /\ n \in 1 .. n BY <1>0
  <2>2. Shrank(st, g[m], O, m) BY <2>1, <1>7
  <2>3. Good(g[m], O) /\ g[m].din.blocks > 0 BY <2>1, <2>2, <1>0 DEF Shrank
  <2>4. g[n] = sfs_bmap_truncate_nolock(g[m]) BY <2>1, <1>4
  <2>5. QED BY <2>3, <2>4, TruncateIs
<1>9. Shrank(st, g[n], O, n) BY <1>7
<1>10. QED BY <1>1, <1>4, <1>8, <1>9

\* What the inode on the disk must have when the one in memory is not dirty.
Agree(d, e) == d.size = e.size /\ d.direct = e.direct /\ d.indirect = e.indirect

\* All cells up to length n have a place in the map.
Fits(n) == \A i \in 0 .. n - 1 : i \div SFS_BLKSIZE \in DataPlaces

LEMMA TruncfileIs ==
  ASSUME NEW O, NEW st, Good(st, O), st.ret = "ok", NEW len \in Nat
  PROVE  LET r == sfs_truncfile(st, len)
         IN  /\ r \in States
             /\ ~Panicked(r) =>
                  /\ Good(r, O) /\ SameOn(O, st.disk, r.disk) /\ r.alen = st.alen
                  /\ ~r.dirty => ~st.dirty /\ Agree(r.din, st.din)
                  /\ r.ret # "ok" => r.din.size = st.din.size /\ SameCells(st.disk, st.din, r.disk, r.din)
                  /\ r.ret = "ok" =>
                       /\ r.din.size = len /\ Fits(len)
                       /\ \A k \in DataPlaces, j \in Offsets :
                            CellAt(r.disk, r.din, k, j) =
                              IF k >= Ceil(len) /\ k < st.din.blocks THEN 0
                              ELSE CellAt(st.disk, st.din, k, j)
<1> DEFINE n == st.din.blocks
           t == Ceil(len)
           s == IF n < t THEN grow(st, t - n) ELSE shrink(st, n - t)
           r == sfs_truncfile(st, len)
<1>0. st \in States /\ n \in Nat /\ n <= MaxBlocks /\ t \in Nat /\ st.din \in DiskInode /\ st.din.size \in Nat
  BY CeilIs DEF Good, Core, States, DiskInode
<1>a. ASSUME t <= MaxBlocks PROVE Fits(len)
  <2>1. ASSUME NEW i \in 0 .. len - 1 PROVE i \div SFS_BLKSIZE \in DataPlaces
    <3>1. i \in Nat /\ i < len OBVIOUS
    <3>2. i \div SFS_BLKSIZE \in Nat /\ i \div SFS_BLKSIZE < t BY <3>1, Division, CeilIs
    <3>3. QED BY <3>2, <1>a, <1>0, Constants DEF DataPlaces
  <2>2. QED BY <2>1 DEF Fits
<1>1. CASE st.din.size = len /\ t = n
  <2>1. r = st BY <1>1 DEF sfs_truncfile
  <2>2. \A k \in DataPlaces : ~(k >= t /\ k < n)
    <3>1. \A k \in DataPlaces : k \in Nat BY Constants
    <3> HIDE DEF t, n
    <3>2. QED BY <3>1, <1>0, <1>1
  <2>3. Fits(len) BY <1>a, <1>0, <1>1
  <2> HIDE DEF r, t
  <2>4. QED BY <1>0, <1>1, <2>1, <2>2, <2>3 DEF Agree, SameOn, SameCells, r, t
<1>2. CASE st.din.size = len /\ t # n
  <2>1. r = [st EXCEPT !.ret = "blocks_differ"] BY <1>2 DEF sfs_truncfile
  <2>2. "blocks_differ" \in Rets BY DEF Rets
  <2> HIDE DEF r
  <2>3. r \in States /\ r.ret = "blocks_differ" BY <2>1, <2>2, <1>0, SetRet
  <2>4. QED BY <2>3 DEF Panicked, Errors, r
<1>3. CASE st.din.size # len /\ s.ret # "ok"
  <2>1. r = s BY <1>3 DEF sfs_truncfile
  <2>2. CASE n < t
    <3>1. t - n \in Nat /\ s = grow(st, t - n) BY <2>2, <1>0
    <3>2. Grew(st, s, O, t - n)
      <4> HIDE DEF s, t
      <4>1. QED BY <3>1, GrowIs
    <3> HIDE DEF r, s
    <3>3. s \in States /\ (~Panicked(s) => Kept(st, s, O)) BY <3>2 DEF Grew, Panicked
    <3>4. QED BY <1>3, <2>1, <3>3 DEF Kept, Agree, r
  <2>3. CASE ~(n < t)
    <3>1. n - t \in Nat /\ n - t <= n /\ s = shrink(st, n - t) BY <2>3, <1>0
    <3>2. Shrank(st, s, O, n - t)
      <4> HIDE DEF s, t, n
      <4>1. QED BY <3>1, ShrinkIs DEF n
    <3> HIDE DEF s
    <3>3. FALSE BY <1>3, <3>2 DEF Shrank
    <3>4. QED BY <3>3
  <2>4. QED BY <2>2, <2>3
<1>4. CASE st.din.size # len /\ s.ret = "ok"
  <2>1. r = [s EXCEPT !.din.size = len, !.dirty = TRUE] BY <1>4 DEF sfs_truncfile
  <2>2. /\ Good(s, O) /\ SameOn(O, st.disk, s.disk) /\ s.alen = st.alen /\ s.din.blocks = t
        /\ \A k \in DataPlaces, j \in Offsets :
             CellAt(s.disk, s.din, k, j) = IF k >= t /\ k < n THEN 0 ELSE CellAt(st.disk, st.din, k, j)
    <3>1. CASE n < t
      <4>1. t - n \in Nat /\ s = grow(st, t - n) /\ n + (t - n) = t BY <3>1, <1>0
      <4>2. Grew(st, s, O, t - n)
        <5> HIDE DEF s, t
        <5>1. QED BY <4>1, GrowIs
      <4>3. \A k \in DataPlaces : ~(k >= t /\ k < n) BY <1>0, <3>1, Constants
      <4> HIDE DEF s, t
      <4>4. Kept(st, s, O) /\ s.din.blocks = t BY <1>4, <4>1, <4>2 DEF Grew
      <4>5. QED BY <4>3, <4>4 DEF Kept, SameCells
    <3>2. CASE ~(n < t)
      <4>1. n - t \in Nat /\ n - t <= n /\ s = shrink(st, n - t) /\ n - (n - t) = t BY <3>2, <1>0
      <4>2. Shrank(st, s, O, n - t)
        <5> HIDE DEF s, t, n
        <5>1. QED BY <4>1, ShrinkIs DEF n
      <4> HIDE DEF s, t
      <4>3. QED BY <4>1, <4>2 DEF Shrank
    <3>3. QED BY <3>1, <3>2
  <2> HIDE DEF r, s
  <2>3. s \in States /\ s.din \in DiskInode BY <2>2 DEF Good, States
  <2>4. /\ r.free = s.free /\ r.disk = s.disk /\ r.din = [s.din EXCEPT !.size = len]
        /\ r.dirty = TRUE /\ r.alen = s.alen /\ r.got = s.got /\ r.ret = "ok" /\ r.ino = s.ino
    BY <1>4, <2>1, <2>3 DEF States
  <2>5. /\ r.din \in DiskInode /\ r.din.size = len /\ r.din.blocks = s.din.blocks
        /\ r.din.direct = s.din.direct /\ r.din.indirect = s.din.indirect
    BY <2>3, <2>4 DEF DiskInode
  <2>6. r \in States BY <2>1, <2>3, <2>4, <2>5 DEF States
  <2>7. \A k \in Int : At(r.disk, r.din, k) = At(s.disk, s.din, k) BY <2>4, <2>5 DEF At
  <2>8. MapOf(r.disk, r.din) = MapOf(s.disk, s.din) BY <2>7 DEF MapOf, Places
  <2>9. Good(r, O) BY <2>2, <2>4, <2>5, <2>6, <2>8 DEF Good, Core
  <2>10. \A k \in DataPlaces, j \in Offsets : CellAt(r.disk, r.din, k, j) = CellAt(s.disk, s.din, k, j)
    BY <2>4, <2>7 DEF CellAt, DataPlaces
  <2>11. Fits(len)
    <3>1. t <= MaxBlocks BY <2>2 DEF Good, Core
    <3>2. QED BY <3>1, <1>a
  <2> HIDE DEF t
  <2>12. QED BY <2>2, <2>4, <2>5, <2>6, <2>9, <2>10, <2>11 DEF r, t
<1>5. QED BY <1>1, <1>2, <1>3, <1>4

-----------------------------------------------------------------------------
(* Reading and writing.                                                    *)

\* Piece p begins at position a of the file and stays within a block.
StartsAt(p, a) ==
  \/ p.n = 0
  \/ /\ ~p.whole /\ p.blk = a \div SFS_BLKSIZE /\ p.off = a % SFS_BLKSIZE
     /\ p.off + p.n <= SFS_BLKSIZE

LEMMA PiecesAre ==
  ASSUME NEW a \in Nat, NEW e \in Nat, a < e, e - a <= SFS_BLKSIZE,
         e - a < SFS_BLKSIZE \/ a % SFS_BLKSIZE # 0
  PROVE  LET p == Pieces(a, e)
         IN  /\ p.whole.n = 0 /\ p.head.n \in Nat /\ p.tail.n \in Nat /\ p.head.n + p.tail.n = e - a
             /\ StartsAt(p.head, a) /\ StartsAt(p.tail, a + p.head.n)
<1> DEFINE B == SFS_BLKSIZE
           q == a \div B
           m == a % B
           c == e - a
           nblks == e \div B - q
           p == Pieces(a, e)
<1>1. B \in Nat /\ B > 0 /\ q \in Nat /\ m \in Nat /\ m < B BY Constants, Division DEF Offsets
<1>2. c \in Nat /\ c > 0 /\ a + c = e OBVIOUS
<1> DEFINE skip == IF m # 0 THEN 1 ELSE 0
           hn == CASE m = 0 -> 0 [] m # 0 /\ nblks # 0 -> B - m [] OTHER -> e - a
           wn == IF nblks - skip > 0 THEN B ELSE 0
           tn == IF m # 0 /\ nblks = 0 THEN 0 ELSE e % B
<1>3. /\ p.head.n = hn /\ p.head.blk = q /\ p.head.off = m /\ p.head.whole = FALSE
      /\ p.whole.n = wn
      /\ p.tail.n = tn /\ p.tail.blk = q + nblks /\ p.tail.off = 0 /\ p.tail.whole = FALSE
  BY DEF Pieces
<1>4. CASE m = 0
  <2>1. c < B /\ m + c < B BY <1>4, <1>1, <1>2
  <2>2. e \div B = q /\ e % B = m + c BY <2>1, <1>2, SameBlock
  <2>3. nblks = 0 /\ hn = 0 /\ wn = 0 /\ tn = c BY <1>1, <1>2, <1>4, <2>2
  <2>4. a + hn = a /\ q + nblks = q /\ 0 + tn <= B
    <3> HIDE DEF q, nblks, hn, tn, B, c
    <3>1. QED BY <1>1, <1>2, <2>1, <2>3
  <2> HIDE DEF p, q, m, nblks, hn, wn, tn, B, c
  <2>5. QED BY <1>2, <1>3, <1>4, <2>3, <2>4 DEF StartsAt, p, q, m, B, c
<1>5. CASE m # 0 /\ m + c < B
  <2>2. e \div B = q /\ e % B = m + c BY <1>5, <1>2, SameBlock
  <2>3. nblks = 0 /\ hn = c /\ wn = 0 /\ tn = 0 BY <1>1, <1>2, <1>5, <2>2
  <2>4. m + hn <= B /\ c + 0 = c BY <1>1, <1>2, <1>5, <2>3
  <2> HIDE DEF p, q, m, nblks, hn, wn, tn, B, c
  <2>5. QED BY <1>2, <1>3, <2>3, <2>4 DEF StartsAt, p, q, m, B, c
<1>6. CASE m # 0 /\ ~(m + c < B)
  <2> DEFINE u == B - m
             w == c - u
  <2>1. u \in Nat /\ u > 0 /\ w \in Nat /\ w < B /\ m + u = B /\ u + w = c BY <1>1, <1>2, <1>6
  <2>2. (a + u) \div B = q + 1 /\ (a + u) % B = 0 BY <2>1, SameBlock
  <2>3. a + u \in Nat /\ (a + u) + w = e /\ ((a + u) % B) + w < B BY <2>1, <2>2, <1>2
  <2>4. e \div B = q + 1 /\ e % B = w
    <3> DEFINE x == a + u
    <3>1. x \in Nat /\ w \in Nat /\ (x % B) + w < B /\ x + w = e /\ x \div B = q + 1 /\ x % B = 0 BY <2>1, <2>2, <2>3
    <3> HIDE DEF x, w
    <3>2. (x + w) \div B = x \div B /\ (x + w) % B = (x % B) + w BY <3>1, SameBlock
    <3>3. QED BY <3>1, <3>2
  <2>5. nblks = 1 /\ hn = u /\ wn = 0 /\ tn = w BY <1>1, <1>2, <1>6, <2>4
  <2>6. m + u <= B /\ 0 + w <= B BY <2>1, <1>1
  <2> HIDE DEF p, q, m, nblks, hn, wn, tn, B, c, u, w
  <2>7. StartsAt(p.head, a) BY <1>3, <2>5, <2>6 DEF StartsAt, q, m, B
  <2>8. StartsAt(p.tail, a + p.head.n) BY <1>3, <2>2, <2>5, <2>6 DEF StartsAt, B
  <2>9. p.whole.n = 0 /\ p.head.n \in Nat /\ p.tail.n \in Nat /\ p.head.n + p.tail.n = c
    BY <1>3, <2>1, <2>5
  <2>10. QED BY <2>7, <2>8, <2>9 DEF p, c
<1>7. QED BY <1>4, <1>5, <1>6

\* The cell at position i.
Cell(dk, d, i) == CellAt(dk, d, i \div SFS_BLKSIZE, i % SFS_BLKSIZE)

\* The n cells from position a on.
Row(dk, d, a, n) == [k \in 1 .. n |-> Cell(dk, d, a + k - 1)]

\* What a transfer leaves as it was, and what may have become of the block map.
Moved(st, r, O) ==
  /\ Good(r, O) /\ SameOn(O, st.disk, r.disk)
  /\ r.din.size = st.din.size
  /\ ~r.dirty => ~st.dirty /\ r.din.direct = st.din.direct /\ r.din.indirect = st.din.indirect

\* After an error the remaining pieces are skipped.
LEMMA PieceStops ==
  ASSUME NEW st, st.ret # "ok", NEW p, NEW v
  PROVE  ReadPiece(st, p) = st /\ WritePiece(v, st, p) = st
<1>1. sfs_bmap_load_nolock(st, p.blk) = st BY DEF sfs_bmap_load_nolock
<1>2. QED BY <1>1 DEF ReadPiece, WritePiece

LEMMA PieceEmpty ==
  ASSUME NEW st, NEW p, NEW v, p.n = 0
  PROVE  ReadPiece(st, p) = st /\ WritePiece(v, st, p) = st
BY DEF ReadPiece, WritePiece

LEMMA ReadPieceIs ==
  ASSUME NEW O, NEW st, Good(st, O), st.ret = "ok", NEW p, NEW a \in Nat, StartsAt(p, a), p.n \in Nat
  PROVE  LET r == ReadPiece(st, p)
         IN  /\ r \in States
             /\ ~Panicked(r) => Moved(st, r, O) /\ SameCells(st.disk, st.din, r.disk, r.din)
             /\ r.ret = "ok" => /\ r.alen = st.alen + p.n
                                /\ r.got = Cat(st.got, Row(st.disk, st.din, a, p.n))
             /\ r.ret = "E_NO_MEM" => r.alen = st.alen
             /\ r.ret # "E_INVAL"
<1> DEFINE r == ReadPiece(st, p)
           l == sfs_bmap_load_nolock(st, p.blk)
<1>0. st \in States /\ st.alen \in Nat /\ st.got \in Seq(Cells) BY DEF Good, States
<1>1. CASE p.n = 0
  <2>1. r = st BY <1>1, PieceEmpty
  <2>2. Row(st.disk, st.din, a, p.n) = <<>> BY <1>1 DEF Row
  <2>3. st.got \o <<>> = st.got /\ st.alen + p.n = st.alen BY <1>0, <1>1
  <2> HIDE DEF r
  <2>4. QED BY <1>0, <2>1, <2>2, <2>3 DEF Moved, SameOn, SameCells, Panicked, Errors, Cat, r
<1>2. CASE p.n # 0
  <2>1. /\ ~p.whole /\ p.blk = a \div SFS_BLKSIZE /\ p.off = a % SFS_BLKSIZE
        /\ p.off + p.n <= SFS_BLKSIZE /\ p.blk \in Nat /\ p.off \in Nat
    BY <1>2, Division, Constants DEF StartsAt, Offsets
  <2>2. /\ l \in States
        /\ (l.ret = "ok" \/ l.ret = "E_NO_MEM" \/ Panicked(l))
        /\ (~Panicked(l) => Kept(st, l, O) /\ p.blk < MaxBlocks /\ p.blk <= st.din.blocks)
        /\ (l.ret = "ok" => l.ino = At(l.disk, l.din, p.blk) /\ l.ino # 0)
    BY <2>1, LoadIs
  <2>3. CASE l.ret # "ok"
    <3>1. r = l BY <1>2, <2>3 DEF ReadPiece
    <3> HIDE DEF r, l
    <3>2. ~Panicked(l) => Moved(st, l, O) /\ SameCells(st.disk, st.din, l.disk, l.din) /\ l.alen = st.alen
      BY <2>2 DEF Kept, Moved
    <3>3. l.ret # "E_INVAL" /\ (l.ret = "E_NO_MEM" => ~Panicked(l)) BY <2>2, <2>3 DEF Panicked, Errors
    <3>4. QED BY <2>2, <2>3, <3>1, <3>2, <3>3 DEF r
  <2>4. CASE l.ret = "ok"
    <3> DEFINE piece == [k \in 1 .. p.n |-> l.disk[l.ino][p.off + k - 1]]
    <3>1. r = [l EXCEPT !.got = @ \o piece, !.alen = @ + p.n]
      BY <1>2, <2>1, <2>2, <2>4 DEF ReadPiece, Target
    <3> HIDE DEF r, l
    <3>2. Kept(st, l, O) /\ p.blk \in DataPlaces /\ p.blk \in Places /\ l.ino \in Blocks
      <4>1. Kept(st, l, O) /\ p.blk < MaxBlocks BY <2>2, <2>4 DEF Panicked
      <4>2. QED BY <4>1, <2>1, <2>2, Constants DEF DataPlaces, Places, States
    <3>3. Core(l.free, l.disk, l.din, O) /\ l.disk \in Disks BY <3>2 DEF Kept, Good, Core
    <3>4. ASSUME NEW k \in 1 .. p.n
          PROVE  /\ piece[k] = Cell(st.disk, st.din, a + k - 1) /\ piece[k] \in Cells
      <4> DEFINE t == k - 1
                 j == p.off + t
      <4>1. t \in Nat /\ a + k - 1 = a + t /\ p.off + k - 1 = j /\ j \in Offsets /\ (a % SFS_BLKSIZE) + t < SFS_BLKSIZE
        BY <2>1, Constants DEF Offsets
      <4>2. (a + t) \div SFS_BLKSIZE = p.blk /\ (a + t) % SFS_BLKSIZE = j
        <5> HIDE DEF t
        <5>1. QED BY <4>1, <2>1, SameBlock
      <4> HIDE DEF t, j
      <4>3. Cell(st.disk, st.din, a + k - 1) = CellAt(st.disk, st.din, p.blk, j) BY <4>1, <4>2 DEF Cell
      <4>4. CellAt(st.disk, st.din, p.blk, j) = CellAt(l.disk, l.din, p.blk, j)
        BY <4>1, <3>2 DEF Kept, SameCells
      <4>5. CellAt(l.disk, l.din, p.blk, j) = l.disk[l.ino][j] BY <2>2, <2>4 DEF CellAt
      <4>6. l.disk[l.ino][j] \in Cells BY <3>2, <3>3, <4>1 DEF Disks
      <4>7. piece[k] = l.disk[l.ino][j] BY <4>1
      <4>8. QED BY <4>3, <4>4, <4>5, <4>6, <4>7
    <3>5. piece = Row(st.disk, st.din, a, p.n) BY <3>4 DEF Row
    <3>6. piece \in Seq(Cells)
      <4>1. \A k \in 1 .. p.n : piece[k] \in Cells BY <3>4
      <4> DEFINE c(k) == l.disk[l.ino][p.off + k - 1]
      <4>2. \A k \in 1 .. p.n : c(k) \in Cells BY <4>1
      <4>3. piece = [k \in 1 .. p.n |-> c(k)] OBVIOUS
      <4> HIDE DEF c, piece
      <4>4. QED BY <4>2, <4>3
    <3> HIDE DEF piece
    <3>7. /\ r.free = l.free /\ r.disk = l.disk /\ r.din = l.din /\ r.dirty = l.dirty
          /\ r.got = l.got \o piece /\ r.alen = l.alen + p.n /\ r.ret = "ok" /\ r.ino = l.ino
      BY <2>2, <2>4, <3>1 DEF States
    <3>8. l.got \o piece \in Seq(Cells) /\ l.alen + p.n \in Nat BY <2>2, <3>6 DEF States
    <3>9. r \in States BY <2>2, <3>1, <3>7, <3>8 DEF States
    <3>10. Good(r, O) BY <3>3, <3>7, <3>9 DEF Good
    <3>11. Moved(st, r, O) /\ SameCells(st.disk, st.din, r.disk, r.din)
      BY <3>2, <3>7, <3>10 DEF Moved, Kept
    <3>12. l.got = st.got /\ l.alen = st.alen BY <3>2 DEF Kept
    <3>13. QED BY <3>5, <3>7, <3>9, <3>11, <3>12 DEF r, Cat
  <2>5. QED BY <2>3, <2>4
<1>3. QED BY <1>1, <1>2

\* Cell j of block k is among the n cells from position a on.
Covers(a, n, k, j) ==
  \E t \in 0 .. n - 1 : (a + t) \div SFS_BLKSIZE = k /\ (a + t) % SFS_BLKSIZE = j

LEMMA CoversPiece ==
  ASSUME NEW a \in Nat, NEW n \in Nat, (a % SFS_BLKSIZE) + n <= SFS_BLKSIZE, NEW k \in Nat, NEW j \in Offsets
  PROVE  Covers(a, n, k, j) <=>
           (k = a \div SFS_BLKSIZE /\ j \in a % SFS_BLKSIZE .. (a % SFS_BLKSIZE) + n - 1)
<1> DEFINE m == a % SFS_BLKSIZE
<1>0. m \in Nat /\ j \in Nat /\ SFS_BLKSIZE \in Nat BY Division, Constants DEF Offsets
<1>1. ASSUME NEW t \in 0 .. n - 1
      PROVE  (a + t) \div SFS_BLKSIZE = a \div SFS_BLKSIZE /\ (a + t) % SFS_BLKSIZE = m + t
  <2>1. t \in Nat /\ m + t < SFS_BLKSIZE BY <1>0
  <2>2. QED BY <2>1, SameBlock
<1>2. ASSUME Covers(a, n, k, j) PROVE k = a \div SFS_BLKSIZE /\ j \in m .. m + n - 1
  <2>1. PICK t \in 0 .. n - 1 : (a + t) \div SFS_BLKSIZE = k /\ (a + t) % SFS_BLKSIZE = j BY <1>2 DEF Covers
  <2>2. j = m + t /\ k = a \div SFS_BLKSIZE BY <1>1, <2>1
  <2> HIDE DEF m
  <2>3. QED BY <1>0, <2>2
<1>3. ASSUME k = a \div SFS_BLKSIZE, j \in m .. m + n - 1 PROVE Covers(a, n, k, j)
  <2> DEFINE t == j - m
  <2>1. t \in 0 .. n - 1 /\ m + t = j
    <3> HIDE DEF m
    <3>1. QED BY <1>0, <1>3
  <2> HIDE DEF t
  <2>2. (a + t) \div SFS_BLKSIZE = k /\ (a + t) % SFS_BLKSIZE = j BY <1>1, <1>3, <2>1
  <2>3. QED BY <2>1, <2>2 DEF Covers
<1>4. QED BY <1>2, <1>3

LEMMA CoversSum ==
  ASSUME NEW a \in Nat, NEW m \in Nat, NEW n \in Nat, NEW k, NEW j
  PROVE  Covers(a, m + n, k, j) <=> (Covers(a, m, k, j) \/ Covers(a + m, n, k, j))
<1>1. ASSUME Covers(a, m + n, k, j) PROVE Covers(a, m, k, j) \/ Covers(a + m, n, k, j)
  <2>1. PICK t \in 0 .. m + n - 1 : (a + t) \div SFS_BLKSIZE = k /\ (a + t) % SFS_BLKSIZE = j BY <1>1 DEF Covers
  <2>2. CASE t < m
    <3>1. t \in 0 .. m - 1 BY <2>2
    <3>2. QED BY <2>1, <3>1 DEF Covers
  <2>3. CASE ~(t < m)
    <3> DEFINE u == t - m
    <3>1. u \in 0 .. n - 1 /\ (a + m) + u = a + t BY <2>3
    <3> HIDE DEF u
    <3>2. QED BY <2>1, <3>1 DEF Covers
  <2>4. QED BY <2>2, <2>3
<1>2. ASSUME Covers(a, m, k, j) PROVE Covers(a, m + n, k, j)
  <2>1. PICK t \in 0 .. m - 1 : (a + t) \div SFS_BLKSIZE = k /\ (a + t) % SFS_BLKSIZE = j BY <1>2 DEF Covers
  <2>2. t \in 0 .. m + n - 1 OBVIOUS
  <2>3. QED BY <2>1, <2>2 DEF Covers
<1>3. ASSUME Covers(a + m, n, k, j) PROVE Covers(a, m + n, k, j)
  <2>1. PICK t \in 0 .. n - 1 : ((a + m) + t) \div SFS_BLKSIZE = k /\ ((a + m) + t) % SFS_BLKSIZE = j
    BY <1>3 DEF Covers
  <2> DEFINE u == m + t
  <2>2. u \in 0 .. m + n - 1 /\ a + u = (a + m) + t OBVIOUS
  <2> HIDE DEF u
  <2>3. QED BY <2>1, <2>2 DEF Covers
<1>4. QED BY <1>1, <1>2, <1>3

\* A block of the file is overwritten in part.
LEMMA PutCells ==
  ASSUME NEW free, NEW dk, NEW d, NEW O, Core(free, dk, d, O), NEW p \in DataPlaces,
         NEW b, b = At(dk, d, p), b # 0, NEW x \in [Offsets -> Cells]
  PROVE  LET dk2 == [dk EXCEPT ![b] = x]
         IN  /\ Core(free, dk2, d, O) /\ SameOn(O, dk, dk2)
             /\ \A k \in DataPlaces, j \in Offsets :
                  CellAt(dk2, d, k, j) = IF k = p THEN x[j] ELSE CellAt(dk, d, k, j)
<1> DEFINE dk2 == [dk EXCEPT ![b] = x]
<1>1. p \in Places /\ p # -1 /\ b \in Blocks /\ b \notin O BY Constants, AtType
<1>2. b # d.indirect /\ d.indirect \in Blocks
  <2>1. -1 \in Places /\ d.indirect = At(dk, d, -1) /\ d.indirect \in Blocks BY AtType
  <2>2. QED BY <2>1, <1>1, AtType
<1>3. dk2 \in Disks /\ dk2[b] = x /\ \A c \in Blocks : c # b => dk2[c] = dk[c]
  BY <1>1 DEF Core, Disks
<1> HIDE DEF dk2
<1>4. \A k \in Places : At(dk2, d, k) = At(dk, d, k) BY <1>2, <1>3 DEF At
<1>5. MapOf(dk2, d) = MapOf(dk, d) BY <1>4 DEF MapOf
<1>6. Core(free, dk2, d, O) BY <1>3, <1>5 DEF Core
<1>7. SameOn(O, dk, dk2) BY <1>1, <1>3 DEF SameOn
<1>8. ASSUME NEW k \in DataPlaces, NEW j \in Offsets
      PROVE  CellAt(dk2, d, k, j) = IF k = p THEN x[j] ELSE CellAt(dk, d, k, j)
  <2>1. k \in Places /\ At(dk, d, k) \in Blocks BY Constants, AtType
  <2>2. CASE k = p BY <2>1, <2>2, <1>3, <1>4 DEF CellAt
  <2>3. CASE k # p
    <3>1. At(dk, d, k) # b BY <2>1, <2>3, <1>1, AtType
    <3>2. dk2[At(dk, d, k)] = dk[At(dk, d, k)] BY <3>1, <2>1, <1>3
    <3>3. QED BY <2>1, <2>3, <3>2, <1>4 DEF CellAt
  <2>4. QED BY <2>2, <2>3
<1>9. QED BY <1>6, <1>7, <1>8 DEF dk2

LEMMA WritePieceIs ==
  ASSUME NEW O, NEW st, Good(st, O), st.ret = "ok", NEW v \in Marks,
         NEW p, NEW a \in Nat, StartsAt(p, a), p.n \in Nat
  PROVE  LET r == WritePiece(v, st, p)
         IN  /\ r \in States
             /\ ~Panicked(r) => Moved(st, r, O) /\ (p.n # 0 => p.blk \in DataPlaces)
             /\ r.ret = "ok" =>
                  /\ r.alen = st.alen + p.n
                  /\ \A k \in DataPlaces, j \in Offsets :
                       CellAt(r.disk, r.din, k, j) =
                         IF Covers(a, p.n, k, j) THEN v ELSE CellAt(st.disk, st.din, k, j)
             /\ r.ret = "E_NO_MEM" => r.alen = st.alen /\ SameCells(st.disk, st.din, r.disk, r.din)
             /\ r.ret # "E_INVAL"
<1> DEFINE r == WritePiece(v, st, p)
           l == sfs_bmap_load_nolock(st, p.blk)
<1>0. st \in States /\ st.alen \in Nat BY DEF Good, States
<1>1. CASE p.n = 0
  <2>1. r = st BY <1>1, PieceEmpty
  <2>2. st.alen + p.n = st.alen BY <1>0, <1>1
  <2>3. \A k \in DataPlaces, j \in Offsets : ~Covers(a, p.n, k, j) BY <1>1 DEF Covers
  <2> HIDE DEF r
  <2>4. QED BY <1>0, <1>1, <2>1, <2>2, <2>3 DEF Moved, SameOn, SameCells, Panicked, Errors, r
<1>2. CASE p.n # 0
  <2>1. /\ ~p.whole /\ p.blk = a \div SFS_BLKSIZE /\ p.off = a % SFS_BLKSIZE
        /\ p.off + p.n <= SFS_BLKSIZE /\ p.blk \in Nat /\ p.off \in Nat
    BY <1>2, Division, Constants DEF StartsAt, Offsets
  <2>2. /\ l \in States
        /\ (l.ret = "ok" \/ l.ret = "E_NO_MEM" \/ Panicked(l))
        /\ (~Panicked(l) => Kept(st, l, O) /\ p.blk < MaxBlocks /\ p.blk <= st.din.blocks)
        /\ (l.ret = "ok" => l.ino = At(l.disk, l.din, p.blk) /\ l.ino # 0)
    BY <2>1, LoadIs
  <2>a. ~Panicked(l) => p.blk \in DataPlaces
    <3> HIDE DEF l
    <3>1. QED BY <2>1, <2>2, Constants DEF DataPlaces
  <2>3. CASE l.ret # "ok"
    <3>1. r = l BY <1>2, <2>3 DEF WritePiece
    <3> HIDE DEF r, l
    <3>2. ~Panicked(l) => Moved(st, l, O) /\ SameCells(st.disk, st.din, l.disk, l.din) /\ l.alen = st.alen
      BY <2>2 DEF Kept, Moved
    <3>3. l.ret # "E_INVAL" /\ (l.ret = "E_NO_MEM" => ~Panicked(l)) BY <2>2, <2>3 DEF Panicked, Errors
    <3>4. QED BY <2>2, <2>a, <2>3, <3>1, <3>2, <3>3 DEF r
  <2>4. CASE l.ret = "ok"
    <3> DEFINE x == [i \in 0 .. SFS_BLKSIZE - 1 |->
                       IF i \in p.off .. p.off + p.n - 1 THEN v ELSE l.disk[l.ino][i]]
               dk2 == [l.disk EXCEPT ![l.ino] = x]
    <3>1. r = [l EXCEPT !.disk[l.ino] = x, !.alen = @ + p.n]
      BY <1>2, <2>1, <2>2, <2>4 DEF WritePiece, Target
    <3> HIDE DEF r, l
    <3>2. Kept(st, l, O) /\ p.blk \in DataPlaces /\ l.ino \in Blocks
      BY <2>2, <2>a, <2>4 DEF Panicked, States
    <3>3. Core(l.free, l.disk, l.din, O) /\ l.disk \in Disks /\ l.disk[l.ino] \in [Offsets -> Cells]
      BY <3>2 DEF Kept, Good, Core, Disks
    <3>4. x \in [Offsets -> Cells] /\ \A j \in Offsets : x[j] = IF j \in p.off .. p.off + p.n - 1 THEN v ELSE l.disk[l.ino][j]
      BY <3>3 DEF Offsets, Cells
    <3> HIDE DEF x
    <3>5. /\ Core(l.free, dk2, l.din, O) /\ SameOn(O, l.disk, dk2)
          /\ \A k \in DataPlaces, j \in Offsets :
               CellAt(dk2, l.din, k, j) = IF k = p.blk THEN x[j] ELSE CellAt(l.disk, l.din, k, j)
      BY <2>2, <2>4, <3>2, <3>3, <3>4, PutCells
    <3>6. /\ r.free = l.free /\ r.disk = dk2 /\ r.din = l.din /\ r.dirty = l.dirty
          /\ r.got = l.got /\ r.alen = l.alen + p.n /\ r.ret = "ok" /\ r.ino = l.ino
      BY <2>2, <2>4, <3>1 DEF States
    <3> HIDE DEF dk2
    <3>7. dk2 \in Disks /\ l.alen + p.n \in Nat BY <2>2, <3>5 DEF States, Core
    <3>8. r \in States BY <2>2, <3>1, <3>6, <3>7 DEF States
    <3>9. Good(r, O) BY <3>5, <3>6, <3>8 DEF Good
    <3>10. Moved(st, r, O)
      <4>1. SameOn(O, st.disk, r.disk) BY <3>2, <3>5, <3>6 DEF Kept, SameOn
      <4>2. QED BY <4>1, <3>2, <3>6, <3>9 DEF Moved, Kept
    <3>11. ASSUME NEW k \in DataPlaces, NEW j \in Offsets
           PROVE  CellAt(r.disk, r.din, k, j) = IF Covers(a, p.n, k, j) THEN v ELSE CellAt(st.disk, st.din, k, j)
      <4>1. CellAt(l.disk, l.din, k, j) = CellAt(st.disk, st.din, k, j) BY <3>2 DEF Kept, SameCells
      <4>2. CellAt(r.disk, r.din, k, j) = IF k = p.blk THEN x[j] ELSE CellAt(l.disk, l.din, k, j) BY <3>5, <3>6
      <4>3. k = p.blk => CellAt(l.disk, l.din, k, j) = l.disk[l.ino][j] BY <2>2, <2>4 DEF CellAt
      <4>4. Covers(a, p.n, k, j) <=> (k = p.blk /\ j \in p.off .. p.off + p.n - 1)
        <5>1. k \in Nat /\ (a % SFS_BLKSIZE) + p.n <= SFS_BLKSIZE BY <2>1, Constants
        <5>2. QED BY <5>1, <2>1, CoversPiece
      <4>5. x[j] = IF j \in p.off .. p.off + p.n - 1 THEN v ELSE l.disk[l.ino][j] BY <3>4
      <4>6. QED BY <4>1, <4>2, <4>3, <4>4, <4>5
    <3>12. l.alen = st.alen BY <3>2 DEF Kept
    <3>13. QED BY <3>2, <3>6, <3>8, <3>10, <3>11, <3>12 DEF r
  <2>5. QED BY <2>3, <2>4
<1>3. QED BY <1>1, <1>2

LEMMA MinIs ==
  ASSUME NEW T \in SUBSET Nat, T # {}
  PROVE  Min(T) \in T /\ \A y \in T : Min(T) <= y
<1>1. \E x \in T : \A y \in T : x <= y BY NatLeast
<1>2. QED BY <1>1 DEF Min

\* The cells of a file, one after the other.
Data(dk, d) == [i \in Nat |-> IF i < d.size THEN Cell(dk, d, i) ELSE 0]

LEMMA DataType ==
  ASSUME NEW free, NEW dk, NEW d, NEW O, Core(free, dk, d, O), Fits(d.size)
  PROVE  Data(dk, d) \in Series(Cells)
<1>0. d.size \in Nat BY DEF Core, DiskInode
<1>1. ASSUME NEW i \in Nat, i < d.size PROVE Cell(dk, d, i) \in Cells
  <2> DEFINE k == i \div SFS_BLKSIZE
             j == i % SFS_BLKSIZE
  <2>1. k \in DataPlaces /\ j \in Offsets /\ k \in Places BY <1>0, <1>1, Division, Constants DEF Fits
  <2> HIDE DEF k, j
  <2>2. At(dk, d, k) \in Blocks BY <2>1, AtType
  <2>3. dk \in Disks BY DEF Core
  <2>4. CellAt(dk, d, k, j) \in Cells BY <2>1, <2>2, <2>3, Constants DEF CellAt, Disks
  <2>5. QED BY <2>4 DEF Cell, k, j
<1>2. QED BY <1>1, Constants DEF Data, Series

\* How far a read gets.
Reach(a, len, size) == IF a + len < size THEN a + len ELSE size

LEMMA ReadIs ==
  ASSUME NEW O, NEW st, Good(st, O), st.ret = "ok", st.alen = 0, st.got = <<>>,
         st.din.size <= SFS_MAX_FILE_SIZE, Fits(st.din.size),
         NEW a \in Nat, NEW len \in Nat \ {0}, len <= SFS_BLKSIZE,
         len < SFS_BLKSIZE \/ a % SFS_BLKSIZE # 0
  PROVE  LET r == sfs_read(st, a, len)
         IN  /\ r \in States
             /\ ~Panicked(r) => Moved(st, r, O) /\ SameCells(st.disk, st.din, r.disk, r.din)
             /\ r.ret = "ok" =>
                  r.got = Part(Data(st.disk, st.din), a,
                               IF a < st.din.size THEN Reach(a, len, st.din.size) - a ELSE 0)
<1> DEFINE size == st.din.size
           e == Min({a + len, SFS_MAX_FILE_SIZE, size})
           p == Pieces(a, e)
           r == sfs_read(st, a, len)
           r1 == ReadPiece(st, p.head)
           r2 == ReadPiece(r1, p.whole)
           r3 == ReadPiece(r2, p.tail)
<1>0. st \in States /\ size \in Nat /\ SFS_MAX_FILE_SIZE \in Nat BY Constants DEF Good, States, DiskInode
<1>a. Moved(st, st, O) /\ SameCells(st.disk, st.din, st.disk, st.din) BY DEF Moved, SameOn, SameCells
<1>1. CASE a >= SFS_MAX_FILE_SIZE
  <2>1. r = [st EXCEPT !.ret = "E_INVAL"] BY <1>0, <1>1 DEF sfs_read
  <2>2. "E_INVAL" \in Rets BY DEF Rets
  <2> HIDE DEF r
  <2>3. /\ r \in States /\ r.free = st.free /\ r.disk = st.disk /\ r.din = st.din
        /\ r.dirty = st.dirty /\ r.alen = st.alen /\ r.got = st.got /\ r.ret = "E_INVAL"
    BY <2>1, <2>2, <1>0, SetRet
  <2>4. Kept(st, r, O) BY <2>3, KeptSame
  <2>5. QED BY <2>3, <2>4 DEF Kept, Moved, r
<1>2. CASE a < SFS_MAX_FILE_SIZE /\ a >= size
  <2>1. r = st BY <1>0, <1>2 DEF sfs_read
  <2>2. ~(a < size) BY <1>0, <1>2
  <2>3. Part(Data(st.disk, st.din), a, 0) = <<>> BY DEF Part
  <2> HIDE DEF r
  <2>4. QED BY <1>0, <1>a, <2>1, <2>2, <2>3 DEF r
<1>3. CASE a < SFS_MAX_FILE_SIZE /\ a < size
  <2>1. r = Grown(r3, a) BY <1>0, <1>3 DEF sfs_read, AllPieces
  <2>2. e = Reach(a, len, size)
    <3> DEFINE T == {a + len, SFS_MAX_FILE_SIZE, size}
    <3>1. T \in SUBSET Nat /\ T # {} BY <1>0
    <3>2. e \in T /\ \A y \in T : e <= y
      <4> HIDE DEF T
      <4>1. QED BY <3>1, MinIs DEF T
    <3> HIDE DEF e
    <3>3. QED BY <1>0, <3>2 DEF Reach
  <2> HIDE DEF e
  <2>3. /\ e \in Nat /\ a < e /\ e <= size /\ e - a <= SFS_BLKSIZE
        /\ (e - a < SFS_BLKSIZE \/ a % SFS_BLKSIZE # 0)
    BY <2>2, <1>0, <1>3, Constants DEF Reach
  <2> DEFINE m == p.head.n
             n == p.tail.n
  <2>4. /\ p.whole.n = 0 /\ m \in Nat /\ n \in Nat /\ m + n = e - a
        /\ StartsAt(p.head, a) /\ StartsAt(p.tail, a + m)
    BY <2>3, PiecesAre
  <2> DEFINE D == Data(st.disk, st.din)
             G == Row(st.disk, st.din, a, m)
  <2> HIDE DEF p, m, n
  <2>a. D \in Series(Cells) BY DataType DEF Good
  <2>b. \A i \in Nat : i < size => D[i] = Cell(st.disk, st.din, i) BY DEF Data
  <2> HIDE DEF D
  <2>c. G = Part(D, a, m)
    <3>1. ASSUME NEW k \in 1 .. m PROVE Cell(st.disk, st.din, a + k - 1) = D[a + k - 1]
      <4>1. a + k - 1 \in Nat /\ a + k - 1 < size BY <2>3, <2>4, <1>0
      <4>2. QED BY <4>1, <2>b
    <3>2. QED BY <3>1 DEF Part, Row
  <2>d. G \in Seq(Cells)
    <3> HIDE DEF G
    <3>1. QED BY <2>a, <2>c, <2>4, PartIs
  <2>5. /\ r1 \in States /\ r1.ret # "E_INVAL"
        /\ (~Panicked(r1) => Moved(st, r1, O) /\ SameCells(st.disk, st.din, r1.disk, r1.din))
        /\ (r1.ret = "ok" => r1.alen = 0 + m /\ r1.got = Cat(st.got, G))
        /\ (r1.ret = "E_NO_MEM" => r1.alen = 0)
    <3> DEFINE hd == p.head
    <3>1. hd.n = m /\ StartsAt(hd, a) /\ hd.n \in Nat BY <2>4 DEF m
    <3>2. r1 = ReadPiece(st, hd) OBVIOUS
    <3> HIDE DEF hd, r1
    <3>3. QED BY <3>1, <3>2, ReadPieceIs
  <2> HIDE DEF G
  <2>6. r2 = r1 BY <2>4, PieceEmpty
  <2>7. /\ r3 \in States
        /\ (~Panicked(r3) => /\ Moved(st, r3, O) /\ SameCells(st.disk, st.din, r3.disk, r3.din)
                             /\ r3.alen <= m + n)
        /\ (r3.ret = "ok" => r3.got = Part(D, a, m + n))
    <3>1. CASE r1.ret # "ok"
      <4>1. r3 = r1 BY <2>6, <3>1, PieceStops
      <4>2. r1.ret \in Rets BY <2>5 DEF States
      <4> HIDE DEF r1, r3
      <4>3. ~Panicked(r1) => r1.alen = 0 BY <2>5, <3>1, <4>2 DEF Panicked, Errors
      <4>4. QED BY <2>4, <2>5, <3>1, <4>1, <4>3
    <3>2. CASE r1.ret = "ok"
      <4>1. Moved(st, r1, O) /\ SameCells(st.disk, st.din, r1.disk, r1.din)
        <5> HIDE DEF r1
        <5>1. QED BY <3>2, <2>5 DEF Panicked
      <4>2. Good(r1, O)
        <5> HIDE DEF r1
        <5>1. QED BY <4>1 DEF Moved
      <4>3. a + m \in Nat BY <2>4
      <4>4. r3 = ReadPiece(r1, p.tail) BY <2>6
      <4> DEFINE H == Row(r1.disk, r1.din, a + m, n)
      <4> HIDE DEF r1, r2, r3
      <4>5. /\ r3 \in States /\ r3.ret # "E_INVAL"
            /\ (~Panicked(r3) => Moved(r1, r3, O) /\ SameCells(r1.disk, r1.din, r3.disk, r3.din))
            /\ (r3.ret = "ok" => r3.alen = r1.alen + n /\ r3.got = Cat(r1.got, H))
            /\ (r3.ret = "E_NO_MEM" => r3.alen = r1.alen)
        <5> DEFINE tl == p.tail
                   b == a + m
        <5>1. tl.n = n /\ StartsAt(tl, b) /\ tl.n \in Nat BY <2>4 DEF n
        <5>2. r3 = ReadPiece(r1, tl) BY <4>4
        <5> HIDE DEF tl, b
        <5>3. b \in Nat /\ H = Row(r1.disk, r1.din, b, n) BY <4>3 DEF b
        <5> HIDE DEF H
        <5>4. QED BY <3>2, <4>2, <5>1, <5>2, <5>3, ReadPieceIs
      <4>6. ~Panicked(r3) => Moved(st, r3, O) /\ SameCells(st.disk, st.din, r3.disk, r3.din)
        <5>1. SUFFICES ASSUME ~Panicked(r3)
                       PROVE  Moved(st, r3, O) /\ SameCells(st.disk, st.din, r3.disk, r3.din)
          OBVIOUS
        <5>2. Moved(r1, r3, O) /\ SameCells(r1.disk, r1.din, r3.disk, r3.din) BY <4>5, <5>1
        <5>3. QED BY <4>1, <5>2 DEF Moved, SameOn, SameCells
      <4>7. ~Panicked(r3) => r3.alen <= m + n
        <5>1. r3.ret \in Rets BY <4>5 DEF States
        <5>2. ~Panicked(r3) => r3.alen = r1.alen + n \/ r3.alen = r1.alen
          BY <5>1, <4>5 DEF Panicked, Errors
        <5>3. r1.alen = 0 + m BY <2>5, <3>2
        <5>4. QED BY <5>2, <5>3, <2>4
      <4>8. r3.ret = "ok" => r3.got = Part(D, a, m + n)
        <5>1. m \in Nat /\ n \in Nat BY <2>4
        <5>2. H = Part(D, a + m, n)
          <6>1. ASSUME NEW k \in 1 .. n
                PROVE  Cell(r1.disk, r1.din, (a + m) + k - 1) = D[(a + m) + k - 1]
            <7> DEFINE i == (a + m) + k - 1
            <7>1. i \in Nat /\ i < size BY <5>1, <2>3, <2>4, <1>0
            <7>2. i \in 0 .. size - 1 BY <7>1, <1>0
            <7> HIDE DEF i
            <7>3. i \div SFS_BLKSIZE \in DataPlaces BY <7>2 DEF Fits
            <7>4. i % SFS_BLKSIZE \in Offsets BY <7>1, Division
            <7>5. Cell(r1.disk, r1.din, i) = Cell(st.disk, st.din, i) BY <7>3, <7>4, <4>1 DEF Cell, SameCells
            <7>6. QED BY <7>1, <7>5, <2>b DEF i
          <6>2. QED BY <6>1 DEF Part, Row
        <5>3. SUFFICES ASSUME r3.ret = "ok" PROVE r3.got = Part(D, a, m + n) OBVIOUS
        <5>4. r3.got = Cat(Cat(st.got, G), H) BY <5>3, <4>5, <2>5, <3>2
        <5>5. Cat(<<>>, G) = G
          <6> HIDE DEF G
          <6>1. QED BY <2>d, ConcatEmptySeq DEF Cat
        <5>6. Cat(Part(D, a, m), Part(D, a + m, n)) = Part(D, a, m + n)
          <6> DEFINE q == Part(D, a + m, n)
          <6>1. q = Part(D, a + m, n) OBVIOUS
          <6> HIDE DEF q
          <6>2. Cat(Part(D, a, m), q) = Part(D, a, m + n) BY <6>1, <2>a, <5>1, Join
          <6>3. QED BY <6>2 DEF q
        <5>7. QED BY <5>2, <5>4, <5>5, <5>6, <2>c
      <4>9. QED BY <4>5, <4>6, <4>7, <4>8
    <3>3. QED BY <3>1, <3>2
  <2>8. r = r3 \/ Panicked(r3)
    <3> HIDE DEF r3, r
    <3>1. SUFFICES ASSUME ~Panicked(r3) PROVE r = r3 OBVIOUS
    <3>2. r3.alen <= m + n /\ r3.din.size = size /\ r3.alen \in Nat BY <2>7, <3>1 DEF Moved, States
    <3>3. ~(a + r3.alen > r3.din.size) BY <3>2, <2>3, <2>4, <1>0
    <3>4. QED BY <2>1, <3>3 DEF Grown
  <2>9. CASE r = r3
    <3> HIDE DEF r3, r
    <3>1. m + n = Reach(a, len, size) - a BY <2>2, <2>4
    <3>2. QED BY <2>7, <2>9, <3>1, <1>3 DEF r, D
  <2>10. CASE Panicked(r3)
    <3> HIDE DEF r3, r
    <3>1. /\ r \in States /\ r.ret = r3.ret
      <4>1. CASE ~(a + r3.alen > r3.din.size) BY <4>1, <2>1, <2>7 DEF Grown
      <4>2. CASE a + r3.alen > r3.din.size
        <5>1. r = [r3 EXCEPT !.din.size = a + r3.alen, !.dirty = TRUE] BY <4>2, <2>1 DEF Grown
        <5>2. a + r3.alen \in Nat /\ r3.din \in DiskInode BY <2>7 DEF States
        <5>3. [r3.din EXCEPT !.size = a + r3.alen] \in DiskInode BY <5>2 DEF DiskInode
        <5>4. QED BY <5>1, <5>2, <5>3, <2>7 DEF States
      <4>3. QED BY <4>1, <4>2
    <3>2. QED BY <3>1, <2>10 DEF Panicked, r
  <2>11. QED BY <2>8, <2>9, <2>10
<1>4. QED BY <1>1, <1>2, <1>3, <1>0

LEMMA FitsTo ==
  ASSUME NEW c \in Nat, NEW n \in Nat, (c % SFS_BLKSIZE) + n <= SFS_BLKSIZE,
         c \div SFS_BLKSIZE \in DataPlaces
  PROVE  Fits(c + n)
<1> DEFINE q == c \div SFS_BLKSIZE
<1>0. SFS_BLKSIZE \in Nat /\ SFS_BLKSIZE > 0 /\ c % SFS_BLKSIZE \in Nat /\ q \in Nat
  BY Constants, Division DEF Offsets
<1>1. ASSUME NEW i \in 0 .. c + n - 1 PROVE i \div SFS_BLKSIZE \in DataPlaces
  <2>0. i \in Nat /\ i \div SFS_BLKSIZE \in Nat BY Division
  <2>1. CASE i < c
    <3>1. i \div SFS_BLKSIZE <= q BY <1>0, <2>0, <2>1
    <3> HIDE DEF q
    <3>2. q \in DataPlaces BY DEF q
    <3>3. QED BY <1>0, <2>0, <3>1, <3>2, Constants DEF DataPlaces
  <2>2. CASE ~(i < c)
    <3> DEFINE t == i - c
    <3>1. t \in Nat /\ c + t = i /\ (c % SFS_BLKSIZE) + t < SFS_BLKSIZE BY <1>0, <2>0, <2>2
    <3> HIDE DEF t
    <3>2. i \div SFS_BLKSIZE = q BY <3>1, SameBlock
    <3>3. QED BY <3>2
  <2>3. QED BY <2>1, <2>2
<1>2. QED BY <1>1 DEF Fits

LEMMA GrownIs ==
  ASSUME NEW x \in States, NEW a \in Nat
  PROVE  LET r == Grown(x, a)
         IN  /\ r \in States /\ r.ret = x.ret /\ r.alen = x.alen /\ r.disk = x.disk /\ r.free = x.free
             /\ r.din.size = (IF a + x.alen > x.din.size THEN a + x.alen ELSE x.din.size)
             /\ r.din.direct = x.din.direct /\ r.din.indirect = x.din.indirect /\ r.din.blocks = x.din.blocks
             /\ r = x \/ r.dirty
             /\ \A O : Good(x, O) => Good(r, O)
             /\ \A k \in DataPlaces, j \in Offsets : CellAt(r.disk, r.din, k, j) = CellAt(x.disk, x.din, k, j)
<1> DEFINE r == Grown(x, a)
<1>1. CASE ~(a + x.alen > x.din.size)
  <2>1. r = x BY <1>1 DEF Grown
  <2> HIDE DEF r
  <2>2. QED BY <1>1, <2>1 DEF r
<1>2. CASE a + x.alen > x.din.size
  <2> DEFINE n == a + x.alen
             d == [x.din EXCEPT !.size = n]
  <2>1. r = [x EXCEPT !.din.size = n, !.dirty = TRUE] BY <1>2 DEF Grown
  <2>2. n \in Nat /\ x.din \in DiskInode BY DEF States
  <2> HIDE DEF r, n
  <2>3. /\ d \in DiskInode /\ d.size = n /\ d.direct = x.din.direct /\ d.indirect = x.din.indirect
        /\ d.blocks = x.din.blocks
    BY <2>2 DEF DiskInode
  <2>4. /\ r.free = x.free /\ r.disk = x.disk /\ r.din = d /\ r.dirty = TRUE /\ r.alen = x.alen
        /\ r.got = x.got /\ r.ret = x.ret /\ r.ino = x.ino
    BY <2>1 DEF States
  <2> HIDE DEF d
  <2>5. r \in States BY <2>1, <2>3, <2>4 DEF States
  <2>6. \A k \in Int : At(r.disk, r.din, k) = At(x.disk, x.din, k) BY <2>3, <2>4 DEF At
  <2>7. MapOf(r.disk, r.din) = MapOf(x.disk, x.din) BY <2>6 DEF MapOf, Places
  <2>8. ASSUME NEW O, Good(x, O) PROVE Good(r, O) BY <2>8, <2>3, <2>4, <2>5, <2>7 DEF Good, Core
  <2>9. \A k \in DataPlaces, j \in Offsets : CellAt(r.disk, r.din, k, j) = CellAt(x.disk, x.din, k, j)
    BY <2>4, <2>6 DEF CellAt, DataPlaces
  <2>10. QED BY <1>2, <2>3, <2>4, <2>5, <2>8, <2>9 DEF r, n
<1>3. QED BY <1>1, <1>2

LEMMA MovedTrans ==
  ASSUME NEW O, NEW x, NEW y, NEW z, Moved(x, y, O), Moved(y, z, O)
  PROVE  Moved(x, z, O)
BY DEF Moved, SameOn

\* The three pieces of a write that were not stopped by an assertion: n cells
\* from position a on are written.
Wrote(st, r, O, a, n, v) ==
  /\ Moved(st, r, O) /\ r.alen = n /\ Fits(a + n)
  /\ \A k \in DataPlaces, j \in Offsets :
       CellAt(r.disk, r.din, k, j) = IF Covers(a, n, k, j) THEN v ELSE CellAt(st.disk, st.din, k, j)

LEMMA WritePiecesAre ==
  ASSUME NEW O, NEW st, Good(st, O), st.ret = "ok", st.alen = 0, NEW v \in Marks,
         NEW a \in Nat, NEW e \in Nat, a < e, e - a <= SFS_BLKSIZE,
         e - a < SFS_BLKSIZE \/ a % SFS_BLKSIZE # 0
  PROVE  LET p == Pieces(a, e)
             r == WritePiece(v, WritePiece(v, WritePiece(v, st, p.head), p.whole), p.tail)
         IN  /\ r \in States /\ r.ret # "E_INVAL"
             /\ ~Panicked(r) => \E n \in 0 .. e - a : Wrote(st, r, O, a, n, v)
<1> DEFINE p == Pieces(a, e)
           m == p.head.n
           n == p.tail.n
           hd == p.head
           tl == p.tail
           b == a + m
           r1 == WritePiece(v, st, hd)
           r3 == WritePiece(v, WritePiece(v, r1, p.whole), tl)
<1>1. /\ p.whole.n = 0 /\ m \in Nat /\ n \in Nat /\ m + n = e - a
      /\ StartsAt(hd, a) /\ StartsAt(tl, b) /\ hd.n = m /\ tl.n = n /\ b \in Nat
  BY PiecesAre
<1> HIDE DEF p, m, n, hd, tl
<1>2. /\ r1 \in States /\ r1.ret # "E_INVAL"
      /\ (~Panicked(r1) => Moved(st, r1, O) /\ (m # 0 => hd.blk \in DataPlaces))
      /\ (r1.ret = "ok" =>
            /\ r1.alen = 0 + m
            /\ \A k \in DataPlaces, j \in Offsets :
                 CellAt(r1.disk, r1.din, k, j) = IF Covers(a, m, k, j) THEN v ELSE CellAt(st.disk, st.din, k, j))
      /\ (r1.ret = "E_NO_MEM" => r1.alen = 0 /\ SameCells(st.disk, st.din, r1.disk, r1.din))
  BY <1>1, WritePieceIs
<1>3. r3 = WritePiece(v, r1, tl)
  <2> HIDE DEF r1
  <2>1. QED BY <1>1, PieceEmpty
<1>4. CASE r1.ret # "ok"
  <2>1. r3 = r1 BY <1>3, <1>4, PieceStops
  <2>2. m # 0
    <3>1. m = 0 => r1 = st BY <1>1, PieceEmpty
    <3>2. QED BY <3>1, <1>4
  <2> HIDE DEF r1, r3
  <2>3. ASSUME ~Panicked(r1) PROVE Wrote(st, r1, O, a, 0, v)
    <3>1. r1.ret = "E_NO_MEM" BY <2>3, <1>2, <1>4 DEF Panicked, Errors
    <3>2. \A k \in DataPlaces, j \in Offsets : ~Covers(a, 0, k, j) BY DEF Covers
    <3>3. a \div SFS_BLKSIZE \in DataPlaces BY <1>1, <1>2, <2>2, <2>3 DEF StartsAt
    <3>4. (a % SFS_BLKSIZE) + 0 <= SFS_BLKSIZE BY Division, Constants DEF Offsets
    <3>5. Fits(a + 0) BY <3>3, <3>4, FitsTo
    <3>6. QED BY <1>2, <2>3, <3>1, <3>2, <3>5 DEF Wrote, SameCells
  <2>4. 0 \in 0 .. e - a OBVIOUS
  <2>5. r3 \in States /\ r3.ret # "E_INVAL" BY <1>2, <2>1
  <2>6. ~Panicked(r3) => \E c \in 0 .. e - a : Wrote(st, r3, O, a, c, v) BY <2>1, <2>3, <2>4
  <2>7. QED BY <2>5, <2>6 DEF r3, r1, hd, tl, p
<1>5. CASE r1.ret = "ok"
  <2>1. Moved(st, r1, O) /\ Good(r1, O)
    <3> HIDE DEF r1
    <3>1. QED BY <1>2, <1>5 DEF Panicked, Moved
  <2> HIDE DEF r1, r3, b
  <2>2. /\ r3 \in States /\ r3.ret # "E_INVAL"
        /\ (~Panicked(r3) => Moved(r1, r3, O) /\ (n # 0 => tl.blk \in DataPlaces))
        /\ (r3.ret = "ok" =>
              /\ r3.alen = r1.alen + n
              /\ \A k \in DataPlaces, j \in Offsets :
                   CellAt(r3.disk, r3.din, k, j) = IF Covers(b, n, k, j) THEN v ELSE CellAt(r1.disk, r1.din, k, j))
        /\ (r3.ret = "E_NO_MEM" => r3.alen = r1.alen /\ SameCells(r1.disk, r1.din, r3.disk, r3.din))
    BY <1>1, <1>3, <1>5, <2>1, WritePieceIs
  <2>3. ~Panicked(r3) => Moved(st, r3, O) BY <2>1, <2>2, MovedTrans
  <2>4. (m # 0 => hd.blk \in DataPlaces) /\ r1.alen = m BY <1>1, <1>2, <1>5 DEF Panicked
  <2>5. m # 0 => hd.blk = a \div SFS_BLKSIZE /\ (a % SFS_BLKSIZE) + m <= SFS_BLKSIZE BY <1>1 DEF StartsAt
  <2>6. n # 0 => tl.blk = b \div SFS_BLKSIZE /\ (b % SFS_BLKSIZE) + n <= SFS_BLKSIZE BY <1>1 DEF StartsAt
  <2>7. ASSUME r3.ret = "ok" PROVE Wrote(st, r3, O, a, m + n, v)
    <3>1. ~Panicked(r3) BY <2>7 DEF Panicked
    <3>2. Fits(a + (m + n))
      <4>1. CASE n = 0
        <5>1. m # 0 /\ m + n = m BY <1>1, <4>1
        <5>2. QED BY <5>1, <2>4, <2>5, <1>1, FitsTo
      <4>2. CASE n # 0
        <5>1. Fits(b + n) BY <4>2, <3>1, <2>2, <2>6, <1>1, FitsTo
        <5>2. b + n = a + (m + n) BY <1>1 DEF b
        <5>3. QED BY <5>1, <5>2
      <4>3. QED BY <4>1, <4>2
    <3>3. ASSUME NEW k \in DataPlaces, NEW j \in Offsets
          PROVE  CellAt(r3.disk, r3.din, k, j) =
                   IF Covers(a, m + n, k, j) THEN v ELSE CellAt(st.disk, st.din, k, j)
      <4>1. Covers(a, m + n, k, j) <=> (Covers(a, m, k, j) \/ Covers(b, n, k, j)) BY <1>1, CoversSum DEF b
      <4>2. CellAt(r3.disk, r3.din, k, j) = IF Covers(b, n, k, j) THEN v ELSE CellAt(r1.disk, r1.din, k, j)
        BY <2>2, <2>7
      <4>3. CellAt(r1.disk, r1.din, k, j) = IF Covers(a, m, k, j) THEN v ELSE CellAt(st.disk, st.din, k, j)
        BY <1>2, <1>5
      <4>4. QED BY <4>1, <4>2, <4>3
    <3>4. r3.alen = m + n BY <2>2, <2>4, <2>7
    <3>5. QED BY <2>3, <3>1, <3>2, <3>3, <3>4 DEF Wrote
  <2>8. ASSUME r3.ret = "E_NO_MEM" PROVE Wrote(st, r3, O, a, m, v)
    <3>1. ~Panicked(r3) BY <2>8 DEF Panicked, Errors
    <3>2. n # 0
      <4>1. n = 0 => r3 = r1 BY <1>1, <1>3, PieceEmpty
      <4>2. QED BY <4>1, <1>5, <2>8
    <3>3. Fits(a + m)
      <4>1. b \div SFS_BLKSIZE \in DataPlaces BY <2>2, <2>6, <3>1, <3>2
      <4>2. (b % SFS_BLKSIZE) + 0 <= SFS_BLKSIZE BY <1>1, Division, Constants DEF Offsets
      <4>3. Fits(b + 0) BY <1>1, <4>1, <4>2, FitsTo
      <4>4. b + 0 = a + m BY <1>1 DEF b
      <4>5. QED BY <4>3, <4>4
    <3>4. \A k \in DataPlaces, j \in Offsets :
            CellAt(r3.disk, r3.din, k, j) = IF Covers(a, m, k, j) THEN v ELSE CellAt(st.disk, st.din, k, j)
      BY <1>2, <1>5, <2>2, <2>8 DEF SameCells
    <3>5. QED BY <2>2, <2>3, <2>4, <2>8, <3>1, <3>3, <3>4 DEF Wrote
  <2>9. m + n \in 0 .. e - a /\ m \in 0 .. e - a BY <1>1
  <2>10. ~Panicked(r3) => r3.ret = "ok" \/ r3.ret = "E_NO_MEM" BY <2>2 DEF Panicked, Errors
  <2>11. ~Panicked(r3) => \E c \in 0 .. e - a : Wrote(st, r3, O, a, c, v) BY <2>7, <2>8, <2>9, <2>10
  <2>12. QED BY <2>2, <2>11 DEF r3, r1, hd, tl, p
<1>6. QED BY <1>4, <1>5

\* The outcome r of an operation on a file: it stays within its blocks.
Done(st, r, O) ==
  /\ Good(r, O) /\ SameOn(O, st.disk, r.disk)
  /\ r.din.size <= SFS_MAX_FILE_SIZE /\ Fits(r.din.size)
  /\ ~r.dirty => ~st.dirty /\ Agree(r.din, st.din)

\* Written n cells from position a on: what the file has become.
Stored(st, r, a, n, v) ==
  /\ r.din.size = IF a + n > st.din.size THEN a + n ELSE st.din.size
  /\ \A k \in DataPlaces, j \in Offsets :
       CellAt(r.disk, r.din, k, j) = IF Covers(a, n, k, j) THEN v ELSE CellAt(st.disk, st.din, k, j)

\* The same file as before, with possibly more blocks.
Unchanged(st, r) == r.din.size = st.din.size /\ SameCells(st.disk, st.din, r.disk, r.din)

LEMMA WriteIs ==
  ASSUME NEW O, NEW st, Good(st, O), st.ret = "ok", st.alen = 0,
         st.din.size <= SFS_MAX_FILE_SIZE, Fits(st.din.size), NEW v \in Marks,
         NEW a \in Nat, NEW len \in Nat \ {0}, len <= SFS_BLKSIZE,
         len < SFS_BLKSIZE \/ a % SFS_BLKSIZE # 0
  PROVE  LET r == sfs_write(st, a, len, v)
         IN  /\ r \in States
             /\ ~Panicked(r) =>
                  /\ Done(st, r, O)
                  /\ \/ Unchanged(st, r)
                     \/ a <= SFS_MAX_FILE_SIZE /\ \E n \in 0 .. len : Stored(st, r, a, n, v)
<1> DEFINE size == st.din.size
           e == Min({a + len, SFS_MAX_FILE_SIZE})
           p == Pieces(a, e)
           x == WritePiece(v, WritePiece(v, WritePiece(v, st, p.head), p.whole), p.tail)
           r == sfs_write(st, a, len, v)
<1>0. st \in States /\ size \in Nat /\ SFS_MAX_FILE_SIZE \in Nat BY Constants DEF Good, States, DiskInode
<1>1. CASE a >= SFS_MAX_FILE_SIZE
  <2>1. r = [st EXCEPT !.ret = "E_INVAL"] BY <1>0, <1>1 DEF sfs_write
  <2>2. "E_INVAL" \in Rets BY DEF Rets
  <2> HIDE DEF r
  <2>3. /\ r \in States /\ r.free = st.free /\ r.disk = st.disk /\ r.din = st.din
        /\ r.dirty = st.dirty /\ r.alen = st.alen /\ r.got = st.got /\ r.ret = "E_INVAL"
    BY <2>1, <2>2, <1>0, SetRet
  <2>4. Kept(st, r, O) BY <2>3, KeptSame
  <2>5. Done(st, r, O) /\ Unchanged(st, r) BY <2>3, <2>4 DEF Kept, Done, Agree, Unchanged
  <2>6. QED BY <2>3, <2>5 DEF r
<1>2. CASE a < SFS_MAX_FILE_SIZE
  <2>1. r = Grown(x, a) BY <1>0, <1>2 DEF sfs_write, AllPieces
  <2>2. e \in Nat /\ e <= a + len /\ e <= SFS_MAX_FILE_SIZE /\ a < e
    <3> DEFINE T == {a + len, SFS_MAX_FILE_SIZE}
    <3>1. T \in SUBSET Nat /\ T # {} BY <1>0
    <3>2. e \in T /\ \A y \in T : e <= y
      <4> HIDE DEF T
      <4>1. QED BY <3>1, MinIs DEF T
    <3> HIDE DEF e
    <3>3. QED BY <1>0, <1>2, <3>2
  <2> HIDE DEF e
  <2>3. e - a <= SFS_BLKSIZE /\ (e - a < SFS_BLKSIZE \/ a % SFS_BLKSIZE # 0)
    BY <2>2, Constants
  <2>4. /\ x \in States /\ (~Panicked(x) => \E n \in 0 .. e - a : Wrote(st, x, O, a, n, v))
    BY <2>2, <2>3, WritePiecesAre
  <2> HIDE DEF x
  <2>5. /\ r \in States /\ r.ret = x.ret /\ r.disk = x.disk
        /\ r.din.size = (IF a + x.alen > x.din.size THEN a + x.alen ELSE x.din.size)
        /\ r.din.direct = x.din.direct /\ r.din.indirect = x.din.indirect
        /\ (r = x \/ r.dirty) /\ (Good(x, O) => Good(r, O))
        /\ \A k \in DataPlaces, j \in Offsets : CellAt(r.disk, r.din, k, j) = CellAt(x.disk, x.din, k, j)
    BY <2>1, <2>4, GrownIs
  <2> HIDE DEF r
  <2>6. ASSUME ~Panicked(r)
        PROVE  Done(st, r, O) /\ \E n \in 0 .. len : Stored(st, r, a, n, v)
    <3>1. ~Panicked(x) BY <2>5, <2>6 DEF Panicked
    <3>2. PICK n \in 0 .. e - a : Wrote(st, x, O, a, n, v) BY <2>4, <3>1
    <3>3. Moved(st, x, O) /\ x.alen = n /\ Fits(a + n) BY <3>2 DEF Wrote
    <3>4. x.din.size = size /\ Good(x, O) /\ SameOn(O, st.disk, x.disk) BY <3>3 DEF Moved
    <3>5. n \in 0 .. len /\ a + n <= SFS_MAX_FILE_SIZE BY <2>2, <1>0
    <3>6. r.din.size = IF a + n > size THEN a + n ELSE size BY <2>5, <3>3, <3>4
    <3>7. r.din.size <= SFS_MAX_FILE_SIZE /\ Fits(r.din.size) BY <3>3, <3>5, <3>6
    <3>8. ~r.dirty => ~st.dirty /\ Agree(r.din, st.din)
      <4>1. SUFFICES ASSUME ~r.dirty PROVE ~st.dirty /\ Agree(r.din, st.din) OBVIOUS
      <4>2. r = x BY <4>1, <2>5
      <4>3. QED BY <4>1, <4>2, <3>3, <3>4 DEF Moved, Agree
    <3>9. Done(st, r, O) BY <2>5, <3>4, <3>7, <3>8 DEF Done
    <3>10. Stored(st, r, a, n, v) BY <2>5, <3>2, <3>6 DEF Stored, Wrote
    <3>11. QED BY <3>5, <3>9, <3>10
  <2>7. QED BY <1>0, <1>2, <2>5, <2>6 DEF r
<1>3. QED BY <1>0, <1>1, <1>2

\* A read leaves the file as it is.
LEMMA ReadDone ==
  ASSUME NEW O, NEW st, NEW r, Moved(st, r, O), SameCells(st.disk, st.din, r.disk, r.din),
         st.din.size <= SFS_MAX_FILE_SIZE, Fits(st.din.size)
  PROVE  Done(st, r, O) /\ Unchanged(st, r)
BY DEF Moved, Done, Unchanged, Agree

LEMMA SeekIs ==
  ASSUME NEW O, NEW st, Good(st, O), st.ret = "ok",
         st.din.size <= SFS_MAX_FILE_SIZE, Fits(st.din.size), NEW pos \in 0 .. SFS_MAX_FILE_SIZE - 1
  PROVE  LET r == sfs_tryseek(st, pos)
         IN  /\ r \in States
             /\ ~Panicked(r) =>
                  /\ Done(st, r, O)
                  /\ \/ Unchanged(st, r)
                     \/ /\ r.din.size = pos /\ pos > st.din.size
                        /\ \A k \in DataPlaces, j \in Offsets :
                             CellAt(r.disk, r.din, k, j) =
                               IF k >= Ceil(pos) /\ k < st.din.blocks THEN 0
                               ELSE CellAt(st.disk, st.din, k, j)
<1> DEFINE r == sfs_tryseek(st, pos)
           t == sfs_truncfile(st, pos)
<1>0. st \in States /\ pos \in Nat /\ pos <= SFS_MAX_FILE_SIZE BY Constants DEF Good
<1>1. CASE ~(pos > st.din.size)
  <2>1. r = st BY <1>1 DEF sfs_tryseek
  <2> HIDE DEF r
  <2>2. QED BY <1>0, <2>1 DEF Done, Unchanged, SameOn, SameCells, Agree, r
<1>2. CASE pos > st.din.size
  <2>1. r = t BY <1>2 DEF sfs_tryseek
  <2>2. /\ t \in States
        /\ ~Panicked(t) =>
             /\ Good(t, O) /\ SameOn(O, st.disk, t.disk)
             /\ ~t.dirty => ~st.dirty /\ Agree(t.din, st.din)
             /\ t.ret # "ok" => t.din.size = st.din.size /\ SameCells(st.disk, st.din, t.disk, t.din)
             /\ t.ret = "ok" =>
                  /\ t.din.size = pos /\ Fits(pos)
                  /\ \A k \in DataPlaces, j \in Offsets :
                       CellAt(t.disk, t.din, k, j) =
                         IF k >= Ceil(pos) /\ k < st.din.blocks THEN 0
                         ELSE CellAt(st.disk, st.din, k, j)
    BY <1>0, TruncfileIs
  <2> HIDE DEF r, t
  <2>3. CASE t.ret = "ok" BY <1>0, <1>2, <2>1, <2>2, <2>3 DEF Done, r
  <2>4. CASE t.ret # "ok" BY <1>0, <2>1, <2>2, <2>4 DEF Done, Unchanged, r
  <2>5. QED BY <2>3, <2>4
<1>3. QED BY <1>1, <1>2

LEMMA EmptyIs ==
  ASSUME NEW O, NEW st, Good(st, O), st.ret = "ok",
         st.din.size <= SFS_MAX_FILE_SIZE, Fits(st.din.size)
  PROVE  LET r == sfs_truncfile(st, 0)
         IN  /\ r \in States
             /\ ~Panicked(r) =>
                  /\ Done(st, r, O)
                  /\ \/ Unchanged(st, r)
                     \/ /\ r.din.size = 0
                        /\ \A k \in DataPlaces, j \in Offsets :
                             CellAt(r.disk, r.din, k, j) =
                               IF k < st.din.blocks THEN 0 ELSE CellAt(st.disk, st.din, k, j)
<1> DEFINE t == sfs_truncfile(st, 0)
<1>1. /\ t \in States
      /\ ~Panicked(t) =>
           /\ Good(t, O) /\ SameOn(O, st.disk, t.disk)
           /\ ~t.dirty => ~st.dirty /\ Agree(t.din, st.din)
           /\ t.ret # "ok" => t.din.size = st.din.size /\ SameCells(st.disk, st.din, t.disk, t.din)
           /\ t.ret = "ok" =>
                /\ t.din.size = 0 /\ Fits(0)
                /\ \A k \in DataPlaces, j \in Offsets :
                     CellAt(t.disk, t.din, k, j) =
                       IF k >= Ceil(0) /\ k < st.din.blocks THEN 0 ELSE CellAt(st.disk, st.din, k, j)
  BY TruncfileIs
<1>2. \A k \in DataPlaces : k >= Ceil(0)
  <2>1. Ceil(0) = 0 BY CeilIs
  <2>2. \A k \in DataPlaces : k \in Nat BY Constants
  <2>3. QED BY <2>1, <2>2
<1> HIDE DEF t
<1>3. ASSUME ~Panicked(t), t.ret = "ok" PROVE Done(st, t, O) /\ t.din.size = 0
  BY <1>1, <1>3, Constants DEF Done
<1>4. ASSUME ~Panicked(t), t.ret = "ok", NEW k \in DataPlaces, NEW j \in Offsets
      PROVE  CellAt(t.disk, t.din, k, j) = IF k < st.din.blocks THEN 0 ELSE CellAt(st.disk, st.din, k, j)
  BY <1>1, <1>2, <1>4
<1>5. ASSUME ~Panicked(t), t.ret # "ok" PROVE Done(st, t, O) /\ Unchanged(st, t)
  BY <1>1, <1>5 DEF Done, Unchanged
<1>6. ~Panicked(t) =>
        /\ Done(st, t, O)
        /\ \/ Unchanged(st, t)
           \/ /\ t.din.size = 0
              /\ \A k \in DataPlaces, j \in Offsets :
                   CellAt(t.disk, t.din, k, j) = IF k < st.din.blocks THEN 0 ELSE CellAt(st.disk, st.din, k, j)
  <2>1. CASE t.ret = "ok" BY <2>1, <1>3, <1>4
  <2>2. CASE t.ret # "ok" BY <2>2, <1>5
  <2>3. QED BY <2>1, <2>2
<1>7. QED BY <1>1, <1>6 DEF t

-----------------------------------------------------------------------------
(* All the files together.                                                 *)

\* The blocks of the file with inode d.
Owned(dk, d) == {At(dk, d, k) : k \in Places} \ {0}

\* The blocks that file f must leave alone, I being the inodes of the files.
Foreign(oth, dk, I, f) == Reserved \cup oth \cup UNION {Owned(dk, I[g]) : g \in Files \ {f}}

\* File f is changed within its own blocks and free ones: the others have not
\* noticed.
LEMMA Ownership ==
  ASSUME NEW I \in [Files -> DiskInode], NEW free, NEW dk, NEW oth,
         \A g \in Files : Core(free, dk, I[g], Foreign(oth, dk, I, g)),
         NEW f \in Files, NEW free2, NEW dk2, NEW d2,
         Core(free2, dk2, d2, Foreign(oth, dk, I, f)), SameOn(Foreign(oth, dk, I, f), dk, dk2)
  PROVE  LET J == [I EXCEPT ![f] = d2]
         IN  /\ J \in [Files -> DiskInode]
             /\ \A g \in Files : Core(free2, dk2, J[g], Foreign(oth, dk2, J, g))
             /\ \A g \in Files \ {f} : SameCells(dk, I[g], dk2, I[g])
<1> DEFINE J == [I EXCEPT ![f] = d2]
           F(g) == Foreign(oth, dk, I, g)
<1>1. d2 \in DiskInode BY DEF Core
<1>2. J \in [Files -> DiskInode] /\ J[f] = d2 /\ \A g \in Files \ {f} : J[g] = I[g] BY <1>1
<1> HIDE DEF J
<1>3. ASSUME NEW g \in Files \ {f}, NEW k \in Places
      PROVE  At(dk, I[g], k) # 0 => At(dk, I[g], k) \in F(f) /\ At(dk, I[g], k) \in Blocks
  <2>1. At(dk, I[g], k) # 0 => At(dk, I[g], k) \in Owned(dk, I[g]) BY DEF Owned
  <2>2. At(dk, I[g], k) \in Blocks BY AtType
  <2>3. QED BY <2>1, <2>2 DEF Foreign
<1>4. ASSUME NEW g \in Files \ {f}, NEW k \in Places
      PROVE  At(dk, I[g], k) # 0 => dk2[At(dk, I[g], k)] = dk[At(dk, I[g], k)]
  BY <1>3 DEF SameOn
<1>5. ASSUME NEW g \in Files \ {f}, NEW k \in Places PROVE At(dk2, I[g], k) = At(dk, I[g], k)
  <2>1. I[g].indirect = At(dk, I[g], -1) /\ -1 \in Places BY AtType
  <2>2. I[g].indirect # 0 => dk2[I[g].indirect] = dk[I[g].indirect] BY <2>1, <1>4
  <2>3. QED BY <2>2 DEF At
<1>6. ASSUME NEW g \in Files \ {f} PROVE SameCells(dk, I[g], dk2, I[g])
  <2>1. \A k \in DataPlaces : k \in Places BY Constants
  <2>2. QED BY <2>1, <1>4, <1>5 DEF SameCells, CellAt
<1>7. ASSUME NEW g \in Files \ {f} PROVE Owned(dk2, J[g]) = Owned(dk, I[g]) BY <1>2, <1>5 DEF Owned
<1>8. Foreign(oth, dk2, J, f) = F(f) BY <1>7 DEF Foreign
<1>9. Core(free2, dk2, J[f], Foreign(oth, dk2, J, f)) BY <1>2, <1>8
<1>10. ASSUME NEW g \in Files \ {f} PROVE Core(free2, dk2, J[g], Foreign(oth, dk2, J, g))
  <2> DEFINE A == MapOf(dk, I[g])
             O == Foreign(oth, dk2, J, g)
             C == MapOf(dk2, d2)
  <2>0. Sound(free, A, F(g)) /\ Sound(free2, C, F(f)) /\ dk2 \in Disks /\ I[g] \in DiskInode /\ I[g].blocks <= MaxBlocks
    BY DEF Core
  <2>1. MapOf(dk2, J[g]) = A BY <1>2, <1>5 DEF MapOf
  <2>a. \A k \in Places : A[k] = At(dk, I[g], k) /\ C[k] = At(dk2, d2, k) BY DEF MapOf
  <2>2. \A c : c \in O <=> (c \in Reserved \cup oth \/ c \in Owned(dk2, d2)
                            \/ \E h \in Files \ {f, g} : c \in Owned(dk, I[h]))
    <3>1. \A c : c \in O <=> (c \in Reserved \cup oth \/ \E h \in Files \ {g} : c \in Owned(dk2, J[h])) BY DEF Foreign
    <3>2. Owned(dk2, J[f]) = Owned(dk2, d2) /\ f \in Files \ {g} BY <1>2
    <3>3. \A h \in Files \ {f, g} : Owned(dk2, J[h]) = Owned(dk, I[h]) BY <1>7
    <3> HIDE DEF O
    <3>4. QED BY <3>1, <3>2, <3>3
  <2>3. \A c : c \in F(g) <=> (c \in Reserved \cup oth \/ c \in Owned(dk, I[f])
                               \/ \E h \in Files \ {f, g} : c \in Owned(dk, I[h]))
    BY DEF Foreign
  <2>4. \A c : c \in F(f) <=> (c \in Reserved \cup oth \/ c \in Owned(dk, I[g])
                               \/ \E h \in Files \ {f, g} : c \in Owned(dk, I[h]))
    BY DEF Foreign
  <2>5. \A c : c \in Owned(dk, I[g]) <=> (c # 0 /\ \E k \in Places : A[k] = c) BY <2>a DEF Owned
  <2>6. \A c : c \in Owned(dk2, d2) <=> (c # 0 /\ \E k \in Places : C[k] = c) BY <2>a DEF Owned
  <2>7. 0 \in Reserved BY Constants
  <2> HIDE DEF A, C, O, F
  <2>8. /\ free2 \subseteq Blocks /\ A \in [Places -> Blocks] /\ 0 \in O
        /\ \A j, k \in Places : A[j] = A[k] /\ A[j] # 0 => j = k
    BY <2>0, <2>2, <2>7 DEF Sound
  <2>9. ASSUME NEW k \in Places, A[k] # 0 PROVE A[k] \notin free2 /\ A[k] \notin O
    <3>1. A[k] \in Owned(dk, I[g]) BY <2>5, <2>9
    <3>2. A[k] \in F(f) BY <2>4, <3>1
    <3>3. A[k] \notin free2 BY <3>2, <2>0 DEF Sound
    <3>4. A[k] \notin Owned(dk2, d2) BY <3>2, <2>6, <2>0 DEF Sound
    <3>5. A[k] \notin F(g) BY <2>9, <2>0 DEF Sound
    <3>6. QED BY <3>3, <3>4, <3>5, <2>2, <2>3
  <2>10. free2 \cap O = {}
    <3>1. ASSUME NEW c \in free2 PROVE c \notin O
      <4>1. c \notin F(f) BY <2>0 DEF Sound
      <4>2. c \notin Owned(dk2, d2) BY <2>6, <2>0 DEF Sound
      <4>3. QED BY <4>1, <4>2, <2>2, <2>4
    <3>2. QED BY <3>1
  <2>11. ASSUME NEW c \in Blocks PROVE c \in free2 \/ c \in O \/ \E k \in Places : A[k] = c
    <3>1. c \in free2 \/ c \in F(f) \/ \E k \in Places : C[k] = c BY <2>0 DEF Sound
    <3>2. CASE c = 0 BY <3>2, <2>8
    <3>3. CASE c # 0 BY <3>1, <3>3, <2>2, <2>4, <2>5, <2>6
    <3>4. QED BY <3>2, <3>3
  <2>12. Sound(free2, A, O) BY <2>8, <2>9, <2>10, <2>11 DEF Sound
  <2>13. QED BY <1>2, <2>0, <2>1, <2>12 DEF Core, O
<1>11. QED BY <1>2, <1>6, <1>9, <1>10 DEF J

\* An inode that differs in the number of its blocks at most has the same map.
LEMMA AgreeIs ==
  ASSUME NEW dk, NEW d, NEW e, Agree(d, e)
  PROVE  /\ \A k \in Int : At(dk, d, k) = At(dk, e, k)
         /\ MapOf(dk, d) = MapOf(dk, e) /\ Owned(dk, d) = Owned(dk, e)
         /\ SameCells(dk, e, dk, d)
<1>1. \A k \in Int : At(dk, d, k) = At(dk, e, k) BY DEF At, Agree
<1>2. \A k \in Places : At(dk, d, k) = At(dk, e, k) BY <1>1, Constants
<1>3. \A k \in DataPlaces : At(dk, d, k) = At(dk, e, k) BY <1>2, Constants
<1>4. MapOf(dk, d) = MapOf(dk, e) BY <1>2 DEF MapOf
<1>5. Owned(dk, d) = Owned(dk, e) BY <1>2 DEF Owned
<1>6. SameCells(dk, e, dk, d) BY <1>3 DEF SameCells, CellAt
<1>7. QED BY <1>1, <1>4, <1>5, <1>6

LEMMA Relabel ==
  ASSUME NEW I \in [Files -> DiskInode], NEW J \in [Files -> DiskInode], NEW free, NEW dk, NEW oth,
         \A g \in Files : Core(free, dk, I[g], Foreign(oth, dk, I, g)),
         \A g \in Files : Agree(J[g], I[g]) /\ J[g].blocks <= MaxBlocks
  PROVE  \A g \in Files : Core(free, dk, J[g], Foreign(oth, dk, J, g))
<1>1. \A g \in Files : Owned(dk, J[g]) = Owned(dk, I[g]) /\ MapOf(dk, J[g]) = MapOf(dk, I[g]) BY AgreeIs
<1>2. ASSUME NEW g \in Files PROVE Foreign(oth, dk, J, g) = Foreign(oth, dk, I, g) BY <1>1 DEF Foreign
<1>3. QED BY <1>1, <1>2 DEF Core

-----------------------------------------------------------------------------
(* The inductive invariant.                                                *)

Inodes == [f \in Files |-> Din(f)]

\* The handles that have f open.
Openers(f) == {h \in Handles : file[h] # None /\ file[h].node = f}

Types ==
  /\ others \subseteq Blocks /\ dinode \in [Files -> DiskInode]
  /\ sin \in [Files -> MemInode \cup {None}] /\ file \in [Handles -> OpenFile \cup {None}]

\* The blocks of the files, the free blocks and the remaining ones make up the
\* disk without overlap.
Maps == \A f \in Files : Core(freemap, disk, Inodes[f], Foreign(others, disk, Inodes, f))

Sizes == \A f \in Files : Inodes[f].size <= SFS_MAX_FILE_SIZE /\ Fits(Inodes[f].size)

\* An inode in memory that is not dirty is on the disk but for its number of
\* blocks, and one that nobody has open is not dirty.
Saved ==
  \A f \in Files :
    /\ dinode[f].blocks <= MaxBlocks
    /\ sin[f] # None => /\ ~sin[f].dirty => Agree(dinode[f], sin[f].din)
                        /\ sin[f].open = 0 => ~sin[f].dirty

Counts ==
  \A f \in Files : IF sin[f] = None THEN Openers(f) = {}
                   ELSE sin[f].open = Cardinality(Openers(f)) /\ sin[f].ref >= sin[f].open

SInv == Types /\ Maps /\ Sizes /\ Saved /\ Counts

LEMMA Kinds == /\ \A s \in MemInode : s # None
               /\ \A o \in OpenFile : o # None
BY SfsAssumption

LEMMA InodesType == Types => /\ Inodes \in [Files -> DiskInode]
                             /\ \A f \in Files : Inodes[f] = Din(f)
<1>1. ASSUME Types, NEW f \in Files PROVE Din(f) \in DiskInode BY <1>1 DEF Types, Din, MemInode
<1>2. QED BY <1>1 DEF Inodes

\* An open file is in memory.
LEMMA OpenIsLoaded ==
  ASSUME Types, Counts, NEW h \in Handles, file[h] # None
  PROVE  /\ file[h] \in OpenFile /\ file[h].node \in Files /\ file[h].pos \in Nat
         /\ sin[file[h].node] # None /\ sin[file[h].node] \in MemInode
         /\ sin[file[h].node].open > 0 /\ sin[file[h].node].ref > 0
<1> DEFINE f == file[h].node
<1>1. file[h] \in OpenFile BY DEF Types
<1>2. f \in Files /\ file[h].pos \in Nat BY <1>1 DEF OpenFile
<1>3. h \in Openers(f) BY DEF Openers
<1>4. sin[f] # None BY <1>2, <1>3 DEF Counts
<1>5. sin[f] \in MemInode BY <1>2, <1>4 DEF Types
<1>6. Cardinality(Openers(f)) > 0
  <2>1. IsFiniteSet(Openers(f))
    <3>1. Openers(f) \subseteq Handles BY DEF Openers
    <3>2. QED BY <3>1, SfsAssumption, FS_Subset
  <2>2. Cardinality(Openers(f)) \in Nat /\ Cardinality(Openers(f)) # 0 BY <1>3, <2>1, FS_CardinalityType, FS_EmptySet
  <2>3. QED BY <2>2
<1>7. sin[f].open \in Nat /\ sin[f].ref \in Nat BY <1>5 DEF MemInode
<1>8. QED BY <1>1, <1>2, <1>4, <1>5, <1>6, <1>7 DEF Counts

\* An operation on file f starts from a sound state.
LEMMA Begin ==
  ASSUME Types, Maps, Sizes, NEW f \in Files, NEW s \in MemInode, s.din = Din(f)
  PROVE  /\ Good(Start(s), Foreign(others, disk, Inodes, f))
         /\ Start(s).ret = "ok" /\ Start(s).alen = 0 /\ Start(s).got = <<>> /\ Start(s).disk = disk
         /\ Start(s).din = Inodes[f] /\ Start(s).dirty = s.dirty
         /\ Start(s).din.size <= SFS_MAX_FILE_SIZE /\ Fits(Start(s).din.size)
<1> DEFINE O == Foreign(others, disk, Inodes, f)
           st == Start(s)
<1>1. Inodes[f] = Din(f) /\ Inodes[f] \in DiskInode BY InodesType
<1>2. Core(freemap, disk, s.din, O) BY <1>1 DEF Maps
<1>3. disk \in Disks /\ freemap \in SUBSET Blocks BY <1>2, AtType DEF Core
<1>4. /\ st.free = freemap /\ st.disk = disk /\ st.din = s.din /\ st.dirty = s.dirty /\ st.ino = 0
      /\ st.alen = 0 /\ st.got = <<>> /\ st.ret = "ok"
  BY DEF Start
<1>5. st \in States
  <2>1. s.din \in DiskInode /\ s.dirty \in BOOLEAN BY DEF MemInode
  <2>2. 0 \in Blocks BY Constants
  <2>3. <<>> \in Seq(Cells) OBVIOUS
  <2>4. "ok" \in Rets BY DEF Rets
  <2>5. QED BY <1>3, <2>1, <2>2, <2>3, <2>4 DEF States, Start
<1> HIDE DEF st, O
<1>6. Good(st, O) BY <1>2, <1>4, <1>5 DEF Good
<1>7. QED BY <1>1, <1>4, <1>6 DEF Sizes, st, O

\* sfs_load_inode
LEMMA LoadedIs ==
  ASSUME Types, Saved, NEW f \in Files
  PROVE  /\ Loaded(f) \in MemInode /\ Loaded(f).din = Din(f)
         /\ ~Loaded(f).dirty => Agree(dinode[f], Loaded(f).din)
         /\ Loaded(f).open = (IF sin[f] = None THEN 0 ELSE sin[f].open)
         /\ Loaded(f).ref = (IF sin[f] = None THEN 1 ELSE sin[f].ref + 1)
         /\ Loaded(f).open = 0 => ~Loaded(f).dirty
<1> DEFINE s == Loaded(f)
<1>1. CASE sin[f] = None
  <2>1. s = [din |-> dinode[f], dirty |-> FALSE, ref |-> 1, open |-> 0] BY <1>1 DEF Loaded
  <2>2. dinode[f] \in DiskInode BY DEF Types
  <2> HIDE DEF s
  <2>3. s \in MemInode /\ s.din = dinode[f] /\ ~s.dirty /\ s.ref = 1 /\ s.open = 0 BY <2>1, <2>2 DEF MemInode
  <2>4. QED BY <1>1, <2>1, <2>3 DEF Din, Agree, s
<1>2. CASE sin[f] # None
  <2>1. s = [sin[f] EXCEPT !.ref = @ + 1] BY <1>2 DEF Loaded
  <2>2. sin[f] \in MemInode BY <1>2 DEF Types
  <2> HIDE DEF s
  <2>3. s \in MemInode /\ s.din = sin[f].din /\ s.dirty = sin[f].dirty /\ s.ref = sin[f].ref + 1 /\ s.open = sin[f].open
    BY <2>1, <2>2 DEF MemInode
  <2>4. QED BY <1>2, <2>3 DEF Din, Saved, s
<1>3. QED BY <1>1, <1>2

LEMMA InitIs == Init => SInv
<1> SUFFICES ASSUME Init PROVE SInv OBVIOUS
<1>1. Types
  <2>1. others \subseteq Blocks
    <3> DEFINE R == Blocks \ Reserved
    <3>1. PICK n \in 0 .. Cardinality(R) : others = NBlocks - n .. NBlocks - 1 BY DEF Init
    <3>2. NBlocks \in Nat BY Constants
    <3>3. IsFiniteSet(Blocks) /\ Cardinality(Blocks) = NBlocks BY <3>2, FS_Interval DEF Blocks
    <3>4. Cardinality(R) \in Nat /\ Cardinality(R) <= Cardinality(Blocks)
      <4>1. R \subseteq Blocks OBVIOUS
      <4> HIDE DEF R
      <4>2. QED BY <3>3, <4>1, FS_Subset, FS_CardinalityType
    <3> HIDE DEF R
    <3>5. QED BY <3>1, <3>2, <3>3, <3>4 DEF Blocks
  <2>2. EmptyInode \in DiskInode BY Constants DEF EmptyInode, DiskInode
  <2>3. QED BY <2>1, <2>2 DEF Types, Init
<1>2. \A f \in Files : Inodes[f] = EmptyInode BY DEF Inodes, Din, Init
<1>3. EmptyInode \in DiskInode /\ EmptyInode.size = 0 /\ EmptyInode.blocks = 0 /\ EmptyInode.indirect = 0
  BY Constants DEF EmptyInode, DiskInode
<1>4. \A k \in Places : At(disk, EmptyInode, k) = 0
  <2>1. \A k \in Places : k \in Int /\ k >= -1 BY Constants DEF Places
  <2>2. \A k \in 0 .. SFS_NDIRECT - 1 : EmptyInode.direct[k] = 0 BY DEF EmptyInode
  <2>3. ASSUME NEW k \in Places PROVE At(disk, EmptyInode, k) = 0
    <3>1. k = -1 \/ k \in 0 .. SFS_NDIRECT - 1 \/ (k # -1 /\ ~(k < SFS_NDIRECT)) BY <2>1, Constants
    <3>2. SFS_NDIRECT \in Nat /\ SFS_NDIRECT > 0 BY Constants
    <3>3. CASE k = -1 BY <1>3, <3>3 DEF At
    <3>4. CASE k \in 0 .. SFS_NDIRECT - 1 BY <2>2, <3>2, <3>4 DEF At
    <3>5. CASE k # -1 /\ ~(k < SFS_NDIRECT) BY <1>3, <3>5 DEF At
    <3>6. QED BY <3>1, <3>3, <3>4, <3>5
  <2>4. QED BY <2>3
<1>5. Owned(disk, EmptyInode) = {} BY <1>4 DEF Owned
<1>6. \A f \in Files : Foreign(others, disk, Inodes, f) = Reserved \cup others BY <1>2, <1>5 DEF Foreign
<1>7. disk \in Disks BY Constants DEF Init, Disks, ZeroBlock, Offsets
<1>8. Sound(freemap, MapOf(disk, EmptyInode), Reserved \cup others)
  <2>1. \A k \in Places : MapOf(disk, EmptyInode)[k] = 0 BY <1>4 DEF MapOf
  <2>2. MapOf(disk, EmptyInode) \in [Places -> Blocks] BY <1>4, Constants DEF MapOf
  <2>3. freemap = Blocks \ (Reserved \cup others) BY DEF Init
  <2>4. QED BY <2>1, <2>2, <2>3, Constants DEF Sound
<1>9. Maps BY <1>2, <1>3, <1>6, <1>7, <1>8, Constants DEF Maps, Core
<1>10. Sizes BY <1>2, <1>3, Constants DEF Sizes, Fits
<1>11. Saved
  <2>1. \A f \in Files : dinode[f] = EmptyInode /\ sin[f] = None BY DEF Init
  <2>2. EmptyInode.blocks <= MaxBlocks BY <1>3, Constants
  <2>3. QED BY <2>1, <2>2 DEF Saved
<1>12. Counts BY DEF Counts, Openers, Init
<1>13. QED BY <1>1, <1>9, <1>10, <1>11, <1>12 DEF SInv

-----------------------------------------------------------------------------
(* What a step is: it leaves the files as they are, or it changes one.     *)

Quiet ==
  /\ UNCHANGED <<freemap, others, disk>>
  /\ \A g \in Files : Agree(Inodes'[g], Inodes[g]) /\ Inodes'[g].blocks <= MaxBlocks

\* The file of x has been lengthened.
Longer(x, r) ==
  /\ r.din.size > x.din.size
  /\ \A k \in DataPlaces, j \in Offsets :
       CellAt(r.disk, r.din, k, j) =
         IF k >= Ceil(r.din.size) /\ k < x.din.blocks THEN 0 ELSE CellAt(x.disk, x.din, k, j)

\* It has been emptied.
Emptied(x, r) ==
  /\ r.din.size = 0
  /\ \A k \in DataPlaces, j \in Offsets :
       CellAt(r.disk, r.din, k, j) = IF k < x.din.blocks THEN 0 ELSE CellAt(x.disk, x.din, k, j)

Effect(x, r) ==
  \/ Unchanged(x, r)
  \/ \E a \in 0 .. SFS_MAX_FILE_SIZE, n \in 0 .. SFS_BLKSIZE, v \in Marks : Stored(x, r, a, n, v)
  \/ Longer(x, r)
  \/ Emptied(x, r)

\* s is the inode in memory with which an operation on f begins.
Begun(f, s) ==
  /\ s \in MemInode /\ s.din = Din(f) /\ s.open > 0
  /\ ~s.dirty => Agree(dinode[f], s.din)

Changes(f, s, st) ==
  /\ Commit(f, s, st) /\ Begun(f, s) /\ st \in States
  /\ Done(Start(s), st, Foreign(others, disk, Inodes, f)) /\ Effect(Start(s), st)

LEMMA QuietKeeps ==
  ASSUME SInv, Quiet, Types'
  PROVE  Maps' /\ Sizes'
<1> DEFINE I == Inodes
           J == Inodes'
<1>1. I \in [Files -> DiskInode] BY InodesType DEF SInv
<1>2. J \in [Files -> DiskInode] BY DEF Types, Inodes, Din, MemInode
<1>3. freemap' = freemap /\ others' = others /\ disk' = disk BY DEF Quiet
<1>4. \A g \in Files : Agree(J[g], I[g]) /\ J[g].blocks <= MaxBlocks BY DEF Quiet
<1>5. \A g \in Files : Core(freemap, disk, I[g], Foreign(others, disk, I, g)) BY DEF SInv, Maps
<1>6. Sizes BY DEF SInv
<1>7. Sizes' BY <1>4, <1>6 DEF Sizes, Agree
<1> HIDE DEF I, J
<1>8. \A g \in Files : Core(freemap, disk, J[g], Foreign(others, disk, J, g)) BY <1>1, <1>2, <1>4, <1>5, Relabel
<1>9. Maps' BY <1>3, <1>8 DEF Maps, J
<1>10. QED BY <1>7, <1>9

LEMMA ChangeKeeps ==
  ASSUME SInv, NEW f \in Files, NEW s, NEW st, Changes(f, s, st)
  PROVE  /\ Inodes' = [Inodes EXCEPT ![f] = st.din]
         /\ sin' \in [Files -> MemInode \cup {None}] /\ others' = others /\ dinode' = dinode
         /\ Maps' /\ Sizes' /\ Saved'
         /\ disk' = st.disk /\ \A g \in Files \ {f} : SameCells(disk, Inodes[g], disk', Inodes[g])
<1> DEFINE I == Inodes
           s2 == [s EXCEPT !.din = st.din, !.dirty = st.dirty]
           O == Foreign(others, disk, I, f)
           fr2 == st.free
           dk2 == st.disk
           d2 == st.din
<1>1. /\ Types /\ Maps /\ Sizes /\ Saved /\ I \in [Files -> DiskInode] /\ (\A g \in Files : I[g] = Din(g))
  BY InodesType DEF SInv
<1>2. /\ freemap' = st.free /\ disk' = st.disk /\ sin' = [sin EXCEPT ![f] = s2] /\ others' = others /\ dinode' = dinode
  BY DEF Changes, Commit
<1>3. /\ s \in MemInode /\ s.din = Din(f) /\ s.open > 0 /\ (~s.dirty => Agree(dinode[f], s.din)) /\ st \in States
  BY DEF Changes, Begun
<1>4. s2 \in MemInode /\ s2.din = st.din /\ s2.dirty = st.dirty /\ s2.open = s.open
  BY <1>3 DEF MemInode, States
<1> HIDE DEF s2
<1>5. s2 # None BY <1>4, Kinds
<1>6. sin' \in [Files -> MemInode \cup {None}] /\ sin'[f] = s2 /\ \A g \in Files \ {f} : sin'[g] = sin[g]
  BY <1>1, <1>2, <1>4 DEF Types
<1>7. Inodes' = [I EXCEPT ![f] = st.din]
  <2>1. Inodes' = [g \in Files |-> Din(g)'] BY DEF Inodes
  <2>2. Din(f)' = st.din BY <1>4, <1>5, <1>6 DEF Din
  <2>3. \A g \in Files \ {f} : Din(g)' = Din(g) BY <1>2, <1>6 DEF Din
  <2>4. QED BY <2>1, <2>2, <2>3, <1>1
<1>8. /\ Start(s).disk = disk /\ Start(s).dirty = s.dirty /\ Start(s).din = s.din BY DEF Start
<1>9. /\ Core(st.free, st.disk, st.din, O) /\ SameOn(O, disk, st.disk)
      /\ st.din.size <= SFS_MAX_FILE_SIZE /\ Fits(st.din.size)
      /\ (~st.dirty => ~s.dirty /\ Agree(st.din, s.din))
  BY <1>8 DEF Changes, Done, Good
<1>10. \A g \in Files : Core(freemap, disk, I[g], Foreign(others, disk, I, g)) BY <1>1 DEF Maps
<1>a. Core(fr2, dk2, d2, O) /\ SameOn(O, disk, dk2) BY <1>9
<1> HIDE DEF I
<1>11. /\ \A g \in Files : Core(st.free, st.disk, [I EXCEPT ![f] = st.din][g],
                                Foreign(others, st.disk, [I EXCEPT ![f] = st.din], g))
       /\ \A g \in Files \ {f} : SameCells(disk, I[g], st.disk, I[g])
  <2> HIDE DEF fr2, dk2, d2
  <2>1. /\ \A g \in Files : Core(fr2, dk2, [I EXCEPT ![f] = d2][g], Foreign(others, dk2, [I EXCEPT ![f] = d2], g))
        /\ \A g \in Files \ {f} : SameCells(disk, I[g], dk2, I[g])
    BY <1>1, <1>a, <1>10, Ownership
  <2>2. QED BY <2>1 DEF fr2, dk2, d2
<1>12. Maps' BY <1>2, <1>7, <1>11 DEF Maps
<1>13. Sizes'
  <2>1. \A g \in Files : Inodes'[g] = IF g = f THEN st.din ELSE I[g] BY <1>1, <1>7
  <2>2. QED BY <1>1, <1>9, <2>1 DEF Sizes, I
<1>14. Saved'
  <2>1. ASSUME ~st.dirty PROVE Agree(dinode[f], st.din) BY <2>1, <1>3, <1>9 DEF Agree
  <2>2. s2.open # 0 BY <1>3, <1>4 DEF MemInode
  <2>3. ASSUME NEW g \in Files
        PROVE  /\ dinode'[g].blocks <= MaxBlocks
               /\ sin'[g] # None => /\ ~sin'[g].dirty => Agree(dinode'[g], sin'[g].din)
                                    /\ sin'[g].open = 0 => ~sin'[g].dirty
    <3>1. CASE g = f BY <3>1, <1>1, <1>2, <1>4, <1>6, <2>1, <2>2 DEF Saved
    <3>2. CASE g # f BY <3>2, <1>1, <1>2, <1>6 DEF Saved
    <3>3. QED BY <3>1, <3>2
  <2>4. QED BY <2>3 DEF Saved
<1>15. QED BY <1>2, <1>6, <1>7, <1>11, <1>12, <1>13, <1>14 DEF I

-----------------------------------------------------------------------------
(* The counts of openings and references.                                  *)

LEMMA OpenersFinite == \A f : IsFiniteSet(Openers(f)) /\ Cardinality(Openers(f)) \in Nat
<1>1. ASSUME NEW f PROVE IsFiniteSet(Openers(f))
  <2>1. Openers(f) \subseteq Handles BY DEF Openers
  <2>2. QED BY <2>1, SfsAssumption, FS_Subset
<1>2. QED BY <1>1, FS_CardinalityType

\* Each handle has open what it had.
LEMMA KeepOpeners ==
  ASSUME Types, Counts, Types',
         \A h \in Handles : (file'[h] = None <=> file[h] = None) /\ (file[h] # None => file'[h].node = file[h].node),
         NEW f \in Files, \A g \in Files \ {f} : sin'[g] = sin[g],
         sin'[f] # None, sin'[f].open = (IF sin[f] = None THEN 0 ELSE sin[f].open),
         sin'[f].ref >= (IF sin[f] = None THEN 0 ELSE sin[f].ref)
  PROVE  Counts'
<1>1. \A g : Openers(g)' = Openers(g) BY DEF Openers
<1>2. ASSUME NEW g \in Files
      PROVE  IF sin'[g] = None THEN Openers(g)' = {}
             ELSE sin'[g].open = Cardinality(Openers(g)') /\ sin'[g].ref >= sin'[g].open
  <2>1. CASE g # f BY <2>1, <1>1 DEF Counts
  <2>2. CASE g = f /\ sin[f] = None
    <3>1. Openers(f) = {} BY <2>2 DEF Counts
    <3>2. Cardinality(Openers(f)) = 0 BY <3>1, FS_EmptySet
    <3>3. sin'[f] \in MemInode BY DEF Types
    <3>4. QED BY <1>1, <2>2, <3>2, <3>3 DEF MemInode
  <2>3. CASE g = f /\ sin[f] # None
    <3>1. sin'[f] \in MemInode /\ sin[f] \in MemInode BY <2>3 DEF Types
    <3>2. sin[f].open = Cardinality(Openers(f)) /\ sin[f].ref >= sin[f].open BY <2>3 DEF Counts
    <3>3. QED BY <1>1, <2>3, <3>1, <3>2 DEF MemInode
  <2>4. QED BY <2>1, <2>2, <2>3
<1>3. QED BY <1>2 DEF Counts

\* A handle is opened.
LEMMA AddOpener ==
  ASSUME Types, Counts, Types',
         NEW h \in Handles, NEW f \in Files, NEW o \in OpenFile, o.node = f,
         file[h] = None, file' = [file EXCEPT ![h] = o],
         \A g \in Files \ {f} : sin'[g] = sin[g],
         sin'[f] # None, sin'[f].open = (IF sin[f] = None THEN 0 ELSE sin[f].open) + 1,
         sin'[f].ref = (IF sin[f] = None THEN 0 ELSE sin[f].ref) + 1
  PROVE  Counts'
<1>1. file'[h] = o /\ o # None /\ \A k \in Handles \ {h} : file'[k] = file[k] BY Kinds DEF Types
<1>2. \A g : g # f => Openers(g)' = Openers(g) BY <1>1 DEF Openers
<1>3. Openers(f)' = Openers(f) \cup {h} /\ h \notin Openers(f) BY <1>1 DEF Openers
<1>4. Cardinality(Openers(f)') = Cardinality(Openers(f)) + 1 /\ Cardinality(Openers(f)) \in Nat
  BY <1>3, OpenersFinite, FS_AddElement
<1>5. ASSUME NEW g \in Files
      PROVE  IF sin'[g] = None THEN Openers(g)' = {}
             ELSE sin'[g].open = Cardinality(Openers(g)') /\ sin'[g].ref >= sin'[g].open
  <2>1. CASE g # f BY <2>1, <1>2 DEF Counts
  <2>2. CASE g = f /\ sin[f] = None
    <3>1. Openers(f) = {} BY <2>2 DEF Counts
    <3>2. Cardinality(Openers(f)) = 0 BY <3>1, FS_EmptySet
    <3>4. QED BY <1>4, <2>2, <3>2
  <2>3. CASE g = f /\ sin[f] # None
    <3>1. sin[f] \in MemInode BY <2>3 DEF Types
    <3>2. sin[f].open = Cardinality(Openers(f)) /\ sin[f].ref >= sin[f].open BY <2>3 DEF Counts
    <3>3. QED BY <1>4, <2>3, <3>1, <3>2 DEF MemInode
  <2>4. QED BY <2>1, <2>2, <2>3
<1>6. QED BY <1>5 DEF Counts

\* A handle is closed.
LEMMA DropOpener ==
  ASSUME Types, Counts, Types',
         NEW h \in Handles, file[h] # None, NEW f \in Files, f = file[h].node,
         file' = [file EXCEPT ![h] = None],
         \A g \in Files \ {f} : sin'[g] = sin[g],
         IF sin[f].ref = 1 THEN sin'[f] = None
         ELSE sin'[f] # None /\ sin'[f].open = sin[f].open - 1 /\ sin'[f].ref = sin[f].ref - 1
  PROVE  Counts'
<1>1. file'[h] = None /\ \A k \in Handles \ {h} : file'[k] = file[k] BY DEF Types
<1>2. \A g : g # f => Openers(g)' = Openers(g) BY <1>1 DEF Openers
<1>3. Openers(f)' = Openers(f) \ {h} /\ h \in Openers(f) BY <1>1 DEF Openers
<1>4. /\ Cardinality(Openers(f)') = Cardinality(Openers(f)) - 1 /\ Cardinality(Openers(f)) \in Nat
      /\ IsFiniteSet(Openers(f)')
  BY <1>3, OpenersFinite, FS_RemoveElement
<1>5. sin[f] # None /\ sin[f] \in MemInode /\ sin[f].open > 0 BY OpenIsLoaded
<1>6. sin[f].open = Cardinality(Openers(f)) /\ sin[f].ref >= sin[f].open BY <1>5 DEF Counts
<1>7. sin[f].open \in Nat /\ sin[f].ref \in Nat BY <1>5 DEF MemInode
<1>8. ASSUME NEW g \in Files
      PROVE  IF sin'[g] = None THEN Openers(g)' = {}
             ELSE sin'[g].open = Cardinality(Openers(g)') /\ sin'[g].ref >= sin'[g].open
  <2>1. CASE g # f BY <2>1, <1>2 DEF Counts
  <2>2. CASE g = f /\ sin[f].ref = 1
    <3>1. Cardinality(Openers(f)') = 0 BY <1>4, <1>5, <1>6, <1>7, <2>2
    <3>2. Openers(f)' = {} BY <1>4, <3>1, FS_EmptySet
    <3>3. QED BY <2>2, <3>2
  <2>3. CASE g = f /\ sin[f].ref # 1 BY <2>3, <1>4, <1>5, <1>6, <1>7
  <2>4. QED BY <2>1, <2>2, <2>3
<1>9. QED BY <1>8 DEF Counts

-----------------------------------------------------------------------------
(* The actions.                                                            *)

\* Some file is changed, or none.
Kind == Quiet \/ \E f \in Files : \E s, st : Changes(f, s, st)

\* Nothing happens but perhaps a panic.
LEMMA StillStep ==
  ASSUME SInv, UNCHANGED <<freemap, others, disk, dinode, sin, file>>
  PROVE  SInv' /\ Kind
<1>1. Inodes' = Inodes BY DEF Inodes, Din
<1>2. Types' /\ Counts' /\ Saved' BY DEF SInv, Types, Counts, Saved, Openers
<1>3. \A g \in Files : Inodes[g].blocks <= MaxBlocks BY DEF SInv, Maps, Core
<1>4. Quiet BY <1>1, <1>3 DEF Quiet, Agree
<1>5. QED BY <1>2, <1>4, QuietKeeps DEF SInv, Kind

\* An operation through handle h on the file that it has open.
LEMMA MoveStep ==
  ASSUME SInv, NEW h \in Handles, file[h] # None, NEW f \in Files, f = file[h].node, NEW st \in States,
         Done(Start(sin[f]), st, Foreign(others, disk, Inodes, f)), Effect(Start(sin[f]), st),
         Commit(f, sin[f], st),
         file' \in [Handles -> OpenFile \cup {None}], file'[h] # None, file'[h].node = f,
         \A k \in Handles \ {h} : file'[k] = file[k]
  PROVE  SInv' /\ Kind
<1> DEFINE s == sin[f]
           s2 == [s EXCEPT !.din = st.din, !.dirty = st.dirty]
<1>1. Types /\ Maps /\ Sizes /\ Saved /\ Counts BY DEF SInv
<1>2. s \in MemInode /\ s # None /\ s.open > 0 BY <1>1, OpenIsLoaded
<1>3. Begun(f, s) BY <1>1, <1>2 DEF Begun, Din, Saved
<1>4. Changes(f, s, st) BY <1>3 DEF Changes
<1>5. s2 \in MemInode /\ s2 # None /\ s2.open = s.open /\ s2.ref = s.ref
  <2>1. s2 \in MemInode /\ s2.open = s.open /\ s2.ref = s.ref BY <1>2 DEF MemInode, States
  <2>2. QED BY <2>1, Kinds
<1> HIDE DEF s2
<1>6. sin' = [sin EXCEPT ![f] = s2] BY DEF Commit, s2
<1>7. sin'[f] = s2 /\ \A g \in Files \ {f} : sin'[g] = sin[g] BY <1>1, <1>6 DEF Types
<1>8. sin' \in [Files -> MemInode \cup {None}] /\ others' = others /\ dinode' = dinode /\ Maps' /\ Sizes' /\ Saved'
  BY <1>4, ChangeKeeps
<1>9. Types' BY <1>1, <1>8 DEF Types
<1>10. Counts'
  <2>1. \A k \in Handles : (file'[k] = None <=> file[k] = None) /\ (file[k] # None => file'[k].node = file[k].node)
    OBVIOUS
  <2>2. sin'[f] # None /\ sin'[f].open = (IF sin[f] = None THEN 0 ELSE sin[f].open)
    BY <1>2, <1>5, <1>7
  <2>3. sin'[f].ref >= (IF sin[f] = None THEN 0 ELSE sin[f].ref)
    BY <1>2, <1>5, <1>7 DEF MemInode
  <2>4. QED BY <1>1, <1>7, <1>9, <2>1, <2>2, <2>3, KeepOpeners
<1>11. QED BY <1>4, <1>8, <1>9, <1>10 DEF SInv, Kind

\* The position of a handle changes.
LEMMA SetPos ==
  ASSUME Types, NEW h \in Handles, file[h] # None, NEW p \in Nat, file' = [file EXCEPT ![h].pos = p]
  PROVE  /\ file' \in [Handles -> OpenFile \cup {None}] /\ file'[h] # None /\ file'[h].node = file[h].node
         /\ \A k \in Handles \ {h} : file'[k] = file[k]
<1> DEFINE o == [file[h] EXCEPT !.pos = p]
<1>1. file[h] \in OpenFile BY DEF Types
<1>2. o \in OpenFile /\ o.node = file[h].node BY <1>1 DEF OpenFile
<1>3. o # None BY <1>2, Kinds
<1>4. file' = [file EXCEPT ![h] = o] OBVIOUS
<1> HIDE DEF o
<1>5. QED BY <1>2, <1>3, <1>4 DEF Types

LEMMA ReadStep ==
  ASSUME SInv, ~WholeBlocks, NEW h \in Handles, file[h] # None, NEW n \in Lengths(file[h].pos), file_read(h, n)
  PROVE  SInv' /\ Kind
<1> DEFINE f == file[h].node
           s == sin[f]
           x == Start(s)
           a == file[h].pos
           O == Foreign(others, disk, Inodes, f)
           st == sfs_read(x, a, n)
<1>1. Types /\ Maps /\ Sizes /\ Saved /\ Counts BY DEF SInv
<1>2. f \in Files /\ s \in MemInode /\ s # None /\ a \in Nat /\ file[h] \in OpenFile BY <1>1, OpenIsLoaded
<1>3. s.din = Din(f) BY <1>2 DEF Din
<1>4. IF Panicked(st) THEN Halt(st)
      ELSE Commit(f, s, st) /\ file' = [file EXCEPT ![h].pos = @ + st.alen] /\ UNCHANGED panic
  BY DEF file_read
<1>5. n \in Nat \ {0} /\ n <= SFS_BLKSIZE /\ (n < SFS_BLKSIZE \/ a % SFS_BLKSIZE # 0)
  BY Constants DEF Lengths
<1> HIDE DEF f, s, a, O
<1>6. /\ Good(x, O) /\ x.ret = "ok" /\ x.alen = 0 /\ x.got = <<>>
      /\ x.din.size <= SFS_MAX_FILE_SIZE /\ Fits(x.din.size)
  BY <1>1, <1>2, <1>3, Begin DEF O
<1> HIDE DEF x
<1>7. /\ st \in States /\ (~Panicked(st) => Moved(x, st, O) /\ SameCells(x.disk, x.din, st.disk, st.din))
  BY <1>2, <1>5, <1>6, ReadIs
<1> HIDE DEF st
<1>8. CASE Panicked(st)
  <2>1. UNCHANGED <<freemap, others, disk, dinode, sin, file>> BY <1>4, <1>8 DEF Halt
  <2>2. QED BY <2>1, StillStep
<1>9. CASE ~Panicked(st)
  <2>1. Done(x, st, O) /\ Effect(x, st) BY <1>6, <1>7, <1>9, ReadDone DEF Effect
  <2>2. Commit(f, s, st) /\ file' = [file EXCEPT ![h].pos = a + st.alen] BY <1>4, <1>9 DEF a
  <2>3. a + st.alen \in Nat BY <1>2, <1>7 DEF States
  <2>4. /\ file' \in [Handles -> OpenFile \cup {None}] /\ file'[h] # None /\ file'[h].node = f
        /\ \A k \in Handles \ {h} : file'[k] = file[k]
    BY <1>1, <2>2, <2>3, SetPos DEF f
  <2>5. QED BY <1>2, <1>7, <2>1, <2>2, <2>4, MoveStep DEF x, s, O, f
<1>10. QED BY <1>8, <1>9

LEMMA WriteStep ==
  ASSUME SInv, ~WholeBlocks, NEW h \in Handles, file[h] # None, NEW n \in Lengths(file[h].pos), NEW v \in Marks,
         file_write(h, n, v)
  PROVE  SInv' /\ Kind
<1> DEFINE f == file[h].node
           s == sin[f]
           x == Start(s)
           a == file[h].pos
           O == Foreign(others, disk, Inodes, f)
           st == sfs_write(x, a, n, v)
<1>1. Types /\ Maps /\ Sizes /\ Saved /\ Counts BY DEF SInv
<1>2. f \in Files /\ s \in MemInode /\ s # None /\ a \in Nat /\ file[h] \in OpenFile BY <1>1, OpenIsLoaded
<1>3. s.din = Din(f) BY <1>2 DEF Din
<1>4. IF Panicked(st) THEN Halt(st)
      ELSE Commit(f, s, st) /\ file' = [file EXCEPT ![h].pos = @ + st.alen] /\ UNCHANGED panic
  BY DEF file_write
<1>5. n \in Nat \ {0} /\ n <= SFS_BLKSIZE /\ (n < SFS_BLKSIZE \/ a % SFS_BLKSIZE # 0)
  BY Constants DEF Lengths
<1> HIDE DEF f, s, a, O
<1>6. /\ Good(x, O) /\ x.ret = "ok" /\ x.alen = 0 /\ x.din.size <= SFS_MAX_FILE_SIZE /\ Fits(x.din.size)
  BY <1>1, <1>2, <1>3, Begin DEF O
<1> HIDE DEF x
<1>7. /\ st \in States
      /\ ~Panicked(st) => /\ Done(x, st, O)
                          /\ \/ Unchanged(x, st)
                             \/ a <= SFS_MAX_FILE_SIZE /\ \E m \in 0 .. n : Stored(x, st, a, m, v)
  BY <1>2, <1>5, <1>6, WriteIs
<1> HIDE DEF st
<1>8. CASE Panicked(st)
  <2>1. UNCHANGED <<freemap, others, disk, dinode, sin, file>> BY <1>4, <1>8 DEF Halt
  <2>2. QED BY <2>1, StillStep
<1>9. CASE ~Panicked(st)
  <2>1. Done(x, st, O) /\ Effect(x, st)
    <3>1. CASE Unchanged(x, st) BY <3>1, <1>7, <1>9 DEF Effect
    <3>2. CASE a <= SFS_MAX_FILE_SIZE /\ \E m \in 0 .. n : Stored(x, st, a, m, v)
      <4>1. PICK m \in 0 .. n : Stored(x, st, a, m, v) BY <3>2
      <4>2. m \in 0 .. SFS_BLKSIZE /\ a \in 0 .. SFS_MAX_FILE_SIZE BY <1>2, <1>5, <3>2, Constants
      <4>3. QED BY <4>1, <4>2, <1>7, <1>9 DEF Effect
    <3>3. QED BY <3>1, <3>2, <1>7, <1>9
  <2>2. Commit(f, s, st) /\ file' = [file EXCEPT ![h].pos = a + st.alen] BY <1>4, <1>9 DEF a
  <2>3. a + st.alen \in Nat BY <1>2, <1>7 DEF States
  <2>4. /\ file' \in [Handles -> OpenFile \cup {None}] /\ file'[h] # None /\ file'[h].node = f
        /\ \A k \in Handles \ {h} : file'[k] = file[k]
    BY <1>1, <2>2, <2>3, SetPos DEF f
  <2>5. QED BY <1>2, <1>7, <2>1, <2>2, <2>4, MoveStep DEF x, s, O, f
<1>10. QED BY <1>8, <1>9

LEMMA SeekStep ==
  ASSUME SInv, NEW h \in Handles, NEW pos \in 0 .. SFS_MAX_FILE_SIZE - 1, file_seek(h, pos)
  PROVE  SInv' /\ Kind
<1> DEFINE f == file[h].node
           s == sin[f]
           x == Start(s)
           a == file[h].pos
           O == Foreign(others, disk, Inodes, f)
           st == sfs_tryseek(x, pos)
<1>1. Types /\ Maps /\ Sizes /\ Saved /\ Counts BY DEF SInv
<1>0. file[h] # None BY DEF file_seek
<1>2. f \in Files /\ s \in MemInode /\ s # None /\ a \in Nat /\ file[h] \in OpenFile BY <1>0, <1>1, OpenIsLoaded
<1>3. s.din = Din(f) BY <1>2 DEF Din
<1>4. IF Panicked(st) THEN Halt(st)
      ELSE Commit(f, s, st) /\ file' = [file EXCEPT ![h].pos = IF st.ret = "ok" THEN pos ELSE @] /\ UNCHANGED panic
  BY DEF file_seek
<1> HIDE DEF f, s, a, O
<1>6. /\ Good(x, O) /\ x.ret = "ok" /\ x.din.size <= SFS_MAX_FILE_SIZE /\ Fits(x.din.size)
  BY <1>1, <1>2, <1>3, Begin DEF O
<1> HIDE DEF x
<1>7. /\ st \in States
      /\ ~Panicked(st) =>
           /\ Done(x, st, O)
           /\ \/ Unchanged(x, st)
              \/ /\ st.din.size = pos /\ pos > x.din.size
                 /\ \A k \in DataPlaces, j \in Offsets :
                      CellAt(st.disk, st.din, k, j) =
                        IF k >= Ceil(pos) /\ k < x.din.blocks THEN 0 ELSE CellAt(x.disk, x.din, k, j)
  BY <1>6, SeekIs
<1> HIDE DEF st
<1>8. CASE Panicked(st)
  <2>1. UNCHANGED <<freemap, others, disk, dinode, sin, file>> BY <1>4, <1>8 DEF Halt
  <2>2. QED BY <2>1, StillStep
<1>9. CASE ~Panicked(st)
  <2> DEFINE p == IF st.ret = "ok" THEN pos ELSE a
  <2>1. Done(x, st, O) /\ Effect(x, st) BY <1>7, <1>9 DEF Effect, Longer
  <2>2. Commit(f, s, st) /\ file' = [file EXCEPT ![h].pos = p] BY <1>4, <1>9 DEF a
  <2>3. p \in Nat BY <1>2
  <2> HIDE DEF p
  <2>4. /\ file' \in [Handles -> OpenFile \cup {None}] /\ file'[h] # None /\ file'[h].node = f
        /\ \A k \in Handles \ {h} : file'[k] = file[k]
    BY <1>0, <1>1, <2>2, <2>3, SetPos DEF f
  <2>5. QED BY <1>0, <1>2, <1>7, <2>1, <2>2, <2>4, MoveStep DEF x, s, O, f
<1>10. QED BY <1>8, <1>9

LEMMA OpenStep ==
  ASSUME SInv, NEW h \in Handles, NEW f \in Files, NEW mode, file_open(h, f, mode)
  PROVE  SInv' /\ Kind
<1> DEFINE t == Loaded(f)
           s == [t EXCEPT !.open = @ + 1]
           x == Start(s)
           O == Foreign(others, disk, Inodes, f)
           st == IF mode = "trunc" THEN sfs_truncfile(x, 0) ELSE x
           o == [node |-> f, pos |-> IF mode = "append" THEN st.din.size ELSE 0]
           s2 == [s EXCEPT !.din = st.din, !.dirty = st.dirty]
<1>1. Types /\ Maps /\ Sizes /\ Saved /\ Counts BY DEF SInv
<1>2. /\ file[h] = None
      /\ IF Panicked(st) THEN Halt(st) ELSE Commit(f, s, st) /\ file' = [file EXCEPT ![h] = o] /\ UNCHANGED panic
  BY DEF file_open
<1>3. /\ t \in MemInode /\ t.din = Din(f) /\ (~t.dirty => Agree(dinode[f], t.din))
      /\ t.open = (IF sin[f] = None THEN 0 ELSE sin[f].open)
      /\ t.ref = (IF sin[f] = None THEN 1 ELSE sin[f].ref + 1)
  BY <1>1, LoadedIs
<1> HIDE DEF t
<1>4. s \in MemInode /\ s.din = t.din /\ s.dirty = t.dirty /\ s.ref = t.ref /\ s.open = t.open + 1
  BY <1>3 DEF MemInode
<1> HIDE DEF s
<1>5. s.open > 0 BY <1>3, <1>4 DEF MemInode
<1>6. Begun(f, s) BY <1>3, <1>4, <1>5 DEF Begun
<1>7. /\ Good(x, O) /\ x.ret = "ok" /\ x.din.size <= SFS_MAX_FILE_SIZE /\ Fits(x.din.size)
  BY <1>1, <1>3, <1>4, Begin
<1> HIDE DEF x, O
<1>8. st \in States /\ (~Panicked(st) => Done(x, st, O) /\ Effect(x, st))
  <2>1. CASE mode = "trunc"
    <3> DEFINE r == sfs_truncfile(x, 0)
    <3>1. /\ r \in States
          /\ ~Panicked(r) =>
               /\ Done(x, r, O)
               /\ \/ Unchanged(x, r)
                  \/ /\ r.din.size = 0
                     /\ \A k \in DataPlaces, j \in Offsets :
                          CellAt(r.disk, r.din, k, j) = IF k < x.din.blocks THEN 0 ELSE CellAt(x.disk, x.din, k, j)
      BY <1>7, EmptyIs
    <3>2. st = r BY <2>1
    <3> HIDE DEF r, st
    <3>3. QED BY <3>1, <3>2 DEF Effect, Emptied
  <2>2. CASE mode # "trunc"
    <3>1. st = x BY <2>2
    <3> HIDE DEF st
    <3>2. x \in States BY <1>7 DEF Good
    <3>3. Done(x, x, O) /\ Unchanged(x, x) BY <1>7 DEF Done, Unchanged, SameOn, SameCells, Agree
    <3>4. QED BY <3>1, <3>2, <3>3 DEF Effect
  <2>3. QED BY <2>1, <2>2
<1> HIDE DEF st
<1>9. CASE Panicked(st)
  <2>1. UNCHANGED <<freemap, others, disk, dinode, sin, file>> BY <1>2, <1>9 DEF Halt
  <2>2. QED BY <2>1, StillStep
<1>10. CASE ~Panicked(st)
  <2>1. Changes(f, s, st) BY <1>2, <1>6, <1>8, <1>10 DEF Changes, x, O
  <2>2. s2 \in MemInode /\ s2.open = s.open /\ s2.ref = s.ref BY <1>4, <1>8 DEF MemInode, States
  <2>3. s2 # None BY <2>2, Kinds
  <2>4. o \in OpenFile /\ o.node = f BY <1>8 DEF OpenFile, States, DiskInode
  <2>5. sin' = [sin EXCEPT ![f] = s2] BY <1>2, <1>10 DEF Commit
  <2>6. file' = [file EXCEPT ![h] = o] BY <1>2, <1>10
  <2> HIDE DEF s2, o
  <2>7. sin'[f] = s2 /\ \A g \in Files \ {f} : sin'[g] = sin[g] BY <1>1, <2>5 DEF Types
  <2>8. sin' \in [Files -> MemInode \cup {None}] /\ others' = others /\ dinode' = dinode /\ Maps' /\ Sizes' /\ Saved'
    BY <2>1, ChangeKeeps
  <2>9. Types' BY <1>1, <2>4, <2>6, <2>8 DEF Types
  <2>10. sin'[f] # None /\ sin'[f].open = (IF sin[f] = None THEN 0 ELSE sin[f].open) + 1
    BY <1>3, <1>4, <2>2, <2>3, <2>7
  <2>11. sin'[f].ref = (IF sin[f] = None THEN 0 ELSE sin[f].ref) + 1
    BY <1>3, <1>4, <2>2, <2>7
  <2>12. Counts' BY <1>1, <1>2, <2>4, <2>6, <2>7, <2>9, <2>10, <2>11, AddOpener
  <2>13. QED BY <2>1, <2>8, <2>9, <2>12 DEF SInv, Kind
<1>11. QED BY <1>9, <1>10

\* The inode of f is saved, loaded or counted anew: t in memory, d on the disk.
LEMMA SaveStep ==
  ASSUME SInv, NEW f \in Files, UNCHANGED <<freemap, others, disk>>,
         NEW t \in MemInode \cup {None}, NEW d \in DiskInode, d.blocks <= MaxBlocks,
         dinode' = [dinode EXCEPT ![f] = d], sin' = [sin EXCEPT ![f] = t],
         t = None => Agree(d, Din(f)),
         t # None => /\ t.din = Din(f) /\ (~t.dirty => Agree(d, t.din)) /\ (t.open = 0 => ~t.dirty),
         file' \in [Handles -> OpenFile \cup {None}]
  PROVE  /\ Types' /\ Maps' /\ Sizes' /\ Saved' /\ Kind
         /\ sin'[f] = t /\ \A g \in Files \ {f} : sin'[g] = sin[g]
<1>1. Types /\ Maps /\ Sizes /\ Saved BY DEF SInv
<1>2. sin'[f] = t /\ (\A g \in Files \ {f} : sin'[g] = sin[g]) /\ dinode'[f] = d
      /\ \A g \in Files \ {f} : dinode'[g] = dinode[g]
  BY <1>1 DEF Types
<1>3. Types' BY <1>1 DEF Types
<1>4. Saved'
  <2>1. ASSUME NEW g \in Files
        PROVE  /\ dinode'[g].blocks <= MaxBlocks
               /\ sin'[g] # None => /\ ~sin'[g].dirty => Agree(dinode'[g], sin'[g].din)
                                    /\ sin'[g].open = 0 => ~sin'[g].dirty
    <3>1. CASE g = f BY <3>1, <1>2
    <3>2. CASE g # f BY <3>2, <1>1, <1>2 DEF Saved
    <3>3. QED BY <3>1, <3>2
  <2>2. QED BY <2>1 DEF Saved
<1>5. \A g \in Files : Inodes[g] = Din(g) /\ Inodes'[g] = Din(g)' BY DEF Inodes
<1>6. \A g \in Files : Din(g).blocks <= MaxBlocks BY <1>1, <1>5 DEF Maps, Core
<1>7. Quiet
  <2>1. ASSUME NEW g \in Files PROVE Agree(Din(g)', Din(g)) /\ Din(g)'.blocks <= MaxBlocks
    <3>1. CASE g # f
      <4>1. Din(g)' = Din(g) BY <3>1, <1>2 DEF Din
      <4>2. QED BY <4>1, <1>6 DEF Agree
    <3>2. CASE g = f /\ t = None
      <4>1. Din(g)' = d BY <3>2, <1>2 DEF Din
      <4>2. QED BY <3>2, <4>1
    <3>3. CASE g = f /\ t # None
      <4>1. Din(g)' = Din(g) BY <3>3, <1>2 DEF Din
      <4>2. QED BY <4>1, <1>6 DEF Agree
    <3>4. QED BY <3>1, <3>2, <3>3
  <2>2. QED BY <1>5, <2>1 DEF Quiet
<1>8. Maps' /\ Sizes' BY <1>3, <1>7, QuietKeeps
<1>9. QED BY <1>2, <1>3, <1>4, <1>7, <1>8 DEF Kind

LEMMA ExclStep ==
  ASSUME SInv, NEW f \in Files, file_open_excl(f)
  PROVE  SInv' /\ Kind
<1> DEFINE t == Loaded(f)
           d == dinode[f]
<1>1. Types /\ Saved /\ Counts BY DEF SInv
<1>2. sin' = [sin EXCEPT ![f] = t] /\ UNCHANGED <<freemap, others, disk, dinode, file>> BY DEF file_open_excl
<1>3. /\ t \in MemInode /\ t.din = Din(f) /\ (~t.dirty => Agree(dinode[f], t.din))
      /\ t.open = (IF sin[f] = None THEN 0 ELSE sin[f].open)
      /\ t.ref = (IF sin[f] = None THEN 1 ELSE sin[f].ref + 1) /\ (t.open = 0 => ~t.dirty)
  BY <1>1, LoadedIs
<1>4. t # None BY <1>3, Kinds
<1>5. d \in DiskInode /\ d.blocks <= MaxBlocks /\ dinode' = [dinode EXCEPT ![f] = d] BY <1>1, <1>2 DEF Types, Saved
<1>6. file' \in [Handles -> OpenFile \cup {None}] BY <1>1, <1>2 DEF Types
<1> HIDE DEF t
<1>7. /\ Types' /\ Maps' /\ Sizes' /\ Saved' /\ Kind
      /\ sin'[f] = t /\ \A g \in Files \ {f} : sin'[g] = sin[g]
  BY <1>2, <1>3, <1>4, <1>5, <1>6, SaveStep
<1>8. Counts'
  <2>1. \A k \in Handles : (file'[k] = None <=> file[k] = None) /\ (file[k] # None => file'[k].node = file[k].node)
    BY <1>2
  <2>2. sin'[f] # None /\ sin'[f].open = (IF sin[f] = None THEN 0 ELSE sin[f].open)
    BY <1>3, <1>4, <1>7
  <2>3. sin[f] # None => sin[f].ref \in Nat BY <1>1 DEF Types, MemInode
  <2>4. sin'[f].ref >= (IF sin[f] = None THEN 0 ELSE sin[f].ref)
    BY <1>3, <1>7, <2>3
  <2>5. QED BY <1>1, <1>7, <2>1, <2>2, <2>4, KeepOpeners
<1>9. QED BY <1>7, <1>8 DEF SInv

LEMMA DupStep ==
  ASSUME SInv, NEW h \in Handles, NEW h2 \in Handles, file_dup(h, h2)
  PROVE  SInv' /\ Kind
<1> DEFINE f == file[h].node
           o == file[h]
           s == sin[f]
           t == [s EXCEPT !.ref = @ + 1, !.open = @ + 1]
           d == dinode[f]
<1>1. Types /\ Saved /\ Counts BY DEF SInv
<1>2. file[h] # None /\ file[h2] = None /\ file' = [file EXCEPT ![h2] = o]
      /\ UNCHANGED <<freemap, others, disk, dinode>>
  BY DEF file_dup
<1>3. /\ f \in Files /\ o \in OpenFile /\ s # None /\ s \in MemInode /\ s.open > 0
  BY <1>1, <1>2, OpenIsLoaded
<1>4. sin' = [sin EXCEPT ![f] = t] BY <1>1, <1>3 DEF file_dup, fd_array_dup, Types
<1>5. t \in MemInode /\ t.din = s.din /\ t.dirty = s.dirty /\ t.ref = s.ref + 1 /\ t.open = s.open + 1
  <2> HIDE DEF s
  <2> DEFINE u == [s EXCEPT !.ref = @ + 1]
  <2>1. u \in MemInode /\ u.din = s.din /\ u.dirty = s.dirty /\ u.ref = s.ref + 1 /\ u.open = s.open
    BY <1>3 DEF MemInode
  <2>2. t = [u EXCEPT !.open = @ + 1] OBVIOUS
  <2> HIDE DEF u, t
  <2>3. QED BY <2>1, <2>2 DEF MemInode
<1>6. t # None /\ s.open \in Nat /\ s.ref \in Nat BY <1>3, <1>5, Kinds DEF MemInode
<1>7. d \in DiskInode /\ d.blocks <= MaxBlocks /\ dinode' = [dinode EXCEPT ![f] = d] BY <1>1, <1>2, <1>3 DEF Types, Saved
<1>8. o.node = f OBVIOUS
<1>9. file' \in [Handles -> OpenFile \cup {None}] BY <1>1, <1>2, <1>3 DEF Types
<1>10. t.din = Din(f) /\ (~t.dirty => Agree(d, t.din)) /\ t.open # 0 BY <1>1, <1>3, <1>5, <1>6 DEF Saved, Din
<1> HIDE DEF t, s, f, o
<1>11. /\ Types' /\ Maps' /\ Sizes' /\ Saved' /\ Kind
       /\ sin'[f] = t /\ \A g \in Files \ {f} : sin'[g] = sin[g]
  BY <1>2, <1>3, <1>4, <1>5, <1>6, <1>7, <1>9, <1>10, SaveStep
<1>12. sin'[f] # None /\ sin'[f].open = (IF sin[f] = None THEN 0 ELSE sin[f].open) + 1
  BY <1>3, <1>5, <1>6, <1>11 DEF s
<1>13. sin'[f].ref = (IF sin[f] = None THEN 0 ELSE sin[f].ref) + 1
  BY <1>3, <1>5, <1>6, <1>11 DEF s
<1>14. Counts' BY <1>1, <1>2, <1>3, <1>8, <1>11, <1>12, <1>13, AddOpener
<1>15. QED BY <1>11, <1>14 DEF SInv

LEMMA FsyncStep ==
  ASSUME SInv, NEW h \in Handles, file_fsync(h)
  PROVE  SInv' /\ Kind
<1> DEFINE f == file[h].node
           s == sin[f]
           t == [s EXCEPT !.dirty = FALSE]
           d == IF s.dirty THEN s.din ELSE dinode[f]
<1>1. Types /\ Maps /\ Saved /\ Counts BY DEF SInv
<1>2. file[h] # None /\ UNCHANGED <<freemap, others, disk, file>> BY DEF file_fsync
<1>3. f \in Files /\ s # None /\ s \in MemInode BY <1>1, <1>2, OpenIsLoaded
<1>4. sin' = [sin EXCEPT ![f] = t] /\ dinode' = [dinode EXCEPT ![f] = d] BY DEF file_fsync, sfs_fsync
<1>5. t \in MemInode /\ t.din = s.din /\ ~t.dirty /\ t.ref = s.ref /\ t.open = s.open BY <1>3 DEF MemInode
<1>6. t # None BY <1>5, Kinds
<1>7. s.din = Din(f) /\ s.din \in DiskInode /\ s.din.blocks <= MaxBlocks
  <2>1. Inodes[f] = Din(f) BY <1>1, <1>3, InodesType
  <2>2. s.din = Din(f) BY <1>3 DEF Din
  <2>3. QED BY <1>1, <1>3, <2>1, <2>2 DEF Maps, Core
<1>8. d \in DiskInode /\ d.blocks <= MaxBlocks /\ Agree(d, s.din)
  BY <1>1, <1>3, <1>7 DEF Types, Saved, Agree
<1>9. file' \in [Handles -> OpenFile \cup {None}] BY <1>1, <1>2 DEF Types
<1> HIDE DEF t, s, f, d
<1>10. /\ Types' /\ Maps' /\ Sizes' /\ Saved' /\ Kind
       /\ sin'[f] = t /\ \A g \in Files \ {f} : sin'[g] = sin[g]
  BY <1>2, <1>3, <1>4, <1>5, <1>6, <1>7, <1>8, <1>9, SaveStep
<1>11. Counts'
  <2>1. \A k \in Handles : (file'[k] = None <=> file[k] = None) /\ (file[k] # None => file'[k].node = file[k].node)
    BY <1>2
  <2>2. sin'[f] # None /\ sin'[f].open = (IF sin[f] = None THEN 0 ELSE sin[f].open)
    BY <1>3, <1>5, <1>6, <1>10 DEF s
  <2>3. s.ref \in Nat BY <1>3 DEF MemInode
  <2>4. sin'[f].ref >= (IF sin[f] = None THEN 0 ELSE sin[f].ref)
    BY <1>3, <1>5, <1>10, <2>3 DEF s
  <2>5. QED BY <1>1, <1>3, <1>10, <2>1, <2>2, <2>4, KeepOpeners
<1>12. QED BY <1>10, <1>11 DEF SInv

\* vfs_close
LEMMA CloseIs ==
  ASSUME NEW s \in MemInode, NEW d \in DiskInode, s.open > 0, s.ref >= s.open,
         NEW x, x = vfs_close([s |-> s, d |-> d])
  PROVE  /\ s.ref = 1 => x.s = None
         /\ s.ref # 1 => /\ x.s \in MemInode /\ x.s.din = s.din /\ x.s.open = s.open - 1 /\ x.s.ref = s.ref - 1
                         /\ ~x.s.dirty => x.d = s.din \/ (~s.dirty /\ x.d = d)
                         /\ x.s.open = 0 => ~x.s.dirty
                         /\ x.d = d \/ x.d = s.din
         /\ s.ref = 1 => x.d = s.din \/ (~s.dirty /\ x.d = d)
<1> DEFINE s1 == [s EXCEPT !.open = @ - 1]
           s2 == [s1 EXCEPT !.dirty = FALSE]
           d2 == IF s1.dirty THEN s1.din ELSE d
           y == inode_open_dec([s |-> s, d |-> d])
<1>0. s.open \in Nat /\ s.ref \in Nat BY DEF MemInode
<1>1. s1 \in MemInode /\ s1.din = s.din /\ s1.dirty = s.dirty /\ s1.open = s.open - 1 /\ s1.ref = s.ref
  BY <1>0 DEF MemInode
<1>2. [[s |-> s, d |-> d] EXCEPT !.s.open = @ - 1] = [s |-> s1, d |-> d] OBVIOUS
<1>3. y = IF s1.open = 0 THEN [s |-> s2, d |-> d2] ELSE [s |-> s1, d |-> d]
  BY <1>2 DEF inode_open_dec, sfs_close, sfs_fsync
<1>4. x = inode_ref_dec(y) BY DEF vfs_close
<1> HIDE DEF s1, y
<1>5. s2 \in MemInode /\ s2.din = s.din /\ ~s2.dirty /\ s2.open = s1.open /\ s2.ref = s.ref
  BY <1>1 DEF MemInode
<1>6. d2 = s.din \/ (~s.dirty /\ d2 = d) BY <1>1
<1> HIDE DEF s2, d2
<1> DEFINE w == IF s1.open = 0 THEN s2 ELSE s1
           e == IF s1.open = 0 THEN d2 ELSE d
<1>7. y = [s |-> w, d |-> e] BY <1>3
<1>8. /\ w \in MemInode /\ w.din = s.din /\ w.open = s.open - 1 /\ w.ref = s.ref
      /\ ~w.dirty => e = s.din \/ (~s.dirty /\ e = d)
      /\ w.open = 0 => ~w.dirty
      /\ e = d \/ e = s.din
  BY <1>1, <1>5, <1>6
<1> HIDE DEF w, e
<1> DEFINE u == [w EXCEPT !.ref = @ - 1]
<1>9. u.ref = s.ref - 1 /\ u.din = s.din /\ u.dirty = w.dirty /\ u.open = w.open /\ (s.ref # 0 => u \in MemInode)
  BY <1>0, <1>8 DEF MemInode
<1>10. [[s |-> w, d |-> e] EXCEPT !.s.ref = @ - 1] = [s |-> u, d |-> e] OBVIOUS
<1>11. x = IF u.ref = 0 THEN [s |-> None, d |-> IF u.dirty THEN u.din ELSE e] ELSE [s |-> u, d |-> e]
  BY <1>4, <1>7, <1>10 DEF inode_ref_dec, sfs_reclaim, sfs_fsync
<1> HIDE DEF u
<1>12. CASE s.ref = 1
  <2>1. u.ref = 0 BY <1>0, <1>9, <1>12
  <2>2. x.s = None /\ x.d = IF u.dirty THEN u.din ELSE e BY <1>11, <2>1
  <2>3. QED BY <1>8, <1>9, <1>12, <2>2
<1>13. CASE s.ref # 1
  <2>1. u.ref # 0 /\ s.ref # 0 BY <1>0, <1>9, <1>13
  <2>2. x.s = u /\ x.d = e BY <1>11, <2>1
  <2>3. QED BY <1>8, <1>9, <1>13, <2>1, <2>2
<1>14. QED BY <1>12, <1>13

LEMMA CloseStep ==
  ASSUME SInv, NEW h \in Handles, file_close(h)
  PROVE  SInv' /\ Kind
<1> DEFINE f == file[h].node
           s == sin[f]
           x == vfs_close([s |-> sin[f], d |-> dinode[f]])
           t == x.s
           d == x.d
<1>1. Types /\ Maps /\ Saved /\ Counts BY DEF SInv
<1>2. file[h] # None /\ UNCHANGED <<freemap, others, disk>> /\ file' = [file EXCEPT ![h] = None] BY DEF file_close
<1>3. f \in Files /\ s # None /\ s \in MemInode /\ s.open > 0 BY <1>1, <1>2, OpenIsLoaded
<1>4. sin' = [sin EXCEPT ![f] = t] /\ dinode' = [dinode EXCEPT ![f] = d] BY DEF file_close
<1>5. s.din = Din(f) /\ s.din \in DiskInode /\ s.din.blocks <= MaxBlocks
  <2>1. Inodes[f] = Din(f) BY <1>1, <1>3, InodesType
  <2>2. s.din = Din(f) BY <1>3 DEF Din
  <2>3. QED BY <1>1, <1>3, <2>1, <2>2 DEF Maps, Core
<1>6. dinode[f] \in DiskInode /\ dinode[f].blocks <= MaxBlocks /\ (~s.dirty => Agree(dinode[f], s.din))
  BY <1>1, <1>3 DEF Types, Saved
<1>7. s.ref >= s.open BY <1>1, <1>3 DEF Counts
<1>8. /\ s.ref = 1 => t = None
      /\ s.ref # 1 => /\ t \in MemInode /\ t.din = s.din /\ t.open = s.open - 1 /\ t.ref = s.ref - 1
                      /\ ~t.dirty => d = s.din \/ (~s.dirty /\ d = dinode[f])
                      /\ t.open = 0 => ~t.dirty
                      /\ d = dinode[f] \/ d = s.din
      /\ s.ref = 1 => d = s.din \/ (~s.dirty /\ d = dinode[f])
  BY <1>3, <1>6, <1>7, CloseIs
<1> HIDE DEF x, t, d
<1>9. file' \in [Handles -> OpenFile \cup {None}] BY <1>1, <1>2 DEF Types
<1>10. d \in DiskInode /\ d.blocks <= MaxBlocks BY <1>5, <1>6, <1>8
<1>11. t \in MemInode \cup {None} /\ (t = None <=> s.ref = 1) BY <1>8, Kinds
<1>12. t = None => Agree(d, Din(f)) BY <1>5, <1>6, <1>8, <1>11 DEF Agree
<1>13. t # None => /\ t.din = Din(f) /\ (~t.dirty => Agree(d, t.din)) /\ (t.open = 0 => ~t.dirty)
  BY <1>5, <1>6, <1>8, <1>11 DEF Agree
<1> HIDE DEF f, s
<1>14. /\ Types' /\ Maps' /\ Sizes' /\ Saved' /\ Kind
       /\ sin'[f] = t /\ \A g \in Files \ {f} : sin'[g] = sin[g]
  BY <1>2, <1>3, <1>4, <1>9, <1>10, <1>11, <1>12, <1>13, SaveStep
<1>15. Counts'
  <2>1. IF sin[f].ref = 1 THEN sin'[f] = None
        ELSE sin'[f] # None /\ sin'[f].open = sin[f].open - 1 /\ sin'[f].ref = sin[f].ref - 1
    BY <1>8, <1>11, <1>14 DEF s
  <2>2. f = file[h].node BY DEF f
  <2>3. QED BY <1>1, <1>2, <1>3, <1>14, <2>1, <2>2, DropOpener
<1>16. QED BY <1>14, <1>15 DEF SInv

\* The invariant is inductive, and every step leaves the files or changes one.
LEMMA Inductive ==
  ASSUME SInv, ~WholeBlocks, [Next]_vars
  PROVE  SInv' /\ Kind
<1>1. CASE \E h \in Handles, f \in Files, mode \in {"plain", "trunc", "append"} : file_open(h, f, mode)
  BY <1>1, OpenStep
<1>2. CASE \E f \in Files : file_open_excl(f) BY <1>2, ExclStep
<1>3. CASE \E h \in Handles : file_close(h) BY <1>3, CloseStep
<1>4. CASE \E h, h2 \in Handles : file_dup(h, h2) BY <1>4, DupStep
<1>5. CASE \E h \in Handles : file[h] # None /\ \E n \in Lengths(file[h].pos) : file_read(h, n)
  BY <1>5, ReadStep
<1>6. CASE \E h \in Handles, v \in Marks :
             file[h] # None /\ \E n \in Lengths(file[h].pos) : file_write(h, n, v)
  BY <1>6, WriteStep
<1>7. CASE \E h \in Handles, pos \in 0 .. SFS_MAX_FILE_SIZE - 1 : file_seek(h, pos) BY <1>7, SeekStep
<1>8. CASE \E h \in Handles : file_fsync(h) BY <1>8, FsyncStep
<1>9. CASE shutdown BY <1>9, StillStep DEF shutdown, vars
<1>10. CASE UNCHANGED vars BY <1>10, StillStep DEF vars
<1>11. QED BY <1>1, <1>2, <1>3, <1>4, <1>5, <1>6, <1>7, <1>8, <1>9, <1>10 DEF Next

\* The inductive invariant of the file system: at all times the blocks of the
\* files, the free map and the rest make up the disk, and memory and disk agree.
THEOREM AlwaysSound == ASSUME ~WholeBlocks PROVE Spec => []SInv
<1>1. Init => SInv BY InitIs
<1>2. SInv /\ [Next]_vars => SInv' BY Inductive
<1>3. QED BY <1>1, <1>2, PTL DEF Spec

-----------------------------------------------------------------------------
(* What follows.                                                           *)

\* CountsExact: an open file's inode is in memory, open_count is the number of
\* handles on it and ref_count is not below (vop_open_inc, vop_open_dec,
\* vop_ref_inc and vop_ref_dec in file.c and vfsfile.c).
THEOREM CountsAlwaysExact == ASSUME ~WholeBlocks PROVE Spec => []CountsExact
<1>1. SInv => CountsExact
  <2> SUFFICES ASSUME SInv, NEW f \in Files
               PROVE  LET n == Cardinality({h \in Handles : file[h] # None /\ file[h].node = f})
                      IN  IF sin[f] = None THEN n = 0 ELSE sin[f].open = n /\ sin[f].ref >= n
    BY DEF CountsExact
  <2>1. Types /\ Counts BY DEF SInv
  <2>2. CASE sin[f] = None
    <3>1. Openers(f) = {} BY <2>1, <2>2 DEF Counts
    <3>2. Cardinality(Openers(f)) = 0 BY <3>1, FS_EmptySet
    <3>3. QED BY <2>2, <3>2 DEF Openers
  <2>3. CASE sin[f] # None BY <2>1, <2>3 DEF Counts, Openers
  <2>4. QED BY <2>2, <2>3
<1>2. QED BY <1>1, AlwaysSound, PTL

LEMMA BlockOfIs == \A d, k : k \in Nat => BlockOf(d, k) = At(disk, d, k)
<1>1. \A k \in Nat : k # -1 OBVIOUS
<1>2. QED BY <1>1 DEF BlockOf, At

\* ClosedIsSaved: the last close writes the inode (sfs_close), so that a file
\* nobody has open is on the disk as it was left.
THEOREM ClosedAlwaysSaved == ASSUME ~WholeBlocks PROVE Spec => []ClosedIsSaved
<1>1. SInv => ClosedIsSaved
  <2> SUFFICES ASSUME SInv, NEW f \in Files, sin[f] # None => sin[f].open = 0
               PROVE  Contents(dinode[f]) = Contents(Din(f))
    BY DEF ClosedIsSaved
  <2>1. Agree(dinode[f], Din(f)) BY DEF SInv, Saved, Din, Agree
  <2> DEFINE d == dinode[f]
             e == Din(f)
  <2> HIDE DEF d, e
  <2>2. Agree(d, e) BY <2>1 DEF d, e
  <2>3. d.size = e.size /\ \A k : BlockOf(d, k) = BlockOf(e, k) BY <2>2 DEF Agree, BlockOf
  <2>4. Contents(d) = Contents(e) BY <2>3 DEF Contents
  <2>5. QED BY <2>4 DEF d, e
<1>2. QED BY <1>1, AlwaysSound, PTL

LEMMA ContentsAre ==
  ASSUME NEW d, d.size \in Nat
  PROVE  Contents(d) = Part(Data(disk, d), 0, d.size)
<1> DEFINE F == Data(disk, d)
           c(i) == LET b == BlockOf(d, (i - 1) \div SFS_BLKSIZE) IN IF b = 0 THEN 0 ELSE disk[b][(i - 1) % SFS_BLKSIZE]
<1>1. ASSUME NEW i \in 1 .. d.size PROVE c(i) = F[0 + i - 1]
  <2> DEFINE m == i - 1
             k == m \div SFS_BLKSIZE
             j == m % SFS_BLKSIZE
  <2>1. m \in Nat /\ m < d.size /\ 0 + i - 1 = m OBVIOUS
  <2>2. k \in Nat BY <2>1, Division
  <2>3. F[m] = Cell(disk, d, m) BY <2>1 DEF Data
  <2>4. BlockOf(d, k) = At(disk, d, k) BY <2>2, BlockOfIs
  <2>5. c(i) = CellAt(disk, d, k, j) BY <2>4 DEF CellAt
  <2>6. QED BY <2>1, <2>3, <2>5 DEF Cell
<1>2. Contents(d) = [i \in 1 .. d.size |-> c(i)] BY DEF Contents
<1> HIDE DEF c, F
<1>3. QED BY <1>1, <1>2 DEF Part, F

\* A stretch of a stretch.
LEMMA SubPart ==
  ASSUME NEW S, NEW F \in Series(S), NEW n \in Nat, NEW a \in Nat, NEW e \in Nat, e <= n
  PROVE  SubSeq(Part(F, 0, n), a + 1, e) = Part(F, a, IF a < e THEN e - a ELSE 0)
<1> DEFINE p == Part(F, 0, n)
           m == IF a < e THEN e - a ELSE 0
           q == Part(F, a, m)
           r == SubSeq(p, a + 1, e)
<1>1. m \in Nat OBVIOUS
<1>2. p \in Seq(S) /\ Len(p) = n /\ \A k \in 1 .. n : p[k] = F[0 + k - 1] BY PartIs
<1> HIDE DEF m
<1>3. q \in Seq(S) /\ Len(q) = m /\ \A k \in 1 .. m : q[k] = F[a + k - 1] BY <1>1, PartIs
<1> HIDE DEF p, q
<1>4. \A i \in a + 1 .. e : p[i] \in S BY <1>2
<1>5. /\ r \in Seq(S) /\ Len(r) = (IF a + 1 <= e THEN e - (a + 1) + 1 ELSE 0)
      /\ \A i \in 1 .. e - (a + 1) + 1 : r[i] = p[a + 1 + i - 1]
  <2>1. a + 1 \in Int /\ e \in Int OBVIOUS
  <2>2. QED BY <1>4, <2>1, SubSeqProperties
<1> HIDE DEF r
<1>6. Len(r) = Len(q) BY <1>3, <1>5 DEF m
<1>7. ASSUME NEW i \in 1 .. Len(r) PROVE r[i] = q[i]
  <2>1. i \in 1 .. m /\ i \in 1 .. e - (a + 1) + 1 /\ m = e - a BY <1>3, <1>5, <1>6 DEF m
  <2>2. r[i] = p[a + i] BY <1>5, <2>1
  <2>3. a + i \in 1 .. n /\ 0 + (a + i) - 1 = a + i - 1 BY <2>1
  <2>4. p[a + i] = F[0 + (a + i) - 1] BY <1>2, <2>3
  <2>5. QED BY <1>3, <2>1, <2>2, <2>3, <2>4
<1>8. r = q BY <1>3, <1>5, <1>6, <1>7, SeqEqual
<1>9. QED BY <1>8 DEF r, q, p, m

\* ReadsTrue: sfs_io_nolock, cutting a request into pieces at block boundaries
\* and looking every block up, returns the cells of the file from the handle's
\* position on.
THEOREM ReadsAlwaysTrue == ASSUME ~WholeBlocks PROVE Spec => []ReadsTrue
<1>1. SInv => ReadsTrue
  <2> SUFFICES ASSUME SInv, NEW h \in Handles, file[h] # None, NEW n \in Lengths(file[h].pos),
                      sfs_read(Start(sin[file[h].node]), file[h].pos, n).ret = "ok"
               PROVE  sfs_read(Start(sin[file[h].node]), file[h].pos, n).got =
                        SubSeq(Contents(Din(file[h].node)), file[h].pos + 1,
                               Min({file[h].pos + n, Len(Contents(Din(file[h].node)))}))
    BY DEF ReadsTrue
  <2> DEFINE f == file[h].node
             s == sin[f]
             x == Start(s)
             a == file[h].pos
             O == Foreign(others, disk, Inodes, f)
             st == sfs_read(x, a, n)
             d == Din(f)
             size == d.size
             F == Data(disk, d)
             e == Reach(a, n, size)
  <2>1. Types /\ Maps /\ Sizes /\ Saved /\ Counts BY DEF SInv
  <2>2. f \in Files /\ s \in MemInode /\ s # None /\ a \in Nat BY <2>1, OpenIsLoaded
  <2>3. s.din = d BY <2>2 DEF Din
  <2>4. n \in Nat \ {0} /\ n <= SFS_BLKSIZE /\ (n < SFS_BLKSIZE \/ a % SFS_BLKSIZE # 0)
    BY Constants DEF Lengths
  <2>5. st.ret = "ok" OBVIOUS
  <2>6. d = Inodes[f] /\ d \in DiskInode /\ size \in Nat BY <2>1, <2>2, InodesType DEF DiskInode
  <2> HIDE DEF f, s, a, O, d, F
  <2>7. /\ Good(x, O) /\ x.ret = "ok" /\ x.alen = 0 /\ x.got = <<>> /\ x.disk = disk /\ x.din = d
        /\ x.din.size <= SFS_MAX_FILE_SIZE /\ Fits(x.din.size)
    BY <2>1, <2>2, <2>3, <2>6, Begin DEF O, d
  <2> HIDE DEF x
  <2>8. st.got = Part(Data(x.disk, x.din), a, IF a < x.din.size THEN Reach(a, n, x.din.size) - a ELSE 0)
    BY <2>2, <2>4, <2>5, <2>7, ReadIs
  <2>9. st.got = Part(F, a, IF a < size THEN e - a ELSE 0) BY <2>7, <2>8 DEF F
  <2>10. F \in Series(Cells)
    <3>1. Core(freemap, disk, d, O) BY <2>1, <2>2, <2>6 DEF Maps, O
    <3>2. Fits(d.size) BY <2>7
    <3>3. QED BY <3>1, <3>2, DataType DEF F
  <2>11. e \in Nat /\ e <= size /\ (a < size <=> a < e) BY <2>2, <2>4, <2>6 DEF Reach
  <2>12. Contents(d) = Part(F, 0, size) BY <2>6, ContentsAre DEF F
  <2>13. Len(Contents(d)) = size BY <2>6, <2>10, <2>12, PartIs
  <2>14. Min({a + n, size}) = e
    <3> DEFINE T == {a + n, size}
    <3>1. T \in SUBSET Nat /\ T # {} BY <2>2, <2>4, <2>6
    <3>2. Min(T) \in T /\ \A y \in T : Min(T) <= y
      <4> HIDE DEF T
      <4>1. QED BY <3>1, MinIs
    <3> DEFINE u == Min(T)
    <3>3. (u = a + n \/ u = size) /\ u <= a + n /\ u <= size BY <3>2
    <3> HIDE DEF u
    <3>4. u = e BY <2>2, <2>4, <2>6, <3>3 DEF Reach
    <3>5. QED BY <3>4 DEF u
  <2> HIDE DEF e, st
  <2>15. SubSeq(Part(F, 0, size), a + 1, e) = Part(F, a, IF a < e THEN e - a ELSE 0)
    <3> HIDE DEF size
    <3>1. QED BY <2>2, <2>6, <2>10, <2>11, SubPart
  <2>16. st.got = SubSeq(Contents(d), a + 1, Min({a + n, Len(Contents(d))}))
    BY <2>9, <2>11, <2>12, <2>13, <2>14, <2>15
  <2>17. QED BY <2>16 DEF st, d, a, x, s, f
<1>2. QED BY <1>1, AlwaysSound, PTL

\* The slot of place k of file f.
SlotAt(f, k) ==
  LET b == At(disk, Inodes[f], k)
  IN  IF k = -1 THEN <<f, "indirect", 0, b>>
      ELSE IF k < SFS_NDIRECT THEN <<f, "direct", k, b>> ELSE <<f, "entry", k - SFS_NDIRECT, b>>

LEMMA SlotsAre ==
  ASSUME Types, Maps, NEW f \in Files
  PROVE  Slots(f) = {SlotAt(f, k) : k \in {m \in Places : At(disk, Inodes[f], m) # 0}}
<1> DEFINE d == Inodes[f]
           A(k) == At(disk, d, k)
           D == {<<f, "direct", i, d.direct[i]>> : i \in 0 .. SFS_NDIRECT - 1}
           E == IF d.indirect = 0 THEN {} ELSE {<<f, "entry", i, disk[d.indirect][i]>> : i \in Offsets}
           I == <<f, "indirect", 0, d.indirect>>
           T == {SlotAt(f, k) : k \in {m \in Places : A(m) # 0}}
<1>1. d = Din(f) /\ d \in DiskInode BY InodesType
<1>2. DOMAIN d.direct = 0 .. SFS_NDIRECT - 1 /\ d.indirect \in Blocks BY <1>1 DEF DiskInode
<1>3. DOMAIN disk[d.indirect] = Offsets
  <2>1. disk \in Disks BY DEF Maps, Core
  <2>2. disk[d.indirect] \in [Offsets -> Cells] BY <1>2, <2>1 DEF Disks
  <2>3. QED BY <2>2
<1>4. Slots(f) = {s \in D \cup {I} \cup E : s[4] # 0} BY <1>1, <1>2, <1>3 DEF Slots
<1>c. SFS_NDIRECT \in Nat /\ SFS_NDIRECT > 0 /\ SFS_BLKSIZE \in Nat /\ SFS_BLKSIZE > 0 BY Constants
<1>5. A(-1) = d.indirect /\ -1 \in Places /\ SlotAt(f, -1) = I
  BY <1>c DEF At, Places, MaxBlocks, SlotAt
<1>6. ASSUME NEW i \in 0 .. SFS_NDIRECT - 1
      PROVE  i \in Places /\ A(i) = d.direct[i] /\ SlotAt(f, i) = <<f, "direct", i, d.direct[i]>>
  BY <1>c DEF At, Places, MaxBlocks, SlotAt
<1>7. ASSUME NEW i \in Offsets, d.indirect # 0
      PROVE  /\ SFS_NDIRECT + i \in Places /\ A(SFS_NDIRECT + i) = disk[d.indirect][i]
             /\ SlotAt(f, SFS_NDIRECT + i) = <<f, "entry", i, disk[d.indirect][i]>>
  <2>1. i \in Nat /\ i < SFS_BLKSIZE BY <1>c DEF Offsets
  <2>2. SFS_NDIRECT + i \in Places BY <1>c, <2>1 DEF Places, MaxBlocks
  <2> DEFINE k == SFS_NDIRECT + i
  <2>3. k # -1 /\ ~(k < SFS_NDIRECT) /\ k - SFS_NDIRECT = i BY <1>c, <2>1
  <2> HIDE DEF k
  <2>4. A(k) = disk[d.indirect][i] BY <1>7, <2>3 DEF At
  <2>5. SlotAt(f, k) = <<f, "entry", i, disk[d.indirect][i]>>
    <3>1. SlotAt(f, k) = <<f, "entry", k - SFS_NDIRECT, A(k)>> BY <2>3 DEF SlotAt
    <3>2. QED BY <2>3, <2>4, <3>1
  <2>6. QED BY <2>2, <2>4, <2>5 DEF k
<1>8. ASSUME NEW k \in Places PROVE k = -1 \/ k \in 0 .. SFS_NDIRECT - 1 \/ \E i \in Offsets : k = SFS_NDIRECT + i
  <2>1. k \in Int /\ k >= -1 /\ k < SFS_NDIRECT + SFS_BLKSIZE BY <1>c DEF Places, MaxBlocks
  <2>2. CASE k >= SFS_NDIRECT
    <3>1. k - SFS_NDIRECT \in Offsets /\ k = SFS_NDIRECT + (k - SFS_NDIRECT) BY <1>c, <2>1, <2>2 DEF Offsets
    <3>2. QED BY <3>1
  <2>3. CASE k < SFS_NDIRECT BY <1>c, <2>1, <2>3
  <2>4. QED BY <1>c, <2>1, <2>2, <2>3
<1>9. \A k : SlotAt(f, k)[4] = A(k) BY DEF SlotAt
<1>10. ASSUME NEW i \in Offsets, d.indirect = 0 PROVE A(SFS_NDIRECT + i) = 0
  <2>1. i \in Nat BY <1>c DEF Offsets
  <2>2. SFS_NDIRECT + i # -1 /\ ~(SFS_NDIRECT + i < SFS_NDIRECT) BY <1>c, <2>1
  <2>3. QED BY <1>10, <2>2 DEF At
<1>11. ASSUME NEW s \in D \cup {I} \cup E, s[4] # 0 PROVE s \in T
  <2>1. CASE s \in D
    <3>1. PICK i \in 0 .. SFS_NDIRECT - 1 : s = <<f, "direct", i, d.direct[i]>> BY <2>1
    <3>2. i \in Places /\ s = SlotAt(f, i) BY <3>1, <1>6
    <3>3. QED BY <3>2, <1>9, <1>11
  <2>2. CASE s = I BY <2>2, <1>5, <1>9, <1>11
  <2>3. CASE s \in E
    <3>1. d.indirect # 0 BY <2>3
    <3>2. PICK i \in Offsets : s = <<f, "entry", i, disk[d.indirect][i]>> BY <2>3, <3>1
    <3>3. SFS_NDIRECT + i \in Places /\ s = SlotAt(f, SFS_NDIRECT + i) BY <3>1, <3>2, <1>7
    <3>4. QED BY <3>3, <1>9, <1>11
  <2>4. QED BY <2>1, <2>2, <2>3
<1>12. ASSUME NEW k \in Places, A(k) # 0 PROVE SlotAt(f, k) \in D \cup {I} \cup E /\ SlotAt(f, k)[4] # 0
  <2>1. CASE k = -1 BY <2>1, <1>5, <1>9, <1>12
  <2>2. CASE k \in 0 .. SFS_NDIRECT - 1 BY <2>2, <1>6, <1>9, <1>12
  <2>3. CASE \E i \in Offsets : k = SFS_NDIRECT + i
    <3>1. PICK i \in Offsets : k = SFS_NDIRECT + i BY <2>3
    <3>2. d.indirect # 0 BY <3>1, <1>10, <1>12
    <3>3. SlotAt(f, k) = <<f, "entry", i, disk[d.indirect][i]>> BY <3>1, <3>2, <1>7
    <3>4. SlotAt(f, k) \in E BY <3>2, <3>3
    <3>5. QED BY <3>4, <1>9, <1>12
  <2>4. QED BY <2>1, <2>2, <2>3, <1>8
<1> HIDE DEF D, E, I, A
<1>13. QED BY <1>4, <1>11, <1>12 DEF A, d

\* Slots with the same block are the same slot.
LEMMA SlotsDiffer ==
  ASSUME Types, Maps, NEW f \in Files, NEW g \in Files, NEW j \in Places, NEW k \in Places,
         At(disk, Inodes[f], j) = At(disk, Inodes[g], k), At(disk, Inodes[f], j) # 0
  PROVE  f = g /\ j = k
<1>1. Core(freemap, disk, Inodes[f], Foreign(others, disk, Inodes, f)) BY DEF Maps
<1>2. CASE f = g BY <1>1, <1>2, AtType
<1>3. CASE f # g
  <2>1. At(disk, Inodes[g], k) \in Owned(disk, Inodes[g]) BY DEF Owned
  <2>2. At(disk, Inodes[g], k) \in Foreign(others, disk, Inodes, f) BY <1>3, <2>1 DEF Foreign
  <2>3. At(disk, Inodes[f], j) \notin Foreign(others, disk, Inodes, f) BY <1>1, AtType
  <2>4. QED BY <2>2, <2>3
<1>4. QED BY <1>2, <1>3

\* BlocksExact: every block is reserved, or free, or of a file nobody opens, or
\* in exactly one place of one file, also after an allocation that failed half
\* way (sfs_block_alloc, sfs_block_free and their callers in sfs_inode.c).
THEOREM BlocksAlwaysExact == ASSUME ~WholeBlocks PROVE Spec => []BlocksExact
<1>1. SInv => BlocksExact
  <2> SUFFICES ASSUME SInv PROVE BlocksExact OBVIOUS
  <2> DEFINE A(f, k) == At(disk, Inodes[f], k)
             slots == UNION {Slots(f) : f \in Files}
             used == {s[4] : s \in slots}
             M == [s \in slots |-> s[4]]
  <2>1. Types /\ Maps BY DEF SInv
  <2>2. \A f \in Files : Core(freemap, disk, Inodes[f], Foreign(others, disk, Inodes, f)) BY <2>1 DEF Maps
  <2>3. \A s : s \in slots <=> \E f \in Files, k \in Places : A(f, k) # 0 /\ s = SlotAt(f, k)
    <3>1. \A f \in Files : \A s : s \in Slots(f) <=> \E k \in Places : A(f, k) # 0 /\ s = SlotAt(f, k)
      BY <2>1, SlotsAre
    <3> HIDE DEF A
    <3>2. QED BY <3>1
  <2>4. \A f, k : SlotAt(f, k)[4] = A(f, k) BY DEF SlotAt
  <2>5. \A b : b \in used <=> \E f \in Files, k \in Places : b # 0 /\ b = A(f, k)
    <3> HIDE DEF slots, A
    <3>1. QED BY <2>3, <2>4
  <2>6. \A f \in Files, k \in Places : A(f, k) \in Blocks BY <2>2, AtType
  <2>7. used \subseteq Blocks
    <3> HIDE DEF used, A
    <3>1. QED BY <2>5, <2>6
  <2>8. IsFiniteSet(used)
    <3>1. NBlocks \in Nat BY Constants
    <3>2. IsFiniteSet(Blocks) BY <3>1, FS_Interval DEF Blocks
    <3> HIDE DEF used
    <3>3. QED BY <2>7, <3>2, FS_Subset
  <2>9. ASSUME NEW s \in slots, NEW t \in slots, s[4] = t[4] PROVE s = t
    <3> HIDE DEF slots, A
    <3>1. PICK f \in Files, j \in Places : A(f, j) # 0 /\ s = SlotAt(f, j) BY <2>3
    <3>2. PICK g \in Files, k \in Places : A(g, k) # 0 /\ t = SlotAt(g, k) BY <2>3
    <3>3. A(f, j) = A(g, k) BY <3>1, <3>2, <2>4, <2>9
    <3>4. f = g /\ j = k BY <2>1, <3>1, <3>3, SlotsDiffer DEF A
    <3>5. QED BY <3>1, <3>2, <3>4
  <2>10. Cardinality(used) = Cardinality(slots)
    <3>1. M \in [slots -> used] OBVIOUS
    <3>2. \A s \in slots : M[s] = s[4] OBVIOUS
    <3>3. \A b \in used : \E s \in slots : M[s] = b OBVIOUS
    <3> HIDE DEF M, slots, used
    <3>4. M \in Injection(slots, used) BY <3>1, <3>2, <2>9 DEF Injection, IsInjective
    <3>5. M \in Surjection(slots, used) BY <3>1, <3>3 DEF Surjection
    <3>6. QED BY <2>8, <3>4, <3>5, FS_Injection
  <2>11. ASSUME NEW b \in used PROVE b \notin freemap /\ b \notin others /\ b \notin Reserved
    <3> HIDE DEF used, A
    <3>1. PICK f \in Files, k \in Places : b # 0 /\ b = A(f, k) BY <2>5
    <3>2. b \notin freemap /\ b \notin Foreign(others, disk, Inodes, f) BY <2>2, <3>1, AtType DEF A
    <3>3. QED BY <3>2 DEF Foreign
  <2>12. ASSUME NEW b \in Blocks PROVE b \in used \/ b \in freemap \/ b \in others \/ b \in Reserved
    <3>1. PICK f \in Files : TRUE BY SfsAssumption
    <3>2. Sound(freemap, MapOf(disk, Inodes[f]), Foreign(others, disk, Inodes, f)) BY <2>2 DEF Core
    <3>3. b \in freemap \/ b \in Foreign(others, disk, Inodes, f) \/ \E k \in Places : MapOf(disk, Inodes[f])[k] = b
      BY <3>2 DEF Sound
    <3>4. CASE b = 0 BY <3>4, Constants
    <3>5. CASE b # 0
      <4> HIDE DEF used, A
      <4>1. CASE \E k \in Places : MapOf(disk, Inodes[f])[k] = b
        <5>1. PICK k \in Places : MapOf(disk, Inodes[f])[k] = b BY <4>1
        <5>2. A(f, k) = b BY <5>1 DEF MapOf, A
        <5>3. QED BY <5>2, <3>5, <2>5
      <4>2. CASE b \in Foreign(others, disk, Inodes, f)
        <5>1. b \in Reserved \/ b \in others \/ \E g \in Files \ {f} : b \in Owned(disk, Inodes[g])
          BY <4>2 DEF Foreign
        <5>2. ASSUME NEW g \in Files, b \in Owned(disk, Inodes[g]) PROVE b \in used
          <6>1. PICK k \in Places : b = A(g, k) BY <5>2 DEF Owned, A
          <6>2. QED BY <6>1, <3>5, <2>5
        <5>3. QED BY <5>1, <5>2
      <4>3. QED BY <3>3, <4>1, <4>2
    <3>6. QED BY <3>4, <3>5
  <2>13. freemap \subseteq Blocks /\ others \subseteq Blocks /\ Reserved \subseteq Blocks
    <3>1. PICK f \in Files : TRUE BY SfsAssumption
    <3>2. freemap \subseteq Blocks BY <2>2, AtType
    <3>3. QED BY <3>2, <2>1, SfsAssumption DEF Types
  <2>14. BlocksExact <=> /\ Cardinality(used) = Cardinality(slots)
                         /\ used \cap (freemap \cup others \cup Reserved) = {}
                         /\ used \cup freemap \cup others \cup Reserved = Blocks
    BY DEF BlocksExact
  <2> HIDE DEF used, slots
  <2>15. used \cap (freemap \cup others \cup Reserved) = {} BY <2>11
  <2>16. used \cup freemap \cup others \cup Reserved = Blocks BY <2>7, <2>12, <2>13
  <2>17. QED BY <2>10, <2>14, <2>15, <2>16
<1>2. QED BY <1>1, AlwaysSound, PTL

-----------------------------------------------------------------------------
(* The file store.                                                         *)

\* No file in memory is longer than its blocks.  The code can break this: a
\* write behind the end that finds no block still moves the end to where it was
\* to begin, and sfs_bmap_load_nolock does not mark the inode dirty when all it
\* has changed is the number of its blocks.
NoShortFile == \A f \in Files : sin[f] # None => Ceil(sin[f].din.size) <= sin[f].din.blocks

\* Cells behind the end of the file are zero.
Zeroed(dk, d) ==
  \A k \in DataPlaces, j \in Offsets : ~Covers(0, d.size, k, j) => CellAt(dk, d, k, j) = 0

ZeroBeyond == \A f \in Files : Zeroed(disk, Inodes[f])

SavedLong == \A f \in Files : Ceil(dinode[f].size) <= dinode[f].blocks

LEMMA CoversIs ==
  ASSUME NEW a \in Nat, NEW n \in Nat, NEW i \in Nat
  PROVE  Covers(a, n, i \div SFS_BLKSIZE, i % SFS_BLKSIZE) <=> (a <= i /\ i < a + n)
<1>1. ASSUME Covers(a, n, i \div SFS_BLKSIZE, i % SFS_BLKSIZE) PROVE a <= i /\ i < a + n
  <2>1. PICK t \in 0 .. n - 1 : (a + t) \div SFS_BLKSIZE = i \div SFS_BLKSIZE /\ (a + t) % SFS_BLKSIZE = i % SFS_BLKSIZE
    BY <1>1 DEF Covers
  <2>2. a + t \in Nat OBVIOUS
  <2>3. a + t = i BY <2>1, <2>2, Division
  <2>4. QED BY <2>3
<1>2. ASSUME a <= i, i < a + n PROVE Covers(a, n, i \div SFS_BLKSIZE, i % SFS_BLKSIZE)
  <2> DEFINE t == i - a
  <2>1. t \in 0 .. n - 1 /\ a + t = i BY <1>2
  <2> HIDE DEF t
  <2>2. QED BY <2>1 DEF Covers
<1>3. QED BY <1>1, <1>2

\* What is written up to a + n is before the end when the end is there.
LEMMA CoversWithin ==
  ASSUME NEW a \in Nat, NEW n \in Nat, NEW e \in Nat, NEW k, NEW j, Covers(a, n, k, j), a + n <= e
  PROVE  Covers(0, e, k, j)
<1>1. PICK t \in 0 .. n - 1 : (a + t) \div SFS_BLKSIZE = k /\ (a + t) % SFS_BLKSIZE = j BY DEF Covers
<1> DEFINE u == a + t
<1>2. u \in 0 .. e - 1 /\ 0 + u = u OBVIOUS
<1>3. u \div SFS_BLKSIZE = k /\ u % SFS_BLKSIZE = j BY <1>1
<1> HIDE DEF u
<1>4. QED BY <1>2, <1>3 DEF Covers

LEMMA DataCell ==
  ASSUME NEW dk, NEW d, d.size \in Nat, Zeroed(dk, d), NEW i \in Nat, i \div SFS_BLKSIZE \in DataPlaces
  PROVE  Data(dk, d)[i] = CellAt(dk, d, i \div SFS_BLKSIZE, i % SFS_BLKSIZE)
<1> DEFINE k == i \div SFS_BLKSIZE
           j == i % SFS_BLKSIZE
<1>1. k \in DataPlaces /\ j \in Offsets BY Division
<1>2. CASE i < d.size BY <1>2 DEF Data, Cell
<1>3. CASE ~(i < d.size)
  <2>1. Data(dk, d)[i] = 0 BY <1>3 DEF Data
  <2>2. ~Covers(0, d.size, k, j) BY <1>3, CoversIs
  <2>3. QED BY <1>1, <2>1, <2>2 DEF Zeroed
<1>4. QED BY <1>2, <1>3

LEMMA EffectZeroed ==
  ASSUME NEW x, NEW r, x.din \in DiskInode, r.din \in DiskInode, Zeroed(x.disk, x.din),
         Ceil(x.din.size) <= x.din.blocks, Effect(x, r)
  PROVE  Zeroed(r.disk, r.din)
<1> DEFINE m == x.din.size
           m2 == r.din.size
<1>0. m \in Nat /\ m2 \in Nat /\ x.din.blocks \in Nat BY DEF DiskInode
<1> SUFFICES ASSUME NEW k \in DataPlaces, NEW j \in Offsets, ~Covers(0, m2, k, j)
             PROVE  CellAt(r.disk, r.din, k, j) = 0
  BY DEF Zeroed
<1>1. ~Covers(0, m, k, j) => CellAt(x.disk, x.din, k, j) = 0 BY DEF Zeroed
<1>2. CASE Unchanged(x, r) BY <1>1, <1>2 DEF Unchanged, SameCells
<1>a. m <= m2 => ~Covers(0, m, k, j)
  <2>1. 0 \in Nat /\ (m <= m2 => 0 + m <= m2) BY <1>0
  <2> HIDE DEF m, m2
  <2>2. QED BY <1>0, <2>1, CoversWithin
<1>3. CASE \E a \in 0 .. SFS_MAX_FILE_SIZE, n \in 0 .. SFS_BLKSIZE, v \in Marks : Stored(x, r, a, n, v)
  <2>1. PICK a \in 0 .. SFS_MAX_FILE_SIZE, n \in 0 .. SFS_BLKSIZE, v \in Marks : Stored(x, r, a, n, v) BY <1>3
  <2>2. a \in Nat /\ n \in Nat BY Constants
  <2>3. m2 = (IF a + n > m THEN a + n ELSE m) BY <2>1 DEF Stored
  <2>4. m <= m2 /\ a + n <= m2 BY <1>0, <2>2, <2>3
  <2>5. ~Covers(a, n, k, j)
    <3> HIDE DEF m2
    <3>1. QED BY <1>0, <2>2, <2>4, CoversWithin DEF m2
  <2>6. QED BY <1>1, <1>a, <2>1, <2>4, <2>5 DEF Stored
<1>4. CASE Longer(x, r)
  <2>1. m <= m2 BY <1>0, <1>4 DEF Longer
  <2>2. CellAt(x.disk, x.din, k, j) = 0 BY <1>1, <1>a, <2>1
  <2>3. QED BY <1>4, <2>2 DEF Longer
<1>5. CASE Emptied(x, r)
  <2>1. CASE k < x.din.blocks BY <1>5, <2>1 DEF Emptied
  <2>2. CASE ~(k < x.din.blocks)
    <3>1. ~Covers(0, m, k, j)
      <4>1. ASSUME NEW t \in 0 .. m - 1, (0 + t) \div SFS_BLKSIZE = k PROVE FALSE
        <5>1. t \in Nat /\ t < m /\ 0 + t = t BY <1>0
        <5>2. k < Ceil(m) BY <1>0, <4>1, <5>1, CeilIs
        <5>3. k \in Nat /\ Ceil(m) \in Nat BY <1>0, CeilIs, Constants
        <5>4. QED BY <1>0, <2>2, <5>2, <5>3
      <4>2. QED BY <4>1 DEF Covers
    <3>2. QED BY <1>1, <1>5, <2>2, <3>1 DEF Emptied
  <2>3. QED BY <2>1, <2>2
<1>6. QED BY <1>2, <1>3, <1>4, <1>5 DEF Effect

\* What becomes of the cells, position by position.
LEMMA EffectData ==
  ASSUME NEW x, NEW r, x.din \in DiskInode, r.din \in DiskInode,
         Zeroed(x.disk, x.din), Zeroed(r.disk, r.din), Fits(r.din.size), Effect(x, r)
  PROVE  LET m == x.din.size
             m2 == r.din.size
             F == Data(x.disk, x.din)
             G == Data(r.disk, r.din)
         IN  \/ m2 = 0
             \/ m2 >= m /\ \A i \in 0 .. m2 - 1 : G[i] = F[i]
             \/ \E a \in 0 .. SFS_MAX_FILE_SIZE, n \in 0 .. SFS_BLKSIZE, v \in Marks :
                  /\ m2 = IF a + n > m THEN a + n ELSE m
                  /\ \A i \in 0 .. m2 - 1 : G[i] = IF a <= i /\ i < a + n THEN v ELSE F[i]
<1> DEFINE m == x.din.size
           m2 == r.din.size
           F == Data(x.disk, x.din)
           G == Data(r.disk, r.din)
           k(i) == i \div SFS_BLKSIZE
           j(i) == i % SFS_BLKSIZE
<1>0. m \in Nat /\ m2 \in Nat BY DEF DiskInode
<1>1. ASSUME NEW i \in 0 .. m2 - 1
      PROVE  /\ i \in Nat /\ i < m2 /\ k(i) \in DataPlaces /\ j(i) \in Offsets /\ k(i) < Ceil(m2)
             /\ F[i] = CellAt(x.disk, x.din, k(i), j(i)) /\ G[i] = CellAt(r.disk, r.din, k(i), j(i))
  <2>1. i \in Nat /\ i < m2 /\ k(i) \in DataPlaces BY <1>0 DEF Fits
  <2>2. j(i) \in Offsets /\ k(i) < Ceil(m2) BY <1>0, <2>1, Division, CeilIs
  <2>3. F[i] = CellAt(x.disk, x.din, k(i), j(i)) BY <1>0, <2>1, DataCell
  <2>4. G[i] = CellAt(r.disk, r.din, k(i), j(i)) BY <1>0, <2>1, DataCell
  <2>5. QED BY <2>1, <2>2, <2>3, <2>4
<1> HIDE DEF F, G
<1>2. CASE Unchanged(x, r)
  <2>1. m2 >= m BY <1>0, <1>2 DEF Unchanged
  <2>2. \A i \in 0 .. m2 - 1 : G[i] = F[i] BY <1>1, <1>2 DEF Unchanged, SameCells
  <2>3. QED BY <2>1, <2>2 DEF F, G
<1>3. CASE Longer(x, r)
  <2>1. m2 >= m BY <1>0, <1>3 DEF Longer
  <2>2. ASSUME NEW i \in 0 .. m2 - 1 PROVE G[i] = F[i]
    <3>1. ~(k(i) >= Ceil(m2))
      <4>1. k(i) \in Nat /\ Ceil(m2) \in Nat BY <1>0, <1>1, CeilIs, Constants
      <4>2. QED BY <1>1, <4>1
    <3>2. QED BY <1>1, <1>3, <3>1 DEF Longer
  <2>3. QED BY <2>1, <2>2 DEF F, G
<1>4. CASE Emptied(x, r) BY <1>4 DEF Emptied
<1>5. CASE \E a \in 0 .. SFS_MAX_FILE_SIZE, n \in 0 .. SFS_BLKSIZE, v \in Marks : Stored(x, r, a, n, v)
  <2>1. PICK a \in 0 .. SFS_MAX_FILE_SIZE, n \in 0 .. SFS_BLKSIZE, v \in Marks : Stored(x, r, a, n, v) BY <1>5
  <2>2. a \in Nat /\ n \in Nat BY Constants
  <2>3. m2 = (IF a + n > m THEN a + n ELSE m) BY <2>1 DEF Stored
  <2>4. ASSUME NEW i \in 0 .. m2 - 1 PROVE G[i] = IF a <= i /\ i < a + n THEN v ELSE F[i]
    <3>1. Covers(a, n, k(i), j(i)) <=> (a <= i /\ i < a + n) BY <1>1, <2>2, CoversIs
    <3>2. CellAt(r.disk, r.din, k(i), j(i)) = IF Covers(a, n, k(i), j(i)) THEN v ELSE CellAt(x.disk, x.din, k(i), j(i))
      BY <1>1, <2>1 DEF Stored
    <3>3. QED BY <1>1, <3>1, <3>2
  <2>5. QED BY <2>3, <2>4 DEF F, G
<1>6. QED BY <1>2, <1>3, <1>4, <1>5 DEF Effect

\* The contents of a file, written out and as a stretch of its cells.
Text(dk, d) == Part(Data(dk, d), 0, d.size)

Spelled(dk, d) ==
  [i \in 1 .. d.size |->
     LET b == IF (i - 1) \div SFS_BLKSIZE < SFS_NDIRECT THEN d.direct[(i - 1) \div SFS_BLKSIZE]
              ELSE IF d.indirect = 0 THEN 0 ELSE dk[d.indirect][(i - 1) \div SFS_BLKSIZE - SFS_NDIRECT]
     IN  IF b = 0 THEN 0 ELSE dk[b][(i - 1) % SFS_BLKSIZE]]

LEMMA SpelledIs ==
  ASSUME NEW dk, NEW d, d.size \in Nat
  PROVE  Spelled(dk, d) = Text(dk, d)
<1> DEFINE F == Data(dk, d)
           B(i) == IF (i - 1) \div SFS_BLKSIZE < SFS_NDIRECT THEN d.direct[(i - 1) \div SFS_BLKSIZE]
                   ELSE IF d.indirect = 0 THEN 0 ELSE dk[d.indirect][(i - 1) \div SFS_BLKSIZE - SFS_NDIRECT]
           c(i) == IF B(i) = 0 THEN 0 ELSE dk[B(i)][(i - 1) % SFS_BLKSIZE]
<1>1. ASSUME NEW i \in 1 .. d.size PROVE c(i) = F[0 + i - 1]
  <2> DEFINE m == i - 1
             k == m \div SFS_BLKSIZE
             j == m % SFS_BLKSIZE
  <2>1. m \in Nat /\ m < d.size /\ 0 + i - 1 = m OBVIOUS
  <2>2. k \in Nat /\ k # -1 BY <2>1, Division
  <2>3. F[m] = Cell(dk, d, m) BY <2>1 DEF Data
  <2>4. B(i) = At(dk, d, k) BY <2>2 DEF At
  <2>5. c(i) = CellAt(dk, d, k, j) BY <2>4 DEF CellAt
  <2>6. QED BY <2>1, <2>3, <2>5 DEF Cell
<1>2. Spelled(dk, d) = [i \in 1 .. d.size |-> c(i)] BY DEF Spelled
<1> HIDE DEF c, F
<1>3. QED BY <1>1, <1>2 DEF Part, Text, F

LEMMA TextNow ==
  ASSUME Types
  PROVE  \A f \in Files : Contents(Din(f)) = Text(disk, Inodes[f])
<1> SUFFICES ASSUME NEW f \in Files PROVE Contents(Din(f)) = Text(disk, Inodes[f]) OBVIOUS
<1>1. Inodes[f] = Din(f) /\ Inodes[f].size \in Nat BY InodesType DEF DiskInode
<1>2. Contents(Din(f)) = Spelled(disk, Din(f)) BY DEF Contents, BlockOf, Spelled
<1>3. QED BY <1>1, <1>2, SpelledIs

LEMMA TextNext ==
  ASSUME Types'
  PROVE  \A f \in Files : Contents(Din(f))' = Text(disk', Inodes'[f])
<1> SUFFICES ASSUME NEW f \in Files PROVE Contents(Din(f))' = Text(disk', Inodes'[f]) OBVIOUS
<1> DEFINE d == Din(f)'
<1>1. Inodes'[f] = d BY DEF Inodes
<1>2. d.size \in Nat BY DEF Types, Din, MemInode, DiskInode
<1>3. Contents(Din(f))' = Spelled(disk', d) BY DEF Contents, BlockOf, Spelled
<1> HIDE DEF d
<1>4. QED BY <1>1, <1>2, <1>3, SpelledIs

LEMMA SameText ==
  ASSUME NEW dk, NEW d, NEW dk2, NEW e, d.size \in Nat, e.size = d.size, Fits(d.size), SameCells(dk, d, dk2, e)
  PROVE  Text(dk2, e) = Text(dk, d)
<1> DEFINE F == Data(dk, d)
           G == Data(dk2, e)
<1>1. ASSUME NEW k \in 1 .. d.size PROVE G[0 + k - 1] = F[0 + k - 1]
  <2> DEFINE i == 0 + k - 1
  <2>1. i \in Nat /\ i < d.size /\ i \in 0 .. d.size - 1 OBVIOUS
  <2> HIDE DEF i
  <2>2. i \div SFS_BLKSIZE \in DataPlaces /\ i % SFS_BLKSIZE \in Offsets BY <2>1, Division DEF Fits
  <2>3. Cell(dk2, e, i) = Cell(dk, d, i) BY <2>2 DEF Cell, SameCells
  <2>4. G[i] = F[i] BY <2>1, <2>3 DEF Data
  <2>5. QED BY <2>4 DEF i
<1> HIDE DEF F, G
<1>2. QED BY <1>1 DEF Text, Part, F, G

\* The operators of FileStore on stretches of cells.
LEMMA PaddedIs ==
  ASSUME NEW F \in Series(Cells), NEW m \in Nat, NEW n \in Nat, \A i \in Nat : i >= m => F[i] = 0
  PROVE  Store!Padded(Part(F, 0, m), n) = Part(F, 0, IF n > m THEN n ELSE m)
<1> DEFINE p == Part(F, 0, m)
           l == IF n > m THEN n ELSE m
           c(i) == IF i <= m THEN p[i] ELSE 0
<1>1. Len(p) = m /\ \A k \in 1 .. m : p[k] = F[0 + k - 1] BY PartIs
<1> HIDE DEF p
<1>2. Store!Padded(p, n) = [i \in 1 .. l |-> c(i)] BY <1>1 DEF Store!Padded
<1>3. ASSUME NEW i \in 1 .. l PROVE c(i) = F[0 + i - 1]
  <2>1. CASE i <= m BY <1>1, <2>1
  <2>2. CASE ~(i <= m)
    <3>1. 0 + i - 1 \in Nat /\ 0 + i - 1 >= m BY <2>2
    <3>2. QED BY <2>2, <3>1
  <2>3. QED BY <2>1, <2>2
<1> HIDE DEF c, l
<1>4. Store!Padded(p, n) = Part(F, 0, l) BY <1>2, <1>3 DEF Part
<1>5. QED BY <1>4 DEF p, l

\* v, n times.
Fill(n, v) == [k \in 1 .. n |-> v]

\* The m2 cells of G are the m cells of F and n times v over them at a.
Overlaid(F, m, G, m2, a, n, v) ==
  /\ m2 = IF a + n > m THEN a + n ELSE m
  /\ \A i \in 0 .. m2 - 1 : G[i] = IF a <= i /\ i < a + n THEN v ELSE F[i]

LEMMA WrittenIs ==
  ASSUME NEW F \in Series(Cells), NEW G \in Series(Cells), NEW m \in Nat, NEW m2 \in Nat,
         NEW a \in Nat, NEW n \in Nat, NEW v, \A i \in Nat : i >= m => F[i] = 0,
         Overlaid(F, m, G, m2, a, n, v)
  PROVE  Part(G, 0, m2) = Store!Written(Part(F, 0, m), a, Fill(n, v))
<1> DEFINE p == Part(F, 0, m)
           s == Fill(n, v)
           long == Part(F, 0, m2)
           c(i) == IF i - a \in 1 .. n THEN s[i - a] ELSE long[i]
<1>1. Len(s) = n /\ \A k \in 1 .. n : s[k] = v BY DEF Fill
<1>a. m2 = (IF a + n > m THEN a + n ELSE m) BY DEF Overlaid
<1>b. \A i \in 0 .. m2 - 1 : G[i] = IF a <= i /\ i < a + n THEN v ELSE F[i] BY DEF Overlaid
<1>2. Store!Padded(p, a + n) = long
  <2>1. a + n \in Nat OBVIOUS
  <2>2. QED BY <1>a, <2>1, PaddedIs
<1>3. Len(long) = m2 /\ \A k \in 1 .. m2 : long[k] = F[0 + k - 1] BY PartIs
<1> HIDE DEF p, s, long
<1>4. Store!Written(p, a, s) = [i \in 1 .. m2 |-> c(i)] BY <1>1, <1>2, <1>3 DEF Store!Written
<1>5. ASSUME NEW i \in 1 .. m2 PROVE c(i) = G[0 + i - 1]
  <2> DEFINE q == 0 + i - 1
  <2>1. q \in 0 .. m2 - 1 /\ i - a = q - a + 1 OBVIOUS
  <2>2. G[q] = IF a <= q /\ q < a + n THEN v ELSE F[q] BY <1>b, <2>1
  <2>3. (i - a \in 1 .. n) <=> (a <= q /\ q < a + n) OBVIOUS
  <2>4. CASE i - a \in 1 .. n
    <3>1. c(i) = v BY <1>1, <2>4
    <3>2. G[q] = v BY <2>2, <2>3, <2>4
    <3>3. QED BY <3>1, <3>2
  <2>5. CASE ~(i - a \in 1 .. n)
    <3>1. c(i) = long[i] BY <2>5
    <3>2. long[i] = F[q] BY <1>3
    <3>3. G[q] = F[q] BY <2>2, <2>3, <2>5
    <3>4. QED BY <3>1, <3>2, <3>3
  <2>6. QED BY <2>4, <2>5
<1> HIDE DEF c
<1>6. Store!Written(p, a, s) = Part(G, 0, m2) BY <1>4, <1>5 DEF Part
<1>7. QED BY <1>6 DEF p, s

\* A change of a file is a step of the store on its contents.
LEMMA TextStep ==
  ASSUME NEW x, NEW r, NEW free, NEW free2, NEW O,
         Core(free, x.disk, x.din, O), Fits(x.din.size), Core(free2, r.disk, r.din, O), Fits(r.din.size),
         Zeroed(x.disk, x.din), Zeroed(r.disk, r.din), Effect(x, r)
  PROVE  LET old == Text(x.disk, x.din)
             new == Text(r.disk, r.din)
         IN  \/ new = old
             \/ new = <<>>
             \/ Len(new) > Len(old) /\ new = Store!Padded(old, Len(new))
             \/ \E off \in 0 .. SFS_MAX_FILE_SIZE, n \in 0 .. SFS_BLKSIZE, v \in Marks :
                  new = Store!Written(old, off, [k \in 1 .. n |-> v])
<1> DEFINE m == x.din.size
           m2 == r.din.size
           F == Data(x.disk, x.din)
           G == Data(r.disk, r.din)
           old == Part(F, 0, m)
           new == Part(G, 0, m2)
<1>0. x.din \in DiskInode /\ r.din \in DiskInode /\ m \in Nat /\ m2 \in Nat BY DEF Core, DiskInode
<1>1. F \in Series(Cells) /\ G \in Series(Cells) BY DataType
<1>2. \A i \in Nat : i >= m => F[i] = 0 BY <1>0 DEF Data
<1>3. \/ m2 = 0
      \/ m2 >= m /\ \A i \in 0 .. m2 - 1 : G[i] = F[i]
      \/ \E a \in 0 .. SFS_MAX_FILE_SIZE, n \in 0 .. SFS_BLKSIZE, v \in Marks : Overlaid(F, m, G, m2, a, n, v)
  BY <1>0, EffectData DEF Overlaid
<1> HIDE DEF m, m2, F, G
<1>4. Len(old) = m /\ Len(new) = m2 /\ new \in Seq(Cells) BY <1>0, <1>1, PartIs
<1>5. CASE m2 = 0
  <2>1. new = <<>>
    <3> HIDE DEF new
    <3>1. QED BY <1>4, <1>5
  <2>2. QED BY <2>1 DEF Text, m, m2, F, G
<1>6. CASE m2 >= m /\ \A i \in 0 .. m2 - 1 : G[i] = F[i]
  <2>1. new = Part(F, 0, m2)
    <3>1. \A k \in 1 .. m2 : 0 + k - 1 \in 0 .. m2 - 1 BY <1>0
    <3>2. \A k \in 1 .. m2 : G[0 + k - 1] = F[0 + k - 1] BY <1>6, <3>1
    <3>3. QED BY <3>2 DEF Part
  <2>2. CASE m2 = m BY <2>1, <2>2 DEF Text, m, m2, F, G
  <2>a. m2 = m \/ m2 > m BY <1>0, <1>6
  <2>3. CASE m2 > m
    <3>1. Store!Padded(old, m2) = Part(F, 0, IF m2 > m THEN m2 ELSE m) BY <1>0, <1>1, <1>2, PaddedIs
    <3>2. new = Store!Padded(old, Len(new)) /\ Len(new) > Len(old) BY <1>4, <2>1, <2>3, <3>1
    <3>3. QED BY <3>2 DEF Text, m, m2, F, G
  <2>4. QED BY <2>a, <2>2, <2>3
<1>7. CASE \E a \in 0 .. SFS_MAX_FILE_SIZE, n \in 0 .. SFS_BLKSIZE, v \in Marks : Overlaid(F, m, G, m2, a, n, v)
  <2>1. PICK a \in 0 .. SFS_MAX_FILE_SIZE, n \in 0 .. SFS_BLKSIZE, v \in Marks : Overlaid(F, m, G, m2, a, n, v)
    BY <1>7
  <2>2. a \in Nat /\ n \in Nat BY Constants
  <2>3. new = Store!Written(old, a, Fill(n, v)) BY <1>0, <1>1, <1>2, <2>1, <2>2, WrittenIs
  <2>4. QED BY <2>3 DEF Fill, Text, m, m2, F, G
<1>8. QED BY <1>3, <1>5, <1>6, <1>7

\* The inode on the disk is left alone, or becomes the one in memory.
LEMMA DinodeStep ==
  ASSUME SInv, [Next]_vars, NEW f \in Files
  PROVE  dinode'[f] = dinode[f] \/ (sin[f] # None /\ dinode'[f] = sin[f].din)
<1>0. Types /\ Saved /\ Counts BY DEF SInv
<1>1. CASE dinode' = dinode BY <1>1
<1>2. CASE \E h \in Handles : file_fsync(h)
  <2>1. PICK h \in Handles : file_fsync(h) BY <1>2
  <2> DEFINE g == file[h].node
  <2>2. file[h] # None /\ dinode' = [dinode EXCEPT ![g] = IF sin[g].dirty THEN sin[g].din ELSE dinode[g]]
    BY <2>1 DEF file_fsync, sfs_fsync
  <2>3. g \in Files /\ sin[g] # None BY <1>0, <2>2, OpenIsLoaded
  <2> HIDE DEF g
  <2>4. QED BY <1>0, <2>2, <2>3 DEF Types
<1>3. CASE \E h \in Handles : file_close(h)
  <2>1. PICK h \in Handles : file_close(h) BY <1>3
  <2> DEFINE g == file[h].node
             s == sin[g]
             x == vfs_close([s |-> sin[g], d |-> dinode[g]])
  <2>2. file[h] # None /\ dinode' = [dinode EXCEPT ![g] = x.d] BY <2>1 DEF file_close
  <2>3. g \in Files /\ s # None /\ s \in MemInode /\ s.open > 0 BY <1>0, <2>2, OpenIsLoaded
  <2>4. s.ref >= s.open /\ dinode[g] \in DiskInode BY <1>0, <2>3 DEF Counts, Types
  <2>5. /\ s.ref # 1 => x.d = dinode[g] \/ x.d = s.din
        /\ s.ref = 1 => x.d = s.din \/ (~s.dirty /\ x.d = dinode[g])
    BY <2>3, <2>4, CloseIs
  <2> HIDE DEF x, g
  <2>6. QED BY <1>0, <2>2, <2>3, <2>5 DEF Types
<1>4. dinode' = dinode \/ (\E h \in Handles : file_fsync(h)) \/ (\E h \in Handles : file_close(h))
  BY DEF Next, vars, shutdown, file_open, file_open_excl, file_dup, file_read, file_write, file_seek, Halt, Commit
<1>5. QED BY <1>1, <1>2, <1>3, <1>4

LEMMA CeilSavedLong ==
  ASSUME SInv, NoShortFile, SavedLong, [Next]_vars
  PROVE  SavedLong'
<1>1. \A f \in Files : dinode'[f] = dinode[f] \/ (sin[f] # None /\ dinode'[f] = sin[f].din) BY DinodeStep
<1>2. QED BY <1>1 DEF SavedLong, NoShortFile

\* A changed file before and after: what TextStep needs.
LEMMA ChangeIs ==
  ASSUME SInv, NoShortFile, SavedLong, ZeroBeyond, NEW f \in Files, NEW s, NEW st, Changes(f, s, st)
  PROVE  LET x == Start(s)
         IN  /\ x.disk = disk /\ x.din = Inodes[f] /\ disk' = st.disk /\ Inodes'[f] = st.din
             /\ Core(freemap, disk, x.din, Foreign(others, disk, Inodes, f)) /\ Fits(x.din.size)
             /\ Core(st.free, st.disk, st.din, Foreign(others, disk, Inodes, f)) /\ Fits(st.din.size)
             /\ Zeroed(x.disk, x.din) /\ Zeroed(st.disk, st.din) /\ Effect(x, st)
<1> DEFINE x == Start(s)
<1>1. Types /\ Maps /\ Sizes BY DEF SInv
<1>2. Inodes \in [Files -> DiskInode] /\ Inodes[f] = Din(f) BY <1>1, InodesType
<1>3. s.din = Din(f) /\ st \in States /\ Done(x, st, Foreign(others, disk, Inodes, f)) /\ Effect(x, st)
  BY DEF Changes, Begun
<1>4. x.disk = disk /\ x.din = Inodes[f] BY <1>2, <1>3 DEF Start
<1>5. disk' = st.disk /\ Inodes' = [Inodes EXCEPT ![f] = st.din] BY ChangeKeeps
<1>6. Inodes'[f] = st.din BY <1>2, <1>5
<1> HIDE DEF x
<1>7. Core(freemap, disk, x.din, Foreign(others, disk, Inodes, f)) /\ Fits(x.din.size)
  BY <1>1, <1>4 DEF Maps, Sizes
<1>8. Core(st.free, st.disk, st.din, Foreign(others, disk, Inodes, f)) /\ Fits(st.din.size)
  BY <1>3 DEF Done, Good
<1>9. Zeroed(x.disk, x.din) BY <1>4 DEF ZeroBeyond
<1>10. Ceil(x.din.size) <= x.din.blocks
  <2>1. Ceil(Din(f).size) <= Din(f).blocks BY DEF NoShortFile, SavedLong, Din
  <2>2. QED BY <2>1, <1>2, <1>4
<1>11. x.din \in DiskInode /\ st.din \in DiskInode BY <1>7, <1>8 DEF Core
<1>12. Zeroed(st.disk, st.din) BY <1>3, <1>9, <1>10, <1>11, EffectZeroed
<1>13. QED BY <1>3, <1>4, <1>5, <1>6, <1>7, <1>8, <1>9, <1>12 DEF x

LEMMA ZeroStep ==
  ASSUME SInv, SInv', NoShortFile, SavedLong, ZeroBeyond, Kind
  PROVE  ZeroBeyond'
<1>1. CASE Quiet
  <2>1. ASSUME NEW g \in Files PROVE Zeroed(disk', Inodes'[g])
    <3> DEFINE d == Inodes[g]
               e == Inodes'[g]
    <3>1. disk' = disk /\ Agree(e, d) BY <1>1 DEF Quiet
    <3>2. Zeroed(disk, d) BY DEF ZeroBeyond
    <3> HIDE DEF d, e
    <3>3. SameCells(disk, d, disk, e) /\ e.size = d.size BY <3>1, AgreeIs DEF Agree
    <3>4. Zeroed(disk, e) BY <3>2, <3>3 DEF Zeroed, SameCells
    <3>5. QED BY <3>1, <3>4 DEF e
  <2>2. QED BY <2>1 DEF ZeroBeyond
<1>2. CASE \E f \in Files : \E s, st : Changes(f, s, st)
  <2>1. PICK f \in Files : \E s, st : Changes(f, s, st) BY <1>2
  <2>2. PICK s, st : Changes(f, s, st) BY <2>1
  <2>3. /\ disk' = st.disk /\ Inodes'[f] = st.din /\ Zeroed(st.disk, st.din) BY <2>2, ChangeIs
  <2>4. /\ Inodes' = [Inodes EXCEPT ![f] = st.din]
        /\ \A g \in Files \ {f} : SameCells(disk, Inodes[g], disk', Inodes[g])
    BY <2>2, ChangeKeeps
  <2>5. Inodes \in [Files -> DiskInode] BY InodesType DEF SInv
  <2>6. ASSUME NEW g \in Files PROVE Zeroed(disk', Inodes'[g])
    <3>1. CASE g = f BY <2>3, <3>1
    <3>2. CASE g # f
      <4>1. Inodes'[g] = Inodes[g] BY <2>4, <2>5, <3>2
      <4>2. SameCells(disk, Inodes[g], disk', Inodes[g]) /\ Zeroed(disk, Inodes[g]) BY <2>4, <3>2 DEF ZeroBeyond
      <4>3. QED BY <4>1, <4>2 DEF Zeroed, SameCells
    <3>3. QED BY <3>1, <3>2
  <2>7. QED BY <2>6 DEF ZeroBeyond
<1>3. QED BY <1>1, <1>2 DEF Kind

\* The contents of the files, as FileStore sees them.
Texts == [f \in Files |-> Contents(Din(f))]

LEMMA StoreStep ==
  ASSUME SInv, SInv', NoShortFile, SavedLong, ZeroBeyond, Kind
  PROVE  Store!Next \/ Texts' = Texts
<1>1. \A g \in Files : Texts[g] = Text(disk, Inodes[g])
  <2>1. \A g \in Files : Contents(Din(g)) = Text(disk, Inodes[g]) BY TextNow DEF SInv
  <2>2. QED BY <2>1 DEF Texts
<1>2. \A g \in Files : Texts'[g] = Text(disk', Inodes'[g])
  <2>1. \A g \in Files : Contents(Din(g))' = Text(disk', Inodes'[g]) BY TextNext DEF SInv
  <2>2. QED BY <2>1 DEF Texts
<1>3. Inodes \in [Files -> DiskInode] /\ \A g \in Files : Inodes[g].size \in Nat /\ Fits(Inodes[g].size)
  <2>1. Inodes \in [Files -> DiskInode] BY InodesType DEF SInv
  <2>2. \A g \in Files : Inodes[g].size \in Nat BY <2>1 DEF DiskInode
  <2>3. QED BY <2>1, <2>2 DEF SInv, Sizes
<1>4. (\A g \in Files : Texts'[g] = Texts[g]) => Texts' = Texts BY DEF Texts
<1>5. CASE Quiet
  <2>1. ASSUME NEW g \in Files PROVE Texts'[g] = Texts[g]
    <3> DEFINE d == Inodes[g]
               e == Inodes'[g]
    <3>1. disk' = disk /\ Agree(e, d) BY <1>5 DEF Quiet
    <3>2. d.size \in Nat /\ Fits(d.size) BY <1>3
    <3> HIDE DEF d, e
    <3>3. SameCells(disk, d, disk, e) /\ e.size = d.size BY <3>1, AgreeIs DEF Agree
    <3>4. Text(disk, e) = Text(disk, d) BY <3>2, <3>3, SameText
    <3>5. QED BY <1>1, <1>2, <3>1, <3>4 DEF d, e
  <2>2. QED BY <2>1, <1>4
<1>6. CASE \E f \in Files : \E s, st : Changes(f, s, st)
  <2>1. PICK f \in Files : \E s, st : Changes(f, s, st) BY <1>6
  <2>2. PICK s, st : Changes(f, s, st) BY <2>1
  <2> DEFINE x == Start(s)
             O == Foreign(others, disk, Inodes, f)
             old == Text(x.disk, x.din)
             new == Text(st.disk, st.din)
  <2>3. /\ x.disk = disk /\ x.din = Inodes[f] /\ disk' = st.disk /\ Inodes'[f] = st.din
        /\ Core(freemap, disk, x.din, O) /\ Fits(x.din.size)
        /\ Core(st.free, st.disk, st.din, O) /\ Fits(st.din.size)
        /\ Zeroed(x.disk, x.din) /\ Zeroed(st.disk, st.din) /\ Effect(x, st)
    BY <2>2, ChangeIs
  <2>4. ASSUME NEW g \in Files \ {f} PROVE Texts'[g] = Texts[g]
    <3>1. /\ Inodes' = [Inodes EXCEPT ![f] = st.din] /\ SameCells(disk, Inodes[g], disk', Inodes[g])
      BY <2>2, ChangeKeeps
    <3>2. Inodes'[g] = Inodes[g] BY <1>3, <3>1
    <3>3. Text(disk', Inodes[g]) = Text(disk, Inodes[g])
      <4> DEFINE d == Inodes[g]
                 dk2 == disk'
      <4>1. d.size \in Nat /\ Fits(d.size) /\ SameCells(disk, d, dk2, d) BY <1>3, <3>1
      <4> HIDE DEF d, dk2
      <4>2. Text(dk2, d) = Text(disk, d) BY <4>1, SameText
      <4>3. QED BY <4>2 DEF d, dk2
    <3>4. QED BY <1>1, <1>2, <3>2, <3>3
  <2> HIDE DEF x, O
  <2>5. Texts[f] = old /\ Texts'[f] = new BY <1>1, <1>2, <2>3
  <2>6. \/ new = old
        \/ new = <<>>
        \/ Len(new) > Len(old) /\ new = Store!Padded(old, Len(new))
        \/ \E off \in 0 .. SFS_MAX_FILE_SIZE, n \in 0 .. SFS_BLKSIZE, v \in Marks :
             new = Store!Written(old, off, [k \in 1 .. n |-> v])
    <3>1. Core(freemap, x.disk, x.din, O) BY <2>3
    <3>2. QED BY <2>3, <3>1, TextStep
  <2>7. CASE new = old BY <1>4, <2>4, <2>5, <2>7
  <2>8. CASE new # old
    <3>1. \/ Texts'[f] = <<>>
          \/ Len(Texts'[f]) > Len(Texts[f]) /\ Texts'[f] = Store!Padded(Texts[f], Len(Texts'[f]))
          \/ \E off \in 0 .. SFS_MAX_FILE_SIZE, n \in 0 .. SFS_BLKSIZE, v \in Marks :
               Texts'[f] = Store!Written(Texts[f], off, [k \in 1 .. n |-> v])
      <4> HIDE DEF old, new
      <4>1. QED BY <2>5, <2>6, <2>8
    <3>2. Store!Step(f) BY <2>4, <3>1 DEF Store!Step, Texts
    <3>3. QED BY <3>2 DEF Store!Next
  <2>9. QED BY <2>7, <2>8
<1>7. QED BY <1>5, <1>6 DEF Kind

\* StoreSpec: the file system implements the store of files, with all that
\* sfs_io_nolock, sfs_truncfile, the block map and the free map do underneath,
\* as long as no write behind the end of a file finds the disk full.
THEOREM StoreRefined == ASSUME ~WholeBlocks PROVE Spec /\ []NoShortFile => StoreSpec
<1> DEFINE RInv == SInv /\ SavedLong /\ ZeroBeyond
<1>1. Init => RInv
  <2> SUFFICES ASSUME Init PROVE RInv OBVIOUS
  <2>1. SInv BY InitIs
  <2>2. \A f \in Files : dinode[f] = EmptyInode /\ sin[f] = None BY DEF Init
  <2>3. EmptyInode.size = 0 /\ EmptyInode.blocks = 0 BY DEF EmptyInode
  <2>4. SavedLong BY <2>2, <2>3, CeilIs DEF SavedLong
  <2>5. \A b \in Blocks : disk[b] = ZeroBlock BY DEF Init
  <2>6. ASSUME NEW f \in Files, NEW k \in DataPlaces, NEW j \in Offsets PROVE CellAt(disk, Inodes[f], k, j) = 0
    <3>1. Core(freemap, disk, Inodes[f], Foreign(others, disk, Inodes, f)) BY <2>1 DEF SInv, Maps
    <3>2. At(disk, Inodes[f], k) \in Blocks
      <4>1. k \in Places BY Constants
      <4>2. QED BY <3>1, <4>1, AtType
    <3>3. ZeroBlock[j] = 0 BY DEF ZeroBlock, Offsets
    <3>4. QED BY <2>5, <3>2, <3>3 DEF CellAt
  <2>7. ZeroBeyond BY <2>6 DEF ZeroBeyond, Zeroed
  <2>8. QED BY <2>1, <2>4, <2>7
<1>2. RInv /\ NoShortFile /\ [Next]_vars => RInv' BY Inductive, CeilSavedLong, ZeroStep
<1>3. RInv /\ NoShortFile /\ [Next]_vars => [Store!Next]_Texts BY Inductive, StoreStep
<1>4. Init => Store!Init
  <2> SUFFICES ASSUME Init PROVE Store!Init OBVIOUS
  <2>1. ASSUME NEW f \in Files PROVE Contents(Din(f)) = <<>>
    <3>1. Types /\ Inodes[f] = EmptyInode BY InitIs DEF SInv, Inodes, Din, Init
    <3>2. Contents(Din(f)) = Text(disk, EmptyInode) BY <3>1, TextNow
    <3>3. EmptyInode.size = 0 BY DEF EmptyInode
    <3>4. QED BY <3>2, <3>3 DEF Text, Part
  <2>2. QED BY <2>1 DEF Store!Init
<1>5. QED BY <1>1, <1>2, <1>3, <1>4, PTL DEF Spec, StoreSpec, Store!Spec, Texts
=============================================================================
