------------------------------- MODULE Kmalloc -------------------------------
(***************************************************************************)
(* The kernel heap of kmalloc.c on top of the page allocator.              *)
(*                                                                         *)
(* Memory is counted in units of a slob_t (16 bytes), U to the page; page  *)
(* p holds the units p*U .. p*U+U-1.  Free blocks form a ring in the order *)
(* of their addresses, with the static arena at its lowest place.  A small *)
(* object has a one-unit header in front of it; a big one has pages of its *)
(* own and a two-unit descriptor (bigblock_t) in the heap.  Pages the heap *)
(* has grown by are never given back.                                      *)
(*                                                                         *)
(* The kernel is not preempted and no interrupt handler allocates, so that *)
(* a call is one step although slob_alloc opens its lock to get a page.    *)
(* After the boot alloc_page never returns NULL: it would have to swap out *)
(* a page of check_mm_struct, which is NULL, and stops the kernel.  Only a *)
(* request for several pages can fail.                                     *)
(***************************************************************************)
EXTENDS PageAlloc

CONSTANTS
  U,         \* units of a page
  Sizes,     \* the sizes asked for, in units
  MaxObjects \* bound on the objects held at once

ASSUME SizesAssumption ==
  /\ U \in Nat /\ U > 3 /\ MaxObjects \in Nat
  /\ Sizes \subseteq Nat \ {0}
  \* slob_alloc asserts that a block and a header are less than a page: a
  \* size that kmalloc takes for a small one must leave room for both.
  /\ \A size \in Sizes : size # U - 2

VARIABLES
  slob,      \* [next, units, slobfree]: the ring, the headers, the rover
  bigblocks, \* the descriptors: [bb, pages, order]
  objects,   \* what callers hold: [at, size]
  grown      \* the pages of the heap

kvars == <<slob, bigblocks, objects, grown>>
allvars == <<pvars, kvars>>

Arena == -2
BIGBLOCK == 2
Put(f, x, y) == [z \in DOMAIN f \cup {x} |-> IF z = x THEN y ELSE f[z]]
Drop(f, x) == [z \in DOMAIN f \ {x} |-> f[z]]

\* The blocks of the ring and the order in which they are met from slobfree.
Ring(H) == DOMAIN H.next
Walk(H) ==
  LET w[k \in 0 .. Cardinality(Ring(H))] ==
        IF k = 0 THEN H.slobfree ELSE H.next[w[k - 1]]
  IN  w

KInit ==
  /\ Init
  /\ slob = [next |-> [a \in {Arena} |-> Arena], units |-> [a \in {Arena} |-> 1],
             slobfree |-> Arena]
  /\ bigblocks = {} /\ objects = {} /\ grown = {}

-----------------------------------------------------------------------------
\* slob_alloc: the place in the walk of the first block with room for n units;
\* slobfree itself is looked at last.
Room(H, n) ==
  LET w == Walk(H) IN {k \in 1 .. Cardinality(Ring(H)) : H.units[w[k]] >= n}
Found(H, n) == Walk(H)[Least(Room(H, n))]

\* ... and the ring without these units: an exact fit is unlinked, from a
\* longer block the first n units are cut.
cut(H, n) ==
  LET prev == Walk(H)[Least(Room(H, n)) - 1]
      cur  == Found(H, n)
      rest == cur + n
  IN  IF H.units[cur] = n
      THEN [H EXCEPT !.next = Drop(Put(@, prev, @[cur]), cur), !.slobfree = prev]
      ELSE [H EXCEPT !.next = Put(Drop(Put(@, prev, rest), cur), rest, @[cur]),
                     !.units = Put(Put(@, rest, @[cur] - n), cur, n),
                     !.slobfree = prev]

\* slob_free: the block b of n units goes behind cur, and is joined with the
\* blocks it borders on.
InsertionPoint(H, b) ==
  LET stops(cur) == \/ cur < b /\ b < H.next[cur]
                    \/ cur >= H.next[cur] /\ (b > cur \/ b < H.next[cur])
      w == Walk(H)
  IN  w[Least({k \in DOMAIN w : stops(w[k])})]

join_prev(H, cur, b) ==
  IF cur + H.units[cur] = b
  THEN [H EXCEPT !.next = Drop(Put(@, cur, @[b]), b),
                 !.units = Drop(Put(@, cur, @[cur] + @[b]), b)]
  ELSE [H EXCEPT !.next = Put(@, cur, b)]

slob_free(H, b, n) ==
  LET cur  == InsertionPoint(H, b)
      succ == H.next[cur]
      H1   == IF b + n = succ
              THEN [H EXCEPT !.next = Put(Drop(@, succ), b, @[succ]),
                             !.units = Put(Drop(@, succ), b, n + @[succ])]
              ELSE [H EXCEPT !.next = Put(@, b, succ), !.units = Put(@, b, n)]
  IN  [join_prev(H1, cur, b) EXCEPT !.slobfree = cur]

\* Without room slob_alloc frees a new page into the heap and looks again.
Grows(n) == Room(slob, n) = {}
GrownBy(n) == IF Grows(n) THEN {BlockFor(pm, 1)} ELSE {}
PmFor(n) == IF Grows(n) THEN take(pm, BlockFor(pm, 1), 1) ELSE pm
HeapFor(n) == IF Grows(n) THEN slob_free(slob, BlockFor(pm, 1) * U, U) ELSE slob

-----------------------------------------------------------------------------
\* kmalloc
IsSmall(size) == size < U - 1

\* 1 << order
PagesOf(order) ==
  LET pow[k \in 0 .. order] == IF k = 0 THEN 1 ELSE 2 * pow[k - 1] IN pow[order]

\* best_fit_pmm.c belongs to lab2, which has no kernel heap.
MayAsk == manager = "default" /\ Cardinality(objects) < MaxObjects

kmalloc_small(size) ==
  LET n == size + 1 IN
  /\ IsSmall(size)
  /\ Grows(n) => CanAlloc(pm, 1)
  /\ slob' = cut(HeapFor(n), n)
  /\ objects' = objects \cup {[at |-> Found(HeapFor(n), n) + 1, size |-> size]}
  /\ grown' = grown \cup GrownBy(n)
  /\ pm' = PmFor(n)
  /\ given' = given \cup GrownBy(n)
  /\ UNCHANGED <<manager, bigblocks>>

(***************************************************************************)
(* Operators named M_... are deliberate bugs: each is the mutated form of  *)
(* the definition that follows it and occurs nowhere in the specification. *)
(***************************************************************************)
\* The last halving is not counted.
M_find_order(size) == Least({k \in 0 .. size : size \div PagesOf(k + 1) <= U})

\* How often size must be halved, rounding down, until it fits in a page.
find_order(size) == Least({k \in 0 .. size : size \div PagesOf(k) <= U})

\* Big objects are among the requests that MaxN bounds.
ASSUME OrdersAssumption == \A size \in Sizes : PagesOf(find_order(size)) <= MaxN

\* A big object that gets its pages, and one whose descriptor is given back
\* because there is no run of free pages long enough.
kmalloc_big(size) ==
  LET H  == HeapFor(BIGBLOCK)
      bb == Found(H, BIGBLOCK)
      n  == PagesOf(find_order(size))
      p  == BlockFor(PmFor(BIGBLOCK), n)
  IN
  /\ ~IsSmall(size)
  /\ Grows(BIGBLOCK) => CanAlloc(pm, 1)
  /\ CanAlloc(PmFor(BIGBLOCK), n)
  /\ slob' = cut(H, BIGBLOCK)
  /\ bigblocks' = bigblocks \cup {[bb |-> bb, pages |-> p, order |-> find_order(size)]}
  /\ objects' = objects \cup {[at |-> p * U, size |-> size]}
  /\ grown' = grown \cup GrownBy(BIGBLOCK)
  /\ pm' = take(PmFor(BIGBLOCK), p, n)
  /\ given' = given \cup GrownBy(BIGBLOCK) \cup Run(p, n)
  /\ UNCHANGED manager

\* The descriptor of an object that got no pages is forgotten.
M_kmalloc_fails(size) ==
  LET H  == HeapFor(BIGBLOCK)
  IN
  /\ ~IsSmall(size)
  /\ find_order(size) > 0
  /\ Grows(BIGBLOCK) => CanAlloc(pm, 1)
  /\ BlockFor(PmFor(BIGBLOCK), PagesOf(find_order(size))) = Head
  /\ slob' = cut(H, BIGBLOCK)
  /\ grown' = grown \cup GrownBy(BIGBLOCK)
  /\ pm' = PmFor(BIGBLOCK)
  /\ given' = given \cup GrownBy(BIGBLOCK)
  /\ UNCHANGED <<manager, bigblocks, objects>>

kmalloc_fails(size) ==
  LET H  == HeapFor(BIGBLOCK)
      bb == Found(H, BIGBLOCK)
  IN
  /\ ~IsSmall(size)
  /\ find_order(size) > 0
  /\ Grows(BIGBLOCK) => CanAlloc(pm, 1)
  /\ BlockFor(PmFor(BIGBLOCK), PagesOf(find_order(size))) = Head
  /\ slob' = slob_free(cut(H, BIGBLOCK), bb, BIGBLOCK)
  /\ grown' = grown \cup GrownBy(BIGBLOCK)
  /\ pm' = PmFor(BIGBLOCK)
  /\ given' = given \cup GrownBy(BIGBLOCK)
  /\ UNCHANGED <<manager, bigblocks, objects>>

\* kfree tells a big object from a small one by its address alone: it is at
\* the start of a page and a descriptor says so.
kfree(o) ==
  LET Of == {d \in bigblocks : o.at % U = 0 /\ d.pages * U = o.at} IN
  /\ objects' = objects \ {o}
  /\ \/ /\ Of = {}
        /\ slob' = slob_free(slob, o.at - 1, slob.units[o.at - 1])
        /\ UNCHANGED <<manager, pm, given, bigblocks>>
     \/ \E d \in Of :
        /\ bigblocks' = bigblocks \ {d}
        /\ pm' = release(pm, d.pages, PagesOf(d.order))
        /\ given' = given \ Run(d.pages, PagesOf(d.order))
        /\ slob' = slob_free(slob, d.bb, BIGBLOCK)
        /\ UNCHANGED manager
  /\ UNCHANGED grown

\* Pages used for something else than the heap.
BigPages == UNION {Run(d.pages, PagesOf(d.order)) : d \in bigblocks}
Others == given \ (grown \cup BigPages)

OtherPages ==
  /\ \E n \in 1 .. MaxN :
       alloc_pages(n) \/ \E b \in Pages : Run(b, n) \subseteq Others /\ free_pages(b, n)
  /\ UNCHANGED kvars

KNext ==
  \/ /\ MayAsk
     /\ \E size \in Sizes :
          kmalloc_small(size) \/ kmalloc_big(size) \/ kmalloc_fails(size)
  \/ \E o \in objects : kfree(o)
  \/ OtherPages

KSpec == KInit /\ [][KNext]_allvars

-----------------------------------------------------------------------------
\* What a block of the heap is used for: its first unit and their number.
FreeBlocks == {<<b, slob.units[b]>> : b \in Ring(slob) \ {Arena}}
SmallObjects == {o \in objects : IsSmall(o.size)}
SmallBlocks == {<<o.at - 1, slob.units[o.at - 1]>> : o \in SmallObjects}
Descriptors == {<<d.bb, BIGBLOCK>> : d \in bigblocks}
UnitsOf(blk) == Run(blk[1], blk[2])
Memory(o) == Run(o.at, o.size)

\* The ring of free blocks of the heap is in the order of the addresses,
\* closed over the arena, holds no two blocks that border on each other, and
\* together with the objects and the descriptors it makes up every unit of
\* the pages the heap has grown by, each once: nothing is lost, whatever was
\* cut, joined, straddles two pages or failed half way.
HeapExact ==
  LET blocks == FreeBlocks \cup SmallBlocks \cup Descriptors
  IN
  /\ slob.slobfree \in Ring(slob)
  /\ \A b \in Ring(slob) :
       LET above == {c \in Ring(slob) : c > b}
       IN  slob.next[b] = IF above = {} THEN Arena ELSE Least(above)
  /\ \A b \in Ring(slob) : b + slob.units[b] \notin Ring(slob)
  /\ UNION {UnitsOf(b) : b \in blocks} = {u \in 0 .. NP * U : u \div U \in grown}
  /\ \A b, c \in blocks : b # c => UnitsOf(b) \cap UnitsOf(c) = {}

\* No two objects share memory, no object reaches into the free blocks, the
\* descriptors or the header of another, and a big one lies within the pages
\* that kfree will give back for it.
ObjectsApart ==
  LET headers == (UNION {UnitsOf(b) : b \in FreeBlocks \cup Descriptors}) \cup
                 {o.at - 1 : o \in SmallObjects}
  IN
  /\ \A o1, o2 \in objects : o1 # o2 => Memory(o1) \cap Memory(o2) = {}
  /\ \A o \in objects : Memory(o) \cap headers = {}
  /\ \A o \in objects : \A u \in Memory(o) : u \div U \in grown \cup BigPages
  /\ Cardinality(objects) = Cardinality(SmallObjects) + Cardinality(bigblocks)
  /\ grown \cap BigPages = {}
=============================================================================
