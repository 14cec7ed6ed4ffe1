------------------------------ MODULE PageAlloc ------------------------------
(***************************************************************************)
(* The physical page allocator: default_pmm.c of lab8 (first fit) and      *)
(* best_fit_pmm.c of lab2 behind the same pmm_manager interface.           *)
(*                                                                         *)
(* The free list is the doubly linked list of libs/list.h, link by link:   *)
(* pm.next and pm.prev of the list head and of every page.  property is    *)
(* the length of the free block a page begins, PG_property the flag that   *)
(* says it begins one.  All of it is behind local_intr_save, so a call is  *)
(* one step.                                                               *)
(***************************************************************************)
EXTENDS Integers, FiniteSets

CONSTANTS
  NP,      \* pages of memory, 0 .. NP-1
  MaxN,    \* bound on the pages asked for at once
  Reserve  \* pages at the top of memory that nobody ever asks for

ASSUME PagesAssumption == NP \in Nat \ {0} /\ MaxN \in Nat \ {0} /\ Reserve \in Nat

VARIABLES
  manager, \* pmm_manager
  pm,      \* the state of the manager
  given    \* the pages the kernel got from it and has not given back

pvars == <<manager, pm, given>>

Pages == 0 .. NP - 1
Run(b, n) == b .. b + n - 1

\* &free_list; also what a failed search returns, for NULL.
Head == -1
Entries == Pages \cup {Head}

Least(S) == CHOOSE x \in S : \A y \in S : x <= y

\* __list_add and __list_del.
list_add_between(L, elm, before, after) ==
  [L EXCEPT !.next = [[@ EXCEPT ![before] = elm] EXCEPT ![elm] = after],
            !.prev = [[@ EXCEPT ![after] = elm] EXCEPT ![elm] = before]]

list_add(L, le, elm) == list_add_between(L, elm, le, L.next[le])

list_add_before(L, le, elm) == list_add_between(L, elm, L.prev[le], le)

list_del(L, le) ==
  [L EXCEPT !.next = [@ EXCEPT ![L.prev[le]] = L.next[le]],
            !.prev = [@ EXCEPT ![L.next[le]] = L.prev[le]]]

\* The k-th entry met on the way along the list, which begins and should end
\* at the head; how many entries that is; and all of them.
Along(L) == LET e[k \in 0 .. NP + 1] == IF k = 0 THEN Head ELSE L.next[e[k - 1]] IN e
ComesRound(L) == LET at == Along(L) IN \E k \in 1 .. NP + 1 : at[k] = Head
ListLength(L) ==
  LET at == Along(L) IN Least({k \in 1 .. NP + 1 : at[k] = Head}) - 1
Listed(L) == LET at == Along(L) IN {at[k] : k \in 1 .. ListLength(L)}

\* The fields of a page that no entry of the list refers to are never read
\* before they are written again: they are reset, so that they do not tell
\* states apart.
Tidy(L) ==
  LET list == Listed(L) \cup {Head}
      seen == list \cup {L.prev[e] : e \in list}
  IN  IF ComesRound(L)
      THEN [L EXCEPT !.next = [e \in Entries |-> IF e \in seen THEN @[e] ELSE Head],
                     !.prev = [e \in Entries |-> IF e \in seen THEN @[e] ELSE Head],
                     !.property = [p \in Pages |-> IF p \in seen THEN @[p] ELSE 0]]
      ELSE L

-----------------------------------------------------------------------------
\* init_memmap of all the memory.
Init ==
  /\ manager \in {"default", "best_fit"}
  /\ pm = [next |-> [e \in Entries |-> IF e = Head THEN 0 ELSE Head],
           prev |-> [e \in Entries |-> IF e = Head THEN 0 ELSE Head],
           property |-> [p \in Pages |-> IF p = 0 THEN NP ELSE 0],
           PG_property |-> {0},
           nr_free |-> NP]
  /\ given = {}

(***************************************************************************)
(* Operators named M_... are deliberate bugs: each is the mutated form of  *)
(* the definition that follows it and occurs nowhere in the specification. *)
(***************************************************************************)
\* Of several best blocks the last is taken.
M_BlockFor(L, n) ==
  LET at == Along(L)
      long == {k \in 1 .. ListLength(L) : L.property[at[k]] >= n}
      best == {k \in long : \A j \in long : L.property[at[k]] <= L.property[at[j]]}
  IN  IF n > L.nr_free \/ long = {} THEN Head
      ELSE at[IF manager = "default" THEN Least(long)
              ELSE CHOOSE k \in best : \A j \in best : j <= k]

\* The block a request for n pages is served from: the first long enough, or
\* the first of the shortest of those.
BlockFor(L, n) ==
  LET at == Along(L)
      long == {k \in 1 .. ListLength(L) : L.property[at[k]] >= n}
      best == {k \in long : \A j \in long : L.property[at[k]] <= L.property[at[j]]}
  IN  IF n > L.nr_free \/ long = {} THEN Head
      ELSE at[Least(IF manager = "default" THEN long ELSE best)]

\* The second half of alloc_pages: unlink the block, put back what is too much.
take(L, b, n) ==
  LET D == list_del(L, b)
      rest == [list_add(D, L.prev[b], b + n) EXCEPT
                 !.property = [@ EXCEPT ![b + n] = L.property[b] - n],
                 !.PG_property = @ \cup {b + n}]
  IN  Tidy([(IF L.property[b] > n THEN rest ELSE D)
              EXCEPT !.nr_free = @ - n, !.PG_property = @ \ {b}])

\* Where free_pages links the block base.  The loop stops when it has linked
\* it before a higher block, but not when it has linked it behind the last: it
\* then meets base itself as the last entry and links it behind itself.
link(L, base) ==
  LET at == Along(L)
      higher == {k \in 1 .. ListLength(L) : base < at[k]}
  IN  IF L.next[Head] = Head THEN list_add(L, Head, base)
      ELSE IF higher # {} THEN list_add_before(L, at[Least(higher)], base)
      ELSE list_add(list_add(L, at[ListLength(L)], base), base, base)

\* The block b, and the block p behind it in memory, become one.
merge(L, b, p) ==
  [list_del([L EXCEPT !.property = [@ EXCEPT ![b] = L.property[b] + L.property[p]]],
            p)
     EXCEPT !.PG_property = @ \ {p}]

\* A freed block is not merged with the block behind it.
M_merge_next(L, b) == L

\* The block b is merged with the next entry if it borders on it.
merge_next(L, b) ==
  LET p == L.next[b]
  IN  IF p # Head /\ b + L.property[b] = p THEN merge(L, b, p) ELSE L

\* free_pages
release(L, base, n) ==
  LET L1 == link([L EXCEPT !.property = [@ EXCEPT ![base] = n],
                           !.PG_property = @ \cup {base},
                           !.nr_free = @ + n], base)
      p  == L1.prev[base]
  IN  Tidy(IF p # Head /\ p + L1.property[p] = base
           THEN merge_next(merge(L1, p, base), p)
           ELSE merge_next(L1, base))

-----------------------------------------------------------------------------
\* A request of n pages that can be served.  Nobody asks for so much that it
\* would reach into the reserve.
CanAlloc(L, n) ==
  /\ ComesRound(L)
  /\ BlockFor(L, n) # Head
  /\ BlockFor(L, n) + n <= NP - Reserve

alloc_pages(n) ==
  /\ CanAlloc(pm, n)
  /\ pm' = take(pm, BlockFor(pm, n), n)
  /\ given' = given \cup Run(BlockFor(pm, n), n)
  /\ UNCHANGED manager

\* Some of the pages a caller holds are given back.  The assertion of
\* free_pages about their flags holds for the pages in question.
free_pages(b, n) ==
  /\ ComesRound(pm)
  /\ Run(b, n) \subseteq given
  /\ Run(b, n) \cap pm.PG_property = {}
  /\ pm' = release(pm, b, n)
  /\ given' = given \ Run(b, n)
  /\ UNCHANGED manager

PageNext ==
  \E n \in 1 .. MaxN : alloc_pages(n) \/ \E b \in Pages : free_pages(b, n)

PageSpec == Init /\ [][PageNext]_pvars

-----------------------------------------------------------------------------
\* The pages the list says are free.
FreeInList ==
  IF ComesRound(pm) THEN UNION {Run(b, pm.property[b]) : b \in Listed(pm)} ELSE {}

\* The free list is exact: linked both ways in the order of the addresses, its
\* blocks apart and merged as far as they go, marked PG_property, nr_free long
\* together, and holding every page but the ones given out.
FreeListExact ==
  /\ ComesRound(pm)
  /\ \A e \in Listed(pm) \cup {Head} : pm.prev[pm.next[e]] = e
  /\ \A b \in Listed(pm) : pm.next[b] # Head => b + pm.property[b] < pm.next[b]
  /\ pm.PG_property = Listed(pm)
  /\ FreeInList = Pages \ given
  /\ pm.nr_free = Cardinality(FreeInList)

\* Seen from outside the manager is FreePages: a request gets the place first
\* fit, or best fit, chooses among all pages nobody holds, whatever blocks
\* were split and merged before.
Abstract == INSTANCE FreePages WITH free <- Pages \ given
FreePagesSpec == Abstract!Spec
=============================================================================
