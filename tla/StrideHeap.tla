------------------------------ MODULE StrideHeap ------------------------------
(***************************************************************************)
(* The stride scheduling class with its run queue as it is: the skew heap  *)
(* of libs/skew_heap.h, whose entries are in the proc_structs, ordered by  *)
(* proc_stride_comp_f.  The specification implements Stride, in which the  *)
(* run queue is a set and a minimal process is picked.                     *)
(*                                                                         *)
(* stride_pick_next changes the stride of the root while it is in the      *)
(* heap; schedule() removes it before anything else looks at the heap.     *)
(***************************************************************************)
EXTENDS Stride, FiniteSets, Functions

CONSTANT NULL

ASSUME HeapAssumption == NULL \notin Procs /\ IsFiniteSet(Procs) /\ Procs # {}

VARIABLES
  root,                \* rq->lab6_run_pool
  parent, left, right  \* the fields of proc->lab6_run_pool

heapvars == <<root, parent, left, right>>

\* The processes have been enqueued one after the other, all with stride 0: each
\* went on top of the ones before it.
HeapInit ==
  /\ Init
  /\ \E s \in Bijection(1..Cardinality(Procs), Procs) :
       LET n == Cardinality(Procs)
           place(p) == CHOOSE i \in 1..n : s[i] = p
       IN  /\ root = s[n]
           /\ left = [p \in Procs |-> IF place(p) = 1 THEN NULL ELSE s[place(p) - 1]]
           /\ right = [p \in Procs |-> NULL]
           /\ parent = [p \in Procs |-> IF place(p) = n THEN NULL ELSE s[place(p) + 1]]

\* The heap as a value: the fields of all entries and the root.
Heap == [parent |-> parent, left |-> left, right |-> right, root |-> root]

SetParent(h, n, p) == IF n = NULL THEN h ELSE [h EXCEPT !.parent[n] = p]

(***************************************************************************)
(* Operators named M_... are deliberate bugs: each is the mutated form of  *)
(* the definition that follows it and occurs nowhere in the specification. *)
(***************************************************************************)
\* The comparison is the wrong way round.
M_Above(a, b) == proc_stride_comp_f(a, b) > 0

\* comp(a, b) == -1
Above(a, b) == proc_stride_comp_f(a, b) < 0

\* The old left subtree is dropped where it should become the right one.
M_Top(h, n, l) == SetParent([h EXCEPT !.left[n] = l, !.right[n] = NULL], l, n)

\* n stays on top of the merged subtree l; its children change sides.
Top(h, n, l) ==
  SetParent([h EXCEPT !.left[n] = l, !.right[n] = h.left[n]], l, n)

\* The root of the result is its field root.  On its way down the recursion
\* changes nothing.
skew_heap_merge(h, a, b) ==
  LET merge[t \in (Procs \cup {NULL}) \X (Procs \cup {NULL})] ==
        LET x == t[1]
            y == t[2]
            l == IF Above(x, y) THEN merge[<<h.right[x], y>>] ELSE merge[<<x, h.right[y]>>]
            n == IF Above(x, y) THEN x ELSE y
        IN  IF x = NULL THEN [h EXCEPT !.root = y]
            ELSE IF y = NULL THEN [h EXCEPT !.root = x]
            ELSE [Top(l, n, l.root) EXCEPT !.root = n]
  IN  merge[<<a, b>>]

\* With skew_heap_init of the entry.
skew_heap_insert(h, p) ==
  skew_heap_merge([h EXCEPT !.parent[p] = NULL, !.left[p] = NULL, !.right[p] = NULL], h.root, p)

\* In schedule() n is the root.
skew_heap_remove(h, n) ==
  LET p == h.parent[n]
      m == skew_heap_merge(h, h.left[n], h.right[n])
      g == SetParent(m, m.root, p)
  IN  IF p = NULL THEN g
      ELSE IF g.left[p] = n THEN [g EXCEPT !.left[p] = m.root, !.root = h.root]
      ELSE [g EXCEPT !.right[p] = m.root, !.root = h.root]

\* schedule(): stride_enqueue of current, stride_pick_next and stride_dequeue of
\* the root.
heap_schedule ==
  LET h == IF current = None THEN Heap ELSE skew_heap_insert(Heap, current)
      g == skew_heap_remove(h, h.root)
  IN  /\ run_next(h.root)
      /\ root' = g.root /\ parent' = g.parent /\ left' = g.left /\ right' = g.right

HeapNext ==
  \/ time_over /\ UNCHANGED heapvars
  \/ heap_schedule
  \/ (\E n \in 0..MaxPriority : lab6_set_priority(n)) /\ UNCHANGED heapvars

HeapSpec == HeapInit /\ [][HeapNext]_<<vars, heapvars>>

-----------------------------------------------------------------------------
\* The run pool is a tree of exactly the runnable processes that do not have
\* the hart, none lost and none twice, with parent pointers skew_heap_remove
\* can trust: the root has none (a stale one there would splice the heap into a
\* process that has left it), and every other entry is a child of its parent.
\* All are reached from the root: who starts there and follows the pointers to
\* children comes to the whole pool.
Children(p) == {left[p], right[p]} \ {NULL}

PoolIsTree ==
  /\ root \in pool \cup {NULL}
  /\ \A p \in pool :
       /\ Children(p) \subseteq pool
       /\ parent[p] = NULL <=> p = root
       /\ p # root => parent[p] \in pool /\ (left[parent[p]] = p) # (right[parent[p]] = p)
       /\ \A q \in Children(p) : parent[q] = p
  /\ \A S \in SUBSET pool :
       root \in S \cup {NULL} /\ (\A p \in S : Children(p) \subseteq S) => S = pool

\* stride_pick_next returns "the element ... with the minimum value of stride":
\* taking the root of the skew heap implements taking a minimal process of the
\* set, although the strides wrap around and the key of the root is changed
\* while it is in the heap.
PicksMinimal == Spec
=============================================================================
