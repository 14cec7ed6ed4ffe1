------------------------------ MODULE FreePages ------------------------------
(***************************************************************************)
(* What a physical memory manager promises the rest of the kernel: which   *)
(* pages are free, and which of them a request for n contiguous pages      *)
(* gets.  There is no list, no block and no merging here: a free page can  *)
(* be used by any request it is long enough for, together with its free    *)
(* neighbours.                                                             *)
(***************************************************************************)
EXTENDS Integers

CONSTANTS
  NP,    \* the pages are 0 .. NP-1
  MaxN   \* bound on the pages asked for at once

VARIABLES
  manager, \* pmm_manager: "default" or "best_fit"
  free     \* the free pages

vars == <<manager, free>>

Pages == 0 .. NP - 1
Run(b, n) == b .. b + n - 1

\* The longest runs of free pages, by their first page, and their lengths.
Starts(F) == {b \in F : b - 1 \notin F}
LengthOf(F, b) == CHOOSE n \in 1 .. NP : Run(b, n) \subseteq F /\ b + n \notin F

\* Where n pages are taken from: the lowest run that is long enough, or the
\* lowest of the shortest ones that are.
Fits(F, n) == {b \in Starts(F) : LengthOf(F, b) >= n}
Better(F, b, c) ==
  \/ manager = "default" /\ b <= c
  \/ manager = "best_fit" /\ LengthOf(F, b) < LengthOf(F, c)
  \/ manager = "best_fit" /\ LengthOf(F, b) = LengthOf(F, c) /\ b <= c
Place(F, n) == CHOOSE b \in Fits(F, n) : \A c \in Fits(F, n) : Better(F, b, c)

Init == manager \in {"default", "best_fit"} /\ free = Pages

Without(F, n) == F \ Run(Place(F, n), n)

Alloc(n) ==
  /\ Fits(free, n) # {}
  /\ free' = Without(free, n)
  /\ UNCHANGED manager

\* Two requests in one call of the kernel, a page first.
AllocTwo(n) ==
  /\ Fits(free, 1) # {}
  /\ Fits(Without(free, 1), n) # {}
  /\ free' = Without(Without(free, 1), n)
  /\ UNCHANGED manager

Free(b, n) ==
  /\ Run(b, n) \subseteq Pages \ free
  /\ free' = free \cup Run(b, n)
  /\ UNCHANGED manager

Next ==
  \E n \in 1 .. MaxN : Alloc(n) \/ AllocTwo(n) \/ \E b \in Pages : Free(b, n)

Spec == Init /\ [][Next]_vars
=============================================================================
