-------------------------------- MODULE MCVm --------------------------------
EXTENDS Vm, TLC

Symmetry == Permutations(Users)

\* A text and a data segment; a single segment; a file that is no program; one
\* whose second segment begins inside the first.
Seg(start, end, w, image) ==
  [start |-> start, end |-> end, w |-> w, image |-> image, bad |-> FALSE]

MCPrograms ==
  { [magic |-> TRUE,
     segs |-> <<Seg(0, 1, FALSE, [la \in {0} |-> 1]), Seg(1, 2, TRUE, [la \in {1} |-> 0])>>],
    [magic |-> TRUE, segs |-> <<Seg(0, 1, FALSE, [la \in {0} |-> 0])>>],
    [magic |-> FALSE, segs |-> <<>>],
    [magic |-> TRUE,
     segs |-> <<Seg(0, 2, FALSE, [la \in {0, 1} |-> 1]), Seg(1, 3, TRUE, [la \in {1, 2} |-> 0])>>] }
=============================================================================
