----------------------------- MODULE FileStore -----------------------------
(***************************************************************************)
(* What a user of the file system relies on: a file is a sequence of       *)
(* cells; a write replaces the cells it covers, and nothing else, in one   *)
(* file; cells nobody wrote are zero.  Sfs implements this on disk blocks. *)
(***************************************************************************)
EXTENDS Integers, Sequences

CONSTANTS
  Files,
  Cells,      \* the values that are written
  MaxLength,  \* bound on the length of a file
  MaxWrite    \* bound on the length of a write

VARIABLE data   \* the contents of each file

Init == data = [f \in Files |-> <<>>]

\* The contents s once it is at least n long.
Padded(s, n) == [i \in 1..(IF n > Len(s) THEN n ELSE Len(s)) |-> IF i <= Len(s) THEN s[i] ELSE 0]

\* The contents after the sequence s was written at offset off.  A write cut
\* short by a full disk writes a shorter s, possibly nothing.
Written(old, off, s) ==
  LET long == Padded(old, off + Len(s))
  IN  [i \in 1..Len(long) |-> IF i - off \in 1..Len(s) THEN s[i - off] ELSE long[i]]

\* A step changes one file: it is written, lengthened with zeros or emptied.
Step(f) ==
  LET old == data[f]
      new == data'[f]
  IN  /\ \A g \in Files \ {f} : data'[g] = data[g]
      /\ \/ new = <<>>
         \/ Len(new) > Len(old) /\ new = Padded(old, Len(new))
         \/ \E off \in 0..MaxLength, n \in 0..MaxWrite, v \in Cells :
              new = Written(old, off, [k \in 1..n |-> v])

Next == \E f \in Files : Step(f)

Spec == Init /\ [][Next]_data
=============================================================================
