------------------------------ MODULE Selections ------------------------------
(***************************************************************************)
(* Selecting from a sequence, as SelectSeq does, by a set and written as a  *)
(* recursive function: what it keeps can then be proved.                    *)
(***************************************************************************)
EXTENDS Naturals, Sequences, SequencesExt

\* The elements of s that are in K, in their order.
Picked(s, K) ==
  LET kept[i \in 0..Len(s)] == IF i = 0 THEN <<>>
                               ELSE IF s[i] \in K THEN Append(kept[i - 1], s[i]) ELSE kept[i - 1]
  IN  kept[Len(s)]

\* All elements of s but x.
Without(s, x) == Picked(s, ToSet(s) \ {x})
=============================================================================
