------------------------------ MODULE Selections ------------------------------
(***************************************************************************)
(* What a filter keeps of a list.  SelectSeq says the same of a test on     *)
(* elements; a recursive function over the places can be reasoned about.    *)
(***************************************************************************)
EXTENDS Naturals, Sequences

\* What is at the given places of a list, in order.
Kept(list, places) ==
  LET kept[n \in 0..Len(list)] ==
        IF n = 0 THEN <<>>
        ELSE IF n \in places THEN Append(kept[n - 1], list[n]) ELSE kept[n - 1]
  IN kept[Len(list)]
=============================================================================
