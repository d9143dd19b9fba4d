------------------------------ MODULE Selections ------------------------------
(* Filtering a sequence, as SelectSeq does it. The test is a set, so that   *)
(* facts about a selection can be stated for every test.                    *)
EXTENDS Integers, Sequences

(* The elements of s that are in T, in their order.                         *)
Among(s, T) ==
  LET kept[i \in 0..Len(s)] ==
        IF i = 0 THEN <<>>
        ELSE IF s[i] \in T THEN Append(kept[i - 1], s[i]) ELSE kept[i - 1]
  IN  kept[Len(s)]
=============================================================================
