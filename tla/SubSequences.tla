------------------------------ MODULE SubSequences ------------------------------
(***************************************************************************)
(* What a loop leaves of a vector that it erases elements from, or copies  *)
(* elements of.  It is SelectSeq with a set in the place of the test, and  *)
(* defined by recursion, so that proofs can look into it.                  *)
(***************************************************************************)
EXTENDS Integers, Sequences

\* The elements of s at the places I, in their order: kept[i] is what there is of
\* the first i elements.
KeptAt(s, I) ==
  LET kept[i \in 0 .. Len(s)] ==
        IF i = 0 THEN <<>>
        ELSE IF i \in I THEN Append(kept[i - 1], s[i]) ELSE kept[i - 1]
  IN  kept[Len(s)]

\* The elements of s that are in S.
Kept(s, S) == KeptAt(s, {i \in DOMAIN s : s[i] \in S})
================================================================================
