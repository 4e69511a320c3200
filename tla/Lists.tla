------------------------------- MODULE Lists --------------------------------
(* A list comprehension with a condition: what SelectSeq does, as a        *)
(* recursive function that a proof can unfold.                             *)
EXTENDS Integers, Sequences

(* The elements of s that are in S, in their order.                        *)
Kept(s, S) ==
  LET keep[i \in 0 .. Len(s)] ==
        IF i = 0 THEN <<>>
        ELSE IF s[i] \in S THEN Append(keep[i - 1], s[i]) ELSE keep[i - 1]
  IN  keep[Len(s)]
=============================================================================
