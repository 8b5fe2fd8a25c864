-------------------------------- MODULE Loops --------------------------------
(***************************************************************************)
(* Loops as recursive functions: a value that n turns change one after the *)
(* other.                                                                  *)
(***************************************************************************)
EXTENDS Integers, Sequences

\* What is left of base after the turns 1 to n.
Walk(turn(_, _), base, n) ==
  LET after[k \in 0 .. n] == IF k = 0 THEN base ELSE turn(after[k - 1], k)
  IN after[n]

\* The members of S among 1 to n, from the least to the greatest: what a loop over n places leaves
\* when it erases the other ones.
InOrder(S, n) ==
  LET Keep(kept, k) == IF k \in S THEN Append(kept, k) ELSE kept
  IN Walk(Keep, <<>>, n)
=============================================================================
