------------------------------ MODULE Selection ------------------------------
(***************************************************************************)
(* What a loop that keeps some elements of a sequence makes of it.         *)
(***************************************************************************)
EXTENDS Naturals, Sequences, FiniteSets

Upto(S, i) == { j \in S : j <= i }

Rank(S, i) == Cardinality(Upto(S, i))

(* The elements of s at the indices in S, in their order.                  *)
Select(s, S) ==
  [n \in 1..Cardinality(S) |-> s[CHOOSE i \in S : Rank(S, i) = n]]
=============================================================================
