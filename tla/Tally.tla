------------------------------- MODULE Tally -------------------------------
(***************************************************************************)
(* Adding up the quantities that a finite set of holders has in hand.      *)
(*                                                                         *)
(* The sum of f over its domain is counted as a set of unit-sized tokens,  *)
(* one token <<h, i>> for each i in 1 .. f[h].  A sum is then a            *)
(* cardinality, which the theorems about finite sets can reason about.     *)
(***************************************************************************)
EXTENDS Integers, FiniteSets

(* The unit tokens of f, whose values are at most max.                     *)
Tokens(f, max) == {u \in (DOMAIN f) \X (1 .. max) : u[2] <= f[u[1]]}

(* The sum of f over its domain.                                           *)
Tally(f, max) == Cardinality(Tokens(f, max))

=============================================================================
