------------------------------- MODULE Tallies -------------------------------
(***************************************************************************)
(* Sums over finite sets, for budgets and accounts that must add up.  The   *)
(* units are counted as a set, so that what a sum does when one term of it  *)
(* changes follows from what is known of finite sets.                      *)
(***************************************************************************)
EXTENDS Integers, FiniteSets

\* n units of x's.
Units(x, n) == {x} \X (1 .. n)

\* The sum of n[x] over S.
Tally(S, n) == Cardinality(UNION {Units(x, n[x]) : x \in S})
==============================================================================
