------------------------------- MODULE Totals -------------------------------
(***************************************************************************)
(* The _sum aggregates of the database client, over a finite set of rows.  *)
(*                                                                         *)
(* A row of amount n stands for n units, the pairs <<row, 1>> .. <<row, n>>,*)
(* and a sum of rows is the number of their units.  Written this way the   *)
(* theorems of FiniteSetTheorems give what a sum does when a row is added, *)
(* removed or changed, with no recursion over the rows.                    *)
(***************************************************************************)
EXTENDS Integers, FiniteSets

\* The units of the rows in S, where amount[r] is the amount of row r.
Units(S, amount) == UNION {{r} \X (1 .. amount[r]) : r \in S}

\* SELECT SUM(amount) over the rows in S; 0 for no row (`_sum.x ?? 0`).
Total(S, amount) == Cardinality(Units(S, amount))
=============================================================================
