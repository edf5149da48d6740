------------------------------- MODULE Totals -------------------------------
(* The sum of what a function maps to, as the number of units there are:   *)
(* a form of the sum that needs no recursion.                              *)
EXTENDS Integers, FiniteSets

Units(f) == UNION {{x} \X (1 .. f[x]) : x \in DOMAIN f}
Total(f) == Cardinality(Units(f))
=============================================================================
