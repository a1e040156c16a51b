------------------------------ MODULE MoneySum ------------------------------
(***************************************************************************)
(* Totals of amounts.  Mongo's $sum over a set of rows is modelled by the  *)
(* sum of a function into Nat: amounts are counted in the smallest unit of *)
(* money (the code rounds every figure to two decimals with money()).      *)
(*                                                                         *)
(* Sum is a cardinality, not a recursion, so that its laws are provable:   *)
(* see MoneySumProofs.                                                    *)
(***************************************************************************)
EXTENDS Naturals, FiniteSets

\* The coins f puts on x: f[x] distinct elements, tagged with x.
Coins(f, x) == {x} \X (1..f[x])

\* \sum_{x \in DOMAIN f} f[x]
Sum(f) == Cardinality(UNION {Coins(f, x) : x \in {y \in DOMAIN f : f[y] > 0}})

Least(a, b) == IF a <= b THEN a ELSE b

=============================================================================
