-------------------------------- MODULE Totals --------------------------------
(***************************************************************************)
(* Sums over a table column.  Django's aggregate(Sum("quantity")) over the *)
(* rows of a table is the number of units the rows hold together: a row    *)
(* that holds q units contributes the pairs <<row, 1>> .. <<row, q>>.      *)
(* Stated as a cardinality, a sum needs no recursion, so theorems about it *)
(* follow from the library's facts about finite sets.                      *)
(***************************************************************************)
EXTENDS Integers, FiniteSets

Units(f) == UNION {{i} \X (1..f[i]) : i \in DOMAIN f}

Total(f) == Cardinality(Units(f))

MinOf(a, b) == IF a <= b THEN a ELSE b

\* Decimal's max(Decimal("0"), n), the form every "never negative" uses.
AtLeastZero(n) == IF n > 0 THEN n ELSE 0
===============================================================================
