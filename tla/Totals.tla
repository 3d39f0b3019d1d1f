------------------------------- MODULE Totals -------------------------------
(***************************************************************************)
(* The sum of a list of numbers, a set of numbers as a list, and the part  *)
(* of a list that lies at some places: what the loops over lists of access *)
(* units, packs, markers and items add up and keep.                        *)
(***************************************************************************)
EXTENDS Integers, Sequences, FiniteSets

Total == [list \in Seq(Int) |->
  LET sum[i \in 0 .. Len(list)] == IF i = 0 THEN 0 ELSE sum[i - 1] + list[i]
  IN  sum[Len(list)]]

(* A set of numbers in ascending order.                                    *)
Ascending(numbers) ==
  [i \in 1 .. Cardinality(numbers) |->
     CHOOSE x \in numbers : Cardinality({y \in numbers : y <= x}) = i]

Kept(l, places) ==
  LET m == Ascending(places) IN [k \in DOMAIN m |-> l[m[k]]]
=============================================================================
