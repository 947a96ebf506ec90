-------------------------------- MODULE Totals --------------------------------
(***************************************************************************)
(* The sum of a sequence of numbers, by its running totals.                *)
(***************************************************************************)
EXTENDS Naturals, Sequences

Totals(numbers) ==
  LET t[k \in 0 .. Len(numbers)] == IF k = 0 THEN 0 ELSE t[k - 1] + numbers[k]
  IN  t
Total(numbers) == Totals(numbers)[Len(numbers)]
=============================================================================
