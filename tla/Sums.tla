-------------------------------- MODULE Sums --------------------------------
(***************************************************************************)
(* The sum of a finite table of natural numbers, as Python's sum() over a  *)
(* dictionary's values: what goal_budget.py:39-43 computes from the saved  *)
(* reservations.  Written as a recursive function over a prefix of the     *)
(* table, so that DataProofs can reason about it by induction.             *)
(***************************************************************************)
EXTENDS Integers

(* f[1] + ... + f[n] *)
SumTo(f, n) ==
  LET s[i \in 0 .. n] == IF i = 0 THEN 0 ELSE s[i - 1] + f[i]
  IN  s[n]
=============================================================================
