------------------------------- MODULE Lists --------------------------------
(***************************************************************************)
(* Python's list comprehension [x for x in s if ...] and its for loop.     *)
(* They are SelectSeq and a fold, with a set in the place of the test and  *)
(* a function in that of the loop's body, written as recursive functions,  *)
(* so that DataProofs can reason about them by induction.                  *)
(***************************************************************************)
EXTENDS Integers, Sequences

(* The members of s that are in S, in their order.                         *)
Only(s, S) ==
  LET kept[i \in 0 .. Len(s)] ==
        IF i = 0 THEN <<>>
        ELSE IF s[i] \in S THEN Append(kept[i - 1], s[i]) ELSE kept[i - 1]
  IN  kept[Len(s)]

(* Where n rounds lead from the first state; round[i] is what the i-th     *)
(* makes of each state.                                                    *)
Loop(first, round, n) ==
  LET after[i \in 0 .. n] == IF i = 0 THEN first ELSE round[i][after[i - 1]]
  IN  after[n]
=============================================================================
