--------------------------- MODULE CandidateReview ---------------------------
(***************************************************************************)
(* What /goal promises (README.md:68), without saying how: Workers' changes*)
(* are merged one after the other into a local candidate branch, the       *)
(* candidate is tested as a whole, and it is delivered for the user's      *)
(* review only if every node of the plan in force is in it and nothing was *)
(* merged after the test.  A delivered candidate does not change.          *)
(***************************************************************************)
EXTENDS Integers, Sequences

CONSTANTS Nodes, Contracts

VARIABLES
  plan,       \* node |-> contract, for the nodes of the plan in force
  candidate,  \* <<node, contract>> of the merges, in order
  tested,     \* length of the candidate the verifiers last passed, or -1
  delivered   \* the Goal is completed

vars == <<plan, candidate, tested, delivered>>

Planned == UNION {[S -> Contracts] : S \in SUBSET Nodes}
InCandidate(n) == \E i \in DOMAIN candidate : candidate[i] = <<n, plan[n]>>

Init ==
  /\ plan \in Planned /\ DOMAIN plan = {}
  /\ candidate = <<>> /\ tested = -1 /\ delivered = FALSE

Plan ==
  /\ ~delivered
  /\ plan' \in Planned
  /\ UNCHANGED <<candidate, tested, delivered>>

Merge ==
  /\ ~delivered
  /\ \E n \in Nodes, c \in Contracts : candidate' = Append(candidate, <<n, c>>)
  /\ UNCHANGED <<plan, tested, delivered>>

Test ==
  /\ ~delivered
  /\ tested' = Len(candidate)
  /\ UNCHANGED <<plan, candidate, delivered>>

Deliver ==
  /\ ~delivered
  /\ DOMAIN plan # {} /\ \A n \in DOMAIN plan : InCandidate(n)
  /\ tested = Len(candidate)
  /\ delivered' = TRUE
  /\ UNCHANGED <<plan, candidate, tested>>

Next == Plan \/ Merge \/ Test \/ Deliver

Spec == Init /\ [][Next]_vars

-----------------------------------------------------------------------------
TypeOK ==
  /\ plan \in Planned
  /\ candidate \in Seq(Nodes \X Contracts)
  /\ tested \in Int
  /\ delivered \in BOOLEAN

(* What the user reviews is the tested candidate, with the whole plan in it *)
(* ("the merged result is a local candidate", README.md:68).                *)
DeliveredIsWhole ==
  delivered => tested = Len(candidate) /\ \A n \in DOMAIN plan : InCandidate(n)
=============================================================================
