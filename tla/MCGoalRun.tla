----------------------------- MODULE MCGoalRun -----------------------------
(* Finite instances of GoalRun: plans over up to three nodes.               *)
EXTENDS GoalRun, TLC

Spec1(deps) == [deps |-> deps, text |-> "v1"]
Spec2(deps) == [deps |-> deps, text |-> "v2"]

(* two independent nodes, and replacement plans with a changed contract     *)
Parallel == "a" :> Spec1({}) @@ "b" :> Spec1({})
OnlyA == [n \in {"a"} |-> Spec1({})]
OnlyB == [n \in {"b"} |-> Spec2({})]
Again == [n \in {"a"} |-> Spec2({})]

Diamond == "a" :> Spec1({}) @@ "b" :> Spec1({}) @@ "c" :> Spec1({"a", "b"})
Deeper == "a" :> Spec1({}) @@ "b" :> Spec2({"a"}) @@ "c" :> Spec1({"a", "b"})
Wide == "a" :> Spec1({}) @@ "b" :> Spec2({}) @@ "c" :> Spec1({})

DiamondPlans == {Diamond, Deeper, Wide}
ParallelPlans == {Parallel, OnlyB}
SinglePlans == {OnlyA, Again}
(* Re-saving an older record takes the window count back, so runs with      *)
(* detached turns are bounded by the number of merges instead.              *)
FewMerges == Len(log) <= 2
(* Where queries are the subject, a detached turn is followed only from the *)
(* first wave of a first plan and until something was merged.               *)
FewDetached ==
  detached # {} =>
    Len(log) = 0 /\ \A g \in detached \cup {goal, disk} : DOMAIN g.queries = {} /\ g.replans = 0

=============================================================================
