----------------------------- MODULE GoalGraph -----------------------------
(***************************************************************************)
(* How a planner's graph becomes a plan: validate_plan and its             *)
(* topological_order (gencode/core/runtime/goal_graph.py).  GoalRun takes  *)
(* for granted that only closed, acyclic graphs get past them (WellFormed  *)
(* there); this module shows it, and that the order _ready_nodes walks is  *)
(* a topological one.                                                      *)
(*                                                                         *)
(* The fields of a node other than id and depends_on are left out; the     *)
(* order of the nodes inside one batch is left open.                       *)
(***************************************************************************)
EXTENDS Sequences, FiniteSets, Integers

CONSTANTS
  Ids,    \* ids of the nodes the planner listed
  Names   \* what a depends_on list may mention, unknown ids included

ASSUME GraphAssumptions == Ids # {} /\ IsFiniteSet(Ids) /\ Ids \subseteq Names

VARIABLES
  deps,     \* depends_on of each node
  waiting,  \* dependencies not yet ordered, of each node not yet ordered
  ready,    \* the rest of the batch being ordered
  order,    \* the result so far
  outcome   \* "" while running, then "ordered", "cycle" or "invalid"

graphVars == <<deps, waiting, ready, order, outcome>>

Emitted == {order[i] : i \in DOMAIN order}

-----------------------------------------------------------------------------
GraphInit ==
  /\ deps \in [Ids -> SUBSET Names]
  /\ waiting = deps
  /\ ready = {} /\ order = <<>>
  /\ outcome = ""

(* validate_plan before it orders the graph: a node may not depend on       *)
(* itself, nor on an id that is not in the plan.                            *)
Legal == \A n \in Ids : n \notin deps[n] /\ deps[n] \subseteq Ids

Reject ==
  /\ outcome = "" /\ ~Legal
  /\ outcome' = "invalid"
  /\ UNCHANGED <<deps, waiting, ready, order>>

(* The next batch: every node without an outstanding dependency.            *)
Free == {n \in DOMAIN waiting : waiting[n] = {}}

Batch ==
  /\ outcome = "" /\ Legal
  /\ ready = {} /\ Free # {}
  /\ ready' = Free
  /\ UNCHANGED <<deps, waiting, order, outcome>>

(* ready nodes are appended, and discarded from the others' dependencies.   *)
(* The faulty variant is a change of the code under which a property fails; *)
(* nothing else uses it.                                                    *)
RestUndiscarded(n) == [m \in DOMAIN waiting \ {n} |-> waiting[m]] \* faulty
Rest(n) == [m \in DOMAIN waiting \ {n} |-> waiting[m] \ {n}]

Emit(n) ==
  /\ outcome = "" /\ n \in ready
  /\ order' = Append(order, n)
  /\ waiting' = Rest(n)
  /\ ready' = ready \ {n}
  /\ UNCHANGED <<deps, outcome>>

(* The loop ends when nothing is pending, or raises when nothing is free.   *)
EndOrder ==
  /\ outcome = "" /\ Legal
  /\ ready = {} /\ Free = {}
  /\ outcome' = IF DOMAIN waiting = {} THEN "ordered" ELSE "cycle"
  /\ UNCHANGED <<deps, waiting, ready, order>>

GraphNext == Reject \/ Batch \/ (\E n \in Ids : Emit(n)) \/ EndOrder

GraphSpec == GraphInit /\ [][GraphNext]_graphVars

-----------------------------------------------------------------------------
GraphTypeOK ==
  /\ deps \in [Ids -> SUBSET Names]
  /\ DOMAIN waiting = Ids \ Emitted
  /\ \A n \in DOMAIN waiting : waiting[n] \subseteq Names
  /\ ready \subseteq DOMAIN waiting
  /\ order \in Seq(Ids)
  /\ outcome \in {"", "ordered", "cycle", "invalid"}

(* A set of nodes each of which waits for another of them: a cycle, and     *)
(* what leads into it.                                                      *)
Knot(C) == C \subseteq Ids /\ \A n \in C : deps[n] \cap C # {}
Cyclic == \E C \in SUBSET Ids : C # {} /\ Knot(C)

(* A plan that validate_plan accepts names only its own nodes, has no       *)
(* cycle, and every node of it was ordered.                                 *)
AcceptedIsWellFormed ==
  outcome = "ordered" =>
    /\ Emitted = Ids
    /\ \A n \in Ids : deps[n] \subseteq Ids
    /\ ~Cyclic

(* topological_order lists a node only after everything it depends on, at   *)
(* every step of its loop, and lists no node twice.                         *)
OrderRespectsDeps ==
  \A i \in DOMAIN order :
    /\ deps[order[i]] \subseteq {order[j] : j \in 1 .. i - 1}
    /\ \A j \in 1 .. i - 1 : order[j] # order[i]

(* "plan contains a dependency cycle" (goal_graph.py:77) is never raised of *)
(* a graph without one.                                                     *)
CycleIsReal == outcome = "cycle" => Cyclic

(* A plan in order: what topological_order has listed so far respects the   *)
(* dependencies, a plan it accepts is well formed, and a cycle is reported  *)
(* only of a graph that has one.                                            *)
OrderIsSound == OrderRespectsDeps /\ AcceptedIsWellFormed /\ CycleIsReal
=============================================================================
