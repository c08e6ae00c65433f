--------------------------- MODULE MCGoalAndTurns ---------------------------
(* Finite instances of four parts of a run that share no state: the plan    *)
(* graph and the token ledger of a Goal, the turn engine, and the event     *)
(* stream the turn publishes to.  They are checked in one run, one at a     *)
(* time: part, chosen at the start, says which of them moves; the others    *)
(* stay in an initial state.                                                *)
EXTENDS GoalGraph, GoalBudget, SessionEvents, Turn

CONSTANT MaxSpent  \* bound: tokens billed before the ledger is left alone

VARIABLE part

(* ROLE_BUDGET_SHARES of goal_budget.py:9-14 *)
Shares ==
  LET all == [planner |-> 10, worker |-> 70, critic |-> 15, query_resolver |-> 5]
  IN  [r \in Roles |-> all[r]]

graphRest == <<part, budgetVars, eventVars, turnVars>>
budgetRest == <<part, graphVars, eventVars, turnVars>>
eventRest == <<part, graphVars, budgetVars, turnVars>>
turnRest == <<part, graphVars, budgetVars, eventVars>>
vars == <<part, graphVars, budgetVars, eventVars, turnVars>>

Parts == {"graph", "budget", "events", "turn"}
Init ==
  /\ part \in Parts
  /\ GraphInit /\ BudgetInit /\ EventsInit /\ TurnInit
  /\ part # "graph" => \A n \in Ids : deps[n] = {}
  /\ part # "budget" => \A m \in Budgets : usage.max <= m

GraphMoves == part = "graph" /\ GraphNext /\ UNCHANGED graphRest
BudgetMoves == part = "budget" /\ spent <= MaxSpent /\ BudgetNext /\ UNCHANGED budgetRest
EventsMove == part = "events" /\ EventsNext /\ UNCHANGED eventRest
TurnMoves == part = "turn" /\ TurnNext /\ UNCHANGED turnRest
Next == GraphMoves \/ BudgetMoves \/ EventsMove \/ TurnMoves

Spec == Init /\ [][Next]_vars
(* The fairness of EventsFairSpec and TurnFairSpec, each while its part     *)
(* moves.                                                                   *)
FairSpec ==
  /\ Spec
  /\ WF_vars(part = "events" /\ (\E kind \in Kinds : Publish(kind)) /\ UNCHANGED eventRest)
  /\ WF_vars(part = "events" /\ Writer /\ UNCHANGED eventRest)
  /\ \A s \in Subscribers : WF_vars(part = "events" /\ Consume(s) /\ UNCHANGED eventRest)
  /\ WF_vars(part = "turn" /\ Producer /\ UNCHANGED turnRest)

-----------------------------------------------------------------------------
(* The type invariants of the four modules, for the states of one run.      *)
TypesOK == GraphTypeOK /\ BudgetTypeOK /\ EventsTypeOK /\ TurnTypeOK

(* No turn goes on for ever, and no consumer of its events waits for ever.  *)
RunsAndStreamsEnd == TurnsEnd /\ StreamEnds
=============================================================================
