---------------------------- MODULE GoalsProofs -----------------------------
(***************************************************************************)
(* What is proved of the processes that share a Goal and, together with    *)
(* GoalRunProofs, of the three parts of MCGoals, and that they implement   *)
(* CandidateReview.                                                        *)
(***************************************************************************)
EXTENDS MCGoals, GoalRunProofs, SequenceTheorems

(***************************************************************************)
(* What the lease of a Goal keeps, for any number of processes and tasks.  *)
(*                                                                         *)
(* LeaseKeepsApart is not inductive: that a task which drives the Goal is  *)
(* the one its process's table names needs the table and the lease to      *)
(* change together (SharingInv, second part), the table to name only tasks *)
(* of its own process that are not yet observed (third part), and every    *)
(* task that is not yet observed to be the one the table names (fourth     *)
(* part), which a task started too early breaks.                           *)
(***************************************************************************)

Engaged(t) == tasks[t].at \in {"new", "running", "stopping", "over"}

SharingInv ==
  /\ SharingTypeOK
  /\ \A p \in Processes : lease = p <=> active[p] # NoTask
  /\ \A p \in Processes : active[p] # NoTask => By(active[p]) = p /\ Engaged(active[p])
  /\ ~overtaken => \A t \in Tasks : Engaged(t) => active[By(t)] = t
  /\ \A t \in Tasks : tasks[t].at # "none" => By(t) \in Processes

(* The absence of a task or of a process is none of them.                   *)
LEMMA NoTaskIsNone == NoTask \notin Tasks /\ NoProcess \notin Processes
BY SharingAssumption DEF NoTask, Tasks, NoProcess

(* A process has no task at first.                                          *)
LEMMA SharingInitInv == SharingInit => SharingInv
<1> SUFFICES ASSUME SharingInit PROVE SharingInv
  OBVIOUS
<1>1. SharingTypeOK
  BY DEF SharingInit, SharingTypeOK, CommandKinds, Statuses, Ended
<1>2. \A t \in Tasks : tasks[t].at = "none"
  BY DEF SharingInit
<1>3. \A p \in Processes : lease # p /\ active[p] = NoTask
  BY NoTaskIsNone DEF SharingInit
<1> QED
  BY <1>1, <1>2, <1>3 DEF SharingInv, Engaged

(* Steps that change neither the table, nor the lease, nor how far a task   *)
(* is: the commands that only read or write goal.json.                      *)
LEMMA FileStep ==
  ASSUME SharingInv, SharingTypeOK', UNCHANGED <<tasks, active, lease, overtaken>>
  PROVE  SharingInv'
BY DEF SharingInv, Engaged, By

(* Steps that take one task from one engaged stage to another.              *)
LEMMA TaskGoesOn ==
  ASSUME SharingInv, SharingTypeOK', NEW t \in Tasks, Engaged(t),
         NEW stage \in {"running", "stopping", "over"}, Moves(t, stage),
         UNCHANGED <<active, lease, overtaken>>
  PROVE  SharingInv'
<1>1. \A u \in Tasks : By(u)' = By(u) /\ (Engaged(u)' <=> Engaged(u))
  BY DEF SharingInv, SharingTypeOK, Moves, Engaged, By
<1>2. \A u \in Tasks : tasks'[u].at # "none" => tasks[u].at # "none"
  BY DEF SharingInv, SharingTypeOK, Moves, Engaged
<1> QED
  BY <1>1, <1>2, NoTaskIsNone DEF SharingInv, SharingTypeOK

(* A process whose table is cleared together with its lease: the callback   *)
(* of one of its tasks.                                                     *)
LEMMA ObservedStep ==
  ASSUME SharingInv, SharingTypeOK', NEW t \in Tasks, Observed(t)
  PROVE  SharingInv'
<1> DEFINE p == By(t)
<1>1. /\ p \in Processes /\ Engaged(t)
      /\ active' = [active EXCEPT ![p] = NoTask]
      /\ lease' = IF lease = p THEN NoProcess ELSE lease
      /\ overtaken' = overtaken
  BY DEF Observed, LoopReaches, IsAt, Engaged, Cleared, Released
<1>2. \A u \in Tasks : By(u)' = By(u) /\ (Engaged(u)' <=> Engaged(u) /\ u # t)
  BY DEF SharingInv, SharingTypeOK, Observed, Moves, Engaged, By, IsAt
<1>3. \A q \in Processes : lease' = q <=> active'[q] # NoTask
  BY <1>1, NoTaskIsNone DEF SharingInv, SharingTypeOK
<1>4. \A q \in Processes :
        active'[q] # NoTask => By(active[q])' = q /\ Engaged(active[q])' /\ active'[q] = active[q]
  <2> SUFFICES ASSUME NEW q \in Processes, active'[q] # NoTask
               PROVE  By(active[q])' = q /\ Engaged(active[q])' /\ active'[q] = active[q]
    OBVIOUS
  <2>1. q # p /\ active'[q] = active[q] /\ active[q] \in Tasks
    BY <1>1, NoTaskIsNone DEF SharingInv, SharingTypeOK
  <2>2. By(active[q]) = q /\ Engaged(active[q]) /\ active[q] # t
    BY <2>1, NoTaskIsNone DEF SharingInv
  <2> QED
    BY <1>2, <2>1, <2>2
<1>5. ~overtaken' => \A u \in Tasks : Engaged(u)' => active'[By(u)'] = u
  <2> SUFFICES ASSUME ~overtaken, NEW u \in Tasks, Engaged(u)'
               PROVE  active'[By(u)] = u
    BY <1>1, <1>2
  <2>1. Engaged(u) /\ u # t /\ active[By(u)] = u /\ active[p] = t
    BY <1>1, <1>2 DEF SharingInv
  <2>2. By(u) # p
    BY <2>1
  <2> QED
    BY <1>1, <2>1, <2>2, NoTaskIsNone DEF SharingInv, SharingTypeOK
<1>6. \A u \in Tasks : tasks'[u].at # "none" => By(u)' \in Processes
  BY <1>2, <1>1 DEF SharingInv, SharingTypeOK, Observed, Moves, IsAt, By
<1> QED
  BY <1>3, <1>4, <1>5, <1>6 DEF SharingInv, Engaged, By

(* The lease and the table change together when a task is created; only     *)
(* with a predecessor in the table was it created too early.                *)
LEMMA ScheduleStep ==
  ASSUME SharingInv, SharingTypeOK', NEW p \in Processes, Schedule(p)
  PROVE  SharingInv'
<1>1. PICK t \in Unused :
        /\ tasks' = [tasks EXCEPT ![t] = [by |-> p, at |-> "new"]]
        /\ active' = [active EXCEPT ![p] = t]
  BY DEF Schedule
<1>2. /\ lease' = p /\ Released(p) = NoProcess
      /\ overtaken' = (overtaken \/ active[p] # NoTask)
      /\ t \in Tasks /\ ~Engaged(t)
  BY <1>1 DEF Schedule, Acquirable, Unused, Engaged
<1>3. \A u \in Tasks : /\ By(u)' = IF u = t THEN p ELSE By(u)
                       /\ Engaged(u)' <=> (u = t \/ Engaged(u))
  BY <1>1, <1>2 DEF SharingInv, SharingTypeOK, Engaged, By
<1>4. \A q \in Processes \ {p} : lease # q /\ active[q] = NoTask
  BY <1>2, NoTaskIsNone DEF SharingInv, Released
<1>5. \A q \in Processes : active'[q] = IF q = p THEN t ELSE NoTask
  BY <1>1, <1>4 DEF SharingInv, SharingTypeOK
<1>6. ~overtaken' => \A u \in Tasks : Engaged(u)' => active'[By(u)'] = u
  <2> SUFFICES ASSUME ~overtaken', NEW u \in Tasks, Engaged(u)'
               PROVE  active'[By(u)'] = u
    OBVIOUS
  <2>1. ~Engaged(u)
    <3> SUFFICES ASSUME Engaged(u) PROVE FALSE
      OBVIOUS
    <3>1. active[By(u)] = u /\ By(u) \in Processes
      BY <1>2 DEF SharingInv, Engaged
    <3> QED
      BY <1>2, <1>4, <3>1, NoTaskIsNone
  <2> QED
    BY <1>3, <1>5, <2>1
<1>7. \A u \in Tasks : tasks'[u].at # "none" => By(u)' \in Processes
  BY <1>1, <1>2, <1>3 DEF SharingInv, SharingTypeOK
<1>8. \A q \in Processes : lease' = q <=> active'[q] # NoTask
  BY <1>2, <1>5, NoTaskIsNone
<1>9. \A q \in Processes :
         active'[q] # NoTask => tasks'[active'[q]].by = q
                                /\ tasks'[active'[q]].at \in {"new", "running", "stopping", "over"}
  BY <1>1, <1>2, <1>5 DEF SharingInv, SharingTypeOK
<1> QED
  BY <1>6, <1>7, <1>8, <1>9 DEF SharingInv, Engaged, By

(* A command that is refused leaves a table and a lease that agree: if      *)
(* another process holds the lease, there was nothing to clear.             *)
LEMMA RefusalStep ==
  ASSUME SharingInv, SharingTypeOK', NEW p \in Processes, ScheduleRaises(p)
  PROVE  SharingInv'
<1>1. CASE UNCHANGED <<active, lease>>
  BY <1>1, FileStep DEF ScheduleRaises
<1>2. CASE ~Acquirable(p) /\ active' = Cleared(p) /\ lease' = Released(p)
  <2>1. lease # p /\ active[p] = NoTask
    BY <1>2 DEF Acquirable, Released, SharingInv
  <2>2. active' = active /\ lease' = lease
    BY <1>2, <2>1 DEF Cleared, Released, SharingInv, SharingTypeOK
  <2> QED
    BY <2>2, FileStep DEF ScheduleRaises
<1> QED
  BY <1>1, <1>2 DEF ScheduleRaises

(* The tasks, the table and the lease of a process die together.            *)
LEMMA DeathStep ==
  ASSUME SharingInv, SharingTypeOK', NEW p \in Processes, ProcessDies(p)
  PROVE  SharingInv'
<1>1. /\ active' = [active EXCEPT ![p] = NoTask]
      /\ lease' = IF lease = p THEN NoProcess ELSE lease
      /\ overtaken' = overtaken
  BY DEF ProcessDies, Cleared, Released
<1>2. \A u \in Tasks : By(u)' = By(u) /\ (Engaged(u)' <=> Engaged(u) /\ By(u) # p)
                       /\ (tasks'[u].at # "none" => tasks[u].at # "none" \/ By(u) = p)
  BY DEF SharingInv, SharingTypeOK, ProcessDies, Engaged, By
<1>3. \A q \in Processes : lease' = q <=> active'[q] # NoTask
  BY <1>1, NoTaskIsNone DEF SharingInv, SharingTypeOK
<1>4. \A q \in Processes : active'[q] # NoTask => q # p /\ active'[q] = active[q]
                                                  /\ active[q] \in Tasks
  BY <1>1, NoTaskIsNone DEF SharingInv, SharingTypeOK
<1>5. \A q \in Processes : active'[q] # NoTask => By(active[q])' = q /\ Engaged(active[q])'
  BY <1>2, <1>4 DEF SharingInv
<1>6. ~overtaken' => \A u \in Tasks : Engaged(u)' => active'[By(u)'] = u
  BY <1>1, <1>2 DEF SharingInv, SharingTypeOK, Engaged
<1>7. \A u \in Tasks : tasks'[u].at # "none" => By(u)' \in Processes
  BY <1>2 DEF SharingInv
<1> QED
  BY <1>3, <1>4, <1>5, <1>6, <1>7 DEF SharingInv, Engaged, By

(* Every step keeps the types.                                              *)
LEMMA SharingTypeStep ==
  ASSUME SharingInv, [SharingNext]_sharingVars
  PROVE  SharingTypeOK'
<1>0. SharingTypeOK /\ NoTask \notin Tasks /\ NoProcess \notin Processes
  BY NoTaskIsNone DEF SharingInv
<1>1. ASSUME NEW p \in Processes, CommandStep(p) PROVE SharingTypeOK'
  <2>1. CASE ResumeLoads(p) \/ AnswerLoads(p) \/ SavesRunning(p) \/ CancelLoads(p) \/ CancelSaves(p)
             \/ CancelEnds(p)
    BY <1>0, <2>1 DEF SharingTypeOK, ResumeLoads, AnswerLoads, SavesRunning, CancelLoads, CancelSaves,
       CancelEnds, Executes, CommandKinds, Statuses, Ended
  <2>2. CASE Schedule(p)
    BY <1>0, <2>2 DEF SharingTypeOK, Schedule, Executes, CommandKinds, Unused
  <2>3. CASE ScheduleRaises(p)
    BY <1>0, <2>3 DEF SharingTypeOK, ScheduleRaises, Executes, CommandKinds, Cleared, Released
  <2>4. CASE CancelTask(p)
    BY <1>0, <2>4 DEF SharingTypeOK, CancelTask, Moves
  <2> QED
    BY <1>1, <2>1, <2>2, <2>3, <2>4 DEF CommandStep
<1>2. ASSUME NEW p \in Processes, ProcessDies(p) PROVE SharingTypeOK'
  BY <1>0, <1>2 DEF SharingTypeOK, ProcessDies, Cleared, Released, Executes, CommandKinds
<1>3. ASSUME NEW t \in Tasks, TaskStep(t) PROVE SharingTypeOK'
  <2>1. CASE Starts(t)
    BY <1>0, <2>1 DEF SharingTypeOK, Starts, Moves
  <2>2. CASE RunSaves(t)
    BY <1>0, <2>2 DEF SharingTypeOK, RunSaves, Statuses
  <2>3. CASE Observed(t)
    BY <1>0, <2>3 DEF SharingTypeOK, Observed, Moves, Cleared, Released
  <2>4. ASSUME NEW status \in Ended \cup {"waiting"}, RunEndsAs(t, status) PROVE SharingTypeOK'
    BY <1>0, <2>4 DEF SharingTypeOK, RunEndsAs, Moves, Statuses, Ended
  <2> QED
    BY <1>3, <2>1, <2>2, <2>3, <2>4 DEF TaskStep
<1>4. CASE UNCHANGED sharingVars
  BY <1>0, <1>4 DEF SharingTypeOK, sharingVars
<1> QED
  BY <1>1, <1>2, <1>3, <1>4 DEF SharingNext

(* Every step of the processes that share a goal keeps the invariant.       *)
LEMMA SharingStep == SharingInv /\ [SharingNext]_sharingVars => SharingInv'
<1> SUFFICES ASSUME SharingInv, [SharingNext]_sharingVars PROVE SharingInv'
  OBVIOUS
<1>0. SharingTypeOK'
  BY SharingTypeStep
<1>1. ASSUME NEW p \in Processes, CommandStep(p) PROVE SharingInv'
  <2>1. CASE ResumeLoads(p) \/ AnswerLoads(p) \/ SavesRunning(p) \/ CancelLoads(p) \/ CancelSaves(p)
             \/ CancelEnds(p)
    BY <1>0, <2>1, FileStep DEF ResumeLoads, AnswerLoads, SavesRunning, CancelLoads, CancelSaves,
       CancelEnds
  <2>2. CASE Schedule(p)
    BY <1>0, <2>2, ScheduleStep
  <2>3. CASE ScheduleRaises(p)
    BY <1>0, <2>3, RefusalStep
  <2>4. CASE CancelTask(p)
    <3>1. active[p] \in Tasks /\ Engaged(active[p])
      BY <2>4 DEF CancelTask, Live, IsAt, SharingInv, SharingTypeOK, Engaged
    <3>2. CASE UNCHANGED tasks
      BY <1>0, <2>4, <3>2, FileStep DEF CancelTask
    <3>3. CASE Moves(active[p], "stopping")
      BY <1>0, <2>4, <3>1, <3>3, TaskGoesOn DEF CancelTask
    <3> QED
      BY <2>4, <3>2, <3>3 DEF CancelTask
  <2> QED
    BY <1>1, <2>1, <2>2, <2>3, <2>4 DEF CommandStep
<1>2. ASSUME NEW p \in Processes, ProcessDies(p) PROVE SharingInv'
  BY <1>0, <1>2, DeathStep
<1>3. ASSUME NEW t \in Tasks, TaskStep(t) PROVE SharingInv'
  <2>1. CASE Starts(t)
    BY <1>0, <2>1, TaskGoesOn DEF Starts, IsAt, Engaged
  <2>2. CASE RunSaves(t)
    BY <1>0, <2>2, FileStep DEF RunSaves
  <2>3. CASE Observed(t)
    BY <1>0, <2>3, ObservedStep
  <2>4. ASSUME NEW status \in Ended \cup {"waiting"}, RunEndsAs(t, status) PROVE SharingInv'
    BY <1>0, <2>4, TaskGoesOn DEF RunEndsAs, IsAt, Engaged
  <2> QED
    BY <1>3, <2>1, <2>2, <2>3, <2>4 DEF TaskStep
<1>4. CASE UNCHANGED sharingVars
  BY <1>0, <1>4, FileStep DEF sharingVars
<1> QED
  BY <1>1, <1>2, <1>3, <1>4 DEF SharingNext

(* The invariant gives what the lease keeps: two tasks that drive the Goal  *)
(* have processes that both hold the lease, so one process and one table.   *)
LEMMA InvKeepsApart == SharingInv => LeaseKeepsApart
<1> SUFFICES ASSUME SharingInv PROVE LeaseKeepsApart
  OBVIOUS
<1>1. \A t \in Tasks : Live(t) => Engaged(t)
  BY DEF Live, IsAt, Engaged
<1>2. LeaseIsFreed
  <2> SUFFICES ASSUME NEW p \in Processes, lease = p
               PROVE  Live(active[p]) \/ IsAt(active[p], "over")
    BY DEF LeaseIsFreed
  <2>1. active[p] # NoTask /\ Engaged(active[p])
    BY DEF SharingInv
  <2> QED
    BY <2>1 DEF Engaged, Live, IsAt
<1>3. ASSUME ~overtaken, NEW t \in Tasks, Live(t)
      PROVE  By(t) \in Processes /\ lease = By(t) /\ active[By(t)] = t
  BY <1>1, <1>3, NoTaskIsNone DEF SharingInv, Engaged
<1>4. ~overtaken => OneRunner
  BY <1>3 DEF OneRunner
<1> QED
  BY <1>2, <1>3, <1>4 DEF LeaseKeepsApart

(* For any processes and any number of tasks: the lease is given back, and  *)
(* unless a task was started before its predecessor's callback, one task at *)
(* most drives the Goal and its process holds the lease.                    *)
THEOREM LeaseHolds == SharingSpec => []LeaseKeepsApart
<1>1. SharingSpec => []SharingInv
  BY SharingInitInv, SharingStep, PTL DEF SharingSpec
<1> QED
  BY <1>1, InvKeepsApart, PTL

-----------------------------------------------------------------------------
(***************************************************************************)
(* MCGoals: each of its three parts, with the constants of its own.        *)
(***************************************************************************)

(* The part called "detached" has constants of its own, for which the      *)
(* lemmas of GoalRunProofs hold as well.                                    *)
OneP == INSTANCE GoalRunProofs WITH
  Nodes <- {"a"}, Plans <- SinglePlans, MaxCriticRounds <- 1, MaxDetached <- 1

(* A plan of one node that depends on nothing is one a planner may return.  *)
LEMMA SinglePlansAreWellFormed == \A p \in SinglePlans : OneP!WellFormed(p)
<1> SUFFICES ASSUME NEW p \in SinglePlans PROVE OneP!WellFormed(p)
  OBVIOUS
<1>1. DOMAIN p = {"a"} /\ p["a"].deps = {}
  BY DEF SinglePlans, OnlyA, Again, Spec1, Spec2
<1>2. IsFiniteSet(DOMAIN p)
  BY <1>1, FS_Singleton
<1>3. OneP!IsFiniteSet(DOMAIN p)
  BY <1>2 DEF IsFiniteSet, OneP!IsFiniteSet
<1> QED BY <1>1, <1>3 DEF OneP!WellFormed, OneP!Subsets

(* What GoalRun assumes of its constants it may assume of these.            *)
LEMMA OneAssumptions ==
  /\ \A p \in SinglePlans : OneP!WellFormed(p)
  /\ Impacts \subseteq {"info", "dependency", "scope", "permission", "acceptance", "safety"}
  /\ {MaxAttempts, Concurrency, MaxWindows} \subseteq Nat \ {0}
  /\ {MaxReplans, 1, MaxQueryRounds, 1} \subseteq Nat
<1>1. 1 \in Nat
  OBVIOUS
<1> QED BY <1>1, GoalAssumptions, SinglePlansAreWellFormed

(* MCGoals and this module name the same actions.                           *)
LEMMA SameNext == One!Next <=> OneP!Next
<1> USE DEF One!IsInjective, OneP!IsInjective, One!Only, OneP!Only, One!Cardinality,
     OneP!Cardinality, One!IsFiniteSet, OneP!IsFiniteSet, One!git, OneP!git, One!vars,
     OneP!vars, One!AllCompleted, OneP!AllCompleted, One!Answered, OneP!Answered,
     One!Applicable, OneP!Applicable, One!Applied, OneP!Applied, One!Asking, OneP!Asking,
     One!At, OneP!At, One!AttemptsOf, OneP!AttemptsOf, One!Awaiting, OneP!Awaiting,
     One!Becomes, OneP!Becomes, One!Busy, OneP!Busy, One!Collected, OneP!Collected,
     One!Collecting, OneP!Collecting, One!Completed, OneP!Completed, One!Dies, OneP!Dies,
     One!Dispatched, OneP!Dispatched, One!Finish, OneP!Finish, One!GiveUp, OneP!GiveUp,
     One!Head0, OneP!Head0, One!IdleRun, OneP!IdleRun, One!InFlight, OneP!InFlight,
     One!Interrupted, OneP!Interrupted, One!Marked, OneP!Marked, One!Merged, OneP!Merged,
     One!NewNode, OneP!NewNode, One!NextNumber, OneP!NextNumber, One!Orders, OneP!Orders,
     One!Query, OneP!Query, One!Raised, OneP!Raised, One!Ready, OneP!Ready,
     One!Recoverable, OneP!Recoverable, One!Recovered, OneP!Recovered, One!Renewed,
     OneP!Renewed, One!Replan, OneP!Replan, One!Resolving, OneP!Resolving, One!Result,
     OneP!Result, One!Returns, OneP!Returns, One!RunningAttempts, OneP!RunningAttempts,
     One!Save, OneP!Save, One!Spent, OneP!Spent, One!WaitForParent, OneP!WaitForParent,
     One!WaitingQueries, OneP!WaitingQueries, One!WithAttempt, OneP!WithAttempt,
     One!WithNode, OneP!WithNode, One!WithQuery, OneP!WithQuery, One!Worker, OneP!Worker,
     One!Admitted, OneP!Admitted
<1>1. One!Load <=> OneP!Load
  BY Zenon DEF One!Load, OneP!Load
<1>2. One!PlanFails <=> OneP!PlanFails
  BY Zenon DEF One!PlanFails, OneP!PlanFails
<1>3. One!Open <=> OneP!Open
  BY Zenon DEF One!Open, OneP!Open
<1>4. One!OpenFails <=> OneP!OpenFails
  BY Zenon DEF One!OpenFails, OneP!OpenFails
<1>5. One!Iterate <=> OneP!Iterate
  BY Zenon DEF One!Iterate, OneP!Iterate
<1>6. One!Gather <=> OneP!Gather
  BY Zenon DEF One!Gather, OneP!Gather
<1>7. One!Settle <=> OneP!Settle
  BY Zenon DEF One!Settle, OneP!Settle
<1>8. One!VerifiersPass <=> OneP!VerifiersPass
  BY Zenon DEF One!VerifiersPass, OneP!VerifiersPass
<1>9. One!VerifiersFail <=> OneP!VerifiersFail
  BY Zenon DEF One!VerifiersFail, OneP!VerifiersFail
<1>10. One!CriticPasses <=> OneP!CriticPasses
  BY Zenon DEF One!CriticPasses, OneP!CriticPasses
<1>11. One!CriticRevises <=> OneP!CriticRevises
  BY Zenon DEF One!CriticRevises, OneP!CriticRevises
<1>12. One!CriticFails <=> OneP!CriticFails
  BY Zenon DEF One!CriticFails, OneP!CriticFails
<1>13. One!CancelUnstarted <=> OneP!CancelUnstarted
  BY Zenon DEF One!CancelUnstarted, OneP!CancelUnstarted
<1>14. One!DetachedSave <=> OneP!DetachedSave
  BY Zenon DEF One!DetachedSave, OneP!DetachedSave
<1>15. One!DetachedEnds <=> OneP!DetachedEnds
  BY Zenon DEF One!DetachedEnds, OneP!DetachedEnds
<1>16. One!BudgetSave <=> OneP!BudgetSave
  BY Zenon DEF One!BudgetSave, OneP!BudgetSave
<1>17. One!Crash <=> OneP!Crash
  BY Zenon DEF One!Crash, OneP!Crash
<1>18. One!CrashAfterBranch <=> OneP!CrashAfterBranch
  BY Zenon DEF One!CrashAfterBranch, OneP!CrashAfterBranch
<1>19. One!Resume <=> OneP!Resume
  BY Zenon DEF One!Resume, OneP!Resume
<1>20. One!CancelIdle <=> OneP!CancelIdle
  BY Zenon DEF One!CancelIdle, OneP!CancelIdle
<1>21. \A x : One!Dispatch(x) <=> OneP!Dispatch(x)
  BY Zenon DEF One!Dispatch, OneP!Dispatch
<1>22. \A x : One!DispatchFails(x) <=> OneP!DispatchFails(x)
  BY Zenon DEF One!DispatchFails, OneP!DispatchFails
<1>23. \A x : One!WorkerCompletes(x) <=> OneP!WorkerCompletes(x)
  BY Zenon DEF One!WorkerCompletes, OneP!WorkerCompletes
<1>24. \A x : One!WorkerStops(x) <=> OneP!WorkerStops(x)
  BY Zenon DEF One!WorkerStops, OneP!WorkerStops
<1>25. \A x : One!WorkerFails(x) <=> OneP!WorkerFails(x)
  BY Zenon DEF One!WorkerFails, OneP!WorkerFails
<1>26. \A x : One!Resolve(x) <=> OneP!Resolve(x)
  BY Zenon DEF One!Resolve, OneP!Resolve
<1>27. \A x : One!CollectRaised(x) <=> OneP!CollectRaised(x)
  BY Zenon DEF One!CollectRaised, OneP!CollectRaised
<1>28. \A x : One!CollectWaiting(x) <=> OneP!CollectWaiting(x)
  BY Zenon DEF One!CollectWaiting, OneP!CollectWaiting
<1>29. \A x : One!CollectReplan(x) <=> OneP!CollectReplan(x)
  BY Zenon DEF One!CollectReplan, OneP!CollectReplan
<1>30. \A x : One!CollectBroke(x) <=> OneP!CollectBroke(x)
  BY Zenon DEF One!CollectBroke, OneP!CollectBroke
<1>31. \A x : One!CollectFailed(x) <=> OneP!CollectFailed(x)
  BY Zenon DEF One!CollectFailed, OneP!CollectFailed
<1>32. \A x : One!Merge(x) <=> OneP!Merge(x)
  BY Zenon DEF One!Merge, OneP!Merge
<1>33. \A x : One!CrashAfterWorktree(x) <=> OneP!CrashAfterWorktree(x)
  BY Zenon DEF One!CrashAfterWorktree, OneP!CrashAfterWorktree
<1>34. \A x : One!CrashAfterMerge(x) <=> OneP!CrashAfterMerge(x)
  BY Zenon DEF One!CrashAfterMerge, OneP!CrashAfterMerge
<1>35. \A x : One!Answer(x) <=> OneP!Answer(x)
  BY Zenon DEF One!Answer, OneP!Answer
<1>36. \A x : One!PlanInitially(x) <=> OneP!PlanInitially(x)
  BY Zenon DEF One!PlanInitially, OneP!PlanInitially
<1>37. \A x : One!PlanAgain(x) <=> OneP!PlanAgain(x)
  BY Zenon DEF One!PlanAgain, OneP!PlanAgain
<1>38. \A x : One!Interrupt(x) <=> OneP!Interrupt(x)
  BY Zenon DEF One!Interrupt, OneP!Interrupt
<1>39. \A x, y : One!WorkerAsks(x, y) <=> OneP!WorkerAsks(x, y)
  BY Zenon DEF One!WorkerAsks, OneP!WorkerAsks
<1> QED
  BY <1>1, <1>2, <1>3, <1>4, <1>5, <1>6, <1>7, <1>8, <1>9, <1>10, <1>11, <1>12, <1>13,
     <1>14, <1>15, <1>16, <1>17, <1>18, <1>19, <1>20, <1>21, <1>22, <1>23, <1>24, <1>25,
     <1>26, <1>27, <1>28, <1>29, <1>30, <1>31, <1>32, <1>33, <1>34, <1>35, <1>36, <1>37,
     <1>38, <1>39, Zenon DEF One!Next, OneP!Next, One!RunStep, OneP!RunStep,
     One!Environment, OneP!Environment, One!Commands, OneP!Commands, One!WorkerStep,
     OneP!WorkerStep, One!CollectStep, OneP!CollectStep

(* So do their invariants, each with the constants of its part.             *)
LEMMA SameProperties ==
  /\ OneP!TypeOK <=> One!TypeOK
  /\ OneP!CompletedIsSound <=> One!CompletedIsSound
  /\ OneP!DispatchIsSound <=> One!DispatchIsSound
<1>1. OneP!TypeOK <=> One!TypeOK
  BY Zenon DEF OneP!TypeOK, One!TypeOK, OneP!GoalOK, One!GoalOK, OneP!NewGoal, One!NewGoal,
     OneP!GoalStatus, One!GoalStatus, OneP!NodeRecord, One!NodeRecord, OneP!AttemptRecord,
     One!AttemptRecord, OneP!QueryRecord, One!QueryRecord, OneP!Stages, One!Stages,
     OneP!Contracts, One!Contracts, OneP!NodeStatus, One!NodeStatus, OneP!AttemptStatus,
     One!AttemptStatus, OneP!QueryStatus, One!QueryStatus
<1>2. OneP!CompletedIsSound <=> One!CompletedIsSound
  BY Zenon DEF OneP!CompletedIsSound, One!CompletedIsSound, OneP!CompletedIsReviewed,
     One!CompletedIsReviewed, OneP!CompletedIsMerged, One!CompletedIsMerged, OneP!Completed,
     One!Completed
<1>3. OneP!DispatchIsSound <=> One!DispatchIsSound
  BY Zenon DEF OneP!DispatchIsSound, One!DispatchIsSound, OneP!PrerequisitesInBase,
     One!PrerequisitesInBase, OneP!AttemptsBounded, One!AttemptsBounded, OneP!AttemptsOf,
     One!AttemptsOf, OneP!WorkersIsolated, One!WorkersIsolated, OneP!Busy, One!Busy,
     OneP!Worker, One!Worker, One!Cardinality, OneP!Cardinality, One!IsFiniteSet,
     OneP!IsFiniteSet
<1> QED BY <1>1, <1>2, <1>3

-----------------------------------------------------------------------------
(* The invariant of each part, and of what the others leave alone.          *)
PartsInv ==
  /\ SharingInv
  /\ IF part = "detached" THEN OneP!RunInv ELSE RunInv

LEMMA PartsInvHolds == AllInit => PartsInv
<1> SUFFICES ASSUME AllInit PROVE PartsInv
  OBVIOUS
<1>1. SharingInv /\ RunInv
  BY SharingInitInv, RunInvHolds DEF AllInit
<1>2. OneP!Init
  <2>1. Init
    BY DEF AllInit
  <2>2. OneP!NewGoal = NewGoal /\ OneP!At("loading") = At("loading")
    BY Zenon DEF OneP!NewGoal, NewGoal, OneP!At, At, OneP!IdleRun, IdleRun
  <2> QED BY <2>1, <2>2, Zenon DEF Init, OneP!Init
<1>3. OneP!RunInv
  BY <1>2, OneAssumptions, OneP!RunInvHolds
<1> QED BY <1>1, <1>3 DEF PartsInv

LEMMA PartsInvStep == PartsInv /\ [AllNext]_allVars => PartsInv'
<1> SUFFICES ASSUME PartsInv, [AllNext]_allVars PROVE PartsInv'
  OBVIOUS
<1>0. SharingInv /\ (part = "detached" => OneP!RunInv) /\ (part # "detached" => RunInv)
  BY DEF PartsInv
<1>1. UNCHANGED sharingVars => SharingInv'
  BY <1>0, SharingStep
<1>2. UNCHANGED goalVars /\ part # "detached" => RunInv'
  <2>1. UNCHANGED goalVars => UNCHANGED vars
    BY DEF goalVars, vars, git
  <2> QED BY <2>1, <1>0, RunInvIsInductive
<1>3. UNCHANGED goalVars /\ part = "detached" => OneP!RunInv'
  <2>1. UNCHANGED goalVars => UNCHANGED OneP!vars
    BY DEF goalVars, OneP!vars, OneP!git
  <2> QED BY <2>1, <1>0, OneAssumptions, OneP!RunInvIsInductive
<1>4. CASE RunMoves
  <2>1. part = "run" /\ part' = part /\ Next /\ UNCHANGED sharingVars
    BY <1>4 DEF RunMoves
  <2>2. "run" # "detached"
    OBVIOUS
  <2>3. RunInv'
    BY <2>1, <2>2, <1>0, RunInvIsInductive
  <2> QED BY <2>1, <2>2, <2>3, <1>1 DEF PartsInv
<1>5. CASE DetachedMoves
  <2>1. part = "detached" /\ part' = part /\ OneP!Next /\ UNCHANGED sharingVars
    BY <1>5, SameNext DEF DetachedMoves
  <2>2. OneP!RunInv'
    BY <2>1, <1>0, OneAssumptions, OneP!RunInvIsInductive
  <2> QED BY <2>1, <2>2, <1>1 DEF PartsInv
<1>6. CASE SharingMoves
  <2>1. part = "shared" /\ part' = part /\ SharingNext /\ UNCHANGED goalVars
    BY <1>6 DEF SharingMoves
  <2>2. "shared" # "detached"
    OBVIOUS
  <2>3. SharingInv'
    BY <2>1, <1>0, SharingStep
  <2> QED BY <2>1, <2>2, <2>3, <1>2 DEF PartsInv
<1>7. CASE UNCHANGED allVars
  <2>1. part' = part /\ UNCHANGED goalVars /\ UNCHANGED sharingVars
    BY <1>7 DEF allVars
  <2> QED BY <2>1, <1>1, <1>2, <1>3 DEF PartsInv
<1> QED BY <1>4, <1>5, <1>6, <1>7 DEF AllNext

LEMMA PartsInvAlways == AllSpec => []PartsInv
<1> QED BY PartsInvHolds, PartsInvStep, PTL DEF AllSpec

(* In each part of MCGoals the records are of a Goal, what is reported as   *)
(* completed is, and who is dispatched may be; the part with a detached     *)
(* turn has its own constants.                                              *)
THEOREM AllWorkIsSound == AllSpec => []WorkIsSound
<1>1. PartsInv => WorkIsSound
  <2> SUFFICES ASSUME PartsInv PROVE WorkIsSound
    OBVIOUS
  <2>1. SharingTypeOK
    BY DEF PartsInv, SharingInv
  <2>2. CASE part = "detached"
    <3>1. OneP!RunInv
      BY <2>2 DEF PartsInv
    <3>2. OneP!TypeOK /\ OneP!CompletedIsSound /\ OneP!DispatchIsSound
      BY <3>1, OneAssumptions, OneP!RunInvType, OneP!RunInvCompleted, OneP!RunInvDispatch
    <3> QED BY <2>1, <2>2, <3>2, SameProperties DEF WorkIsSound
  <2>3. CASE part # "detached"
    <3>1. RunInv
      BY <2>3 DEF PartsInv
    <3>2. TypeOK /\ CompletedIsSound /\ DispatchIsSound
      BY <3>1, RunInvType, RunInvCompleted, RunInvDispatch
    <3> QED BY <2>1, <2>3, <3>2 DEF WorkIsSound
  <2> QED BY <2>2, <2>3
<1> QED BY <1>1, PartsInvAlways, PTL

(* The lease keeps the tasks of the processes apart in this composition,    *)
(* too.                                                                     *)
THEOREM AllLeaseHolds == AllSpec => []LeaseKeepsApart
<1>1. PartsInv => LeaseKeepsApart
  BY InvKeepsApart DEF PartsInv
<1> QED BY <1>1, PartsInvAlways, PTL

-----------------------------------------------------------------------------
(***************************************************************************)
(* MCGoals implements CandidateReview, if no turn is left behind in a      *)
(* thread (MaxDetached = 0) and no answer changes the plan (Impacts = {}). *)
(* The invariant needed beside PartsInv is that goal.json has the plan of  *)
(* the record in memory.                                                   *)
(***************************************************************************)

(* What the abstract specification sees of a record is its plan: which      *)
(* nodes it has and under which contracts.                                  *)
SamePlan(g, h) ==
  /\ DOMAIN h.nodes = DOMAIN g.nodes
  /\ \A n \in DOMAIN g.nodes : h.nodes[n].spec = g.nodes[n].spec

(* Where no detached turn writes back what it holds, goal.json has the plan *)
(* of the record in memory.                                                 *)
Undetached == RunInv /\ detached = {} /\ SamePlan(goal, disk)

(* A step of which the abstract specification sees nothing.                 *)
Unseen ==
  /\ detached' = {} /\ SamePlan(goal, goal') /\ SamePlan(goal, disk')
  /\ log' = log /\ review'.verified = review.verified
  /\ disk'.status = "completed" <=> disk.status = "completed"

(* A change of status keeps the plan.                                       *)
LEMMA AlikeSamePlan ==
  ASSUME NEW g, NEW h, Alike(g, h)
  PROVE  SamePlan(g, h) /\ h \in GoalRecord
BY DEF Alike, SamePlan

(* Steps that keep the plan add up to one.                                  *)
LEMMA SamePlanTrans ==
  ASSUME NEW g, NEW h, NEW k, SamePlan(g, h), SamePlan(h, k)
  PROVE  SamePlan(g, k)
BY DEF SamePlan

(* What the invariant says of a run that has not ended.                     *)
LEMMA OnTheWay ==
  ASSUME Undetached
  PROVE  /\ SamePlan(goal, goal) /\ SamePlan(goal, disk) /\ detached = {}
         /\ goal \in GoalRecord /\ disk \in GoalRecord
         /\ RecordInv(goal, log) /\ RecordInv(disk, log)
         /\ run.at # "idle" => goal.status # "completed" /\ disk.status # "completed"
<1>1. /\ RecordInv(goal, log) /\ RecordInv(disk, log) /\ StageInv
      /\ SamePlan(goal, disk) /\ detached = {}
  BY DEF Undetached, RunInv
<1>2. goal \in GoalRecord /\ disk \in GoalRecord
  BY <1>1 DEF RecordInv
<1>3. SamePlan(goal, goal)
  BY DEF SamePlan
<1>4. run.at # "idle" => goal.status # "completed" /\ disk.status # "completed"
  BY <1>1 DEF StageInv, Over
<1> QED BY <1>1, <1>2, <1>3, <1>4

(* The task changes its record, and writes it or not, but keeps the plan.   *)
LEMMA UnseenSet ==
  ASSUME Undetached, run.at # "idle", SamePlan(goal, goal'), disk' = disk,
         UNCHANGED <<detached, git, review>>
  PROVE  Unseen
<1>1. SamePlan(goal, disk) /\ detached = {}
  BY OnTheWay
<1>2. log' = log /\ review' = review /\ detached' = detached
  BY DEF git
<1> QED BY <1>1, <1>2 DEF Unseen

(* The task changes and writes its record, but keeps the plan.              *)
LEMMA UnseenSave ==
  ASSUME Undetached, run.at # "idle", NEW h, SamePlan(goal, h), goal' = h, disk' = h,
         h.status # "completed", UNCHANGED <<detached, git, review>>
  PROVE  Unseen
<1>1. detached = {} /\ disk.status # "completed"
  BY OnTheWay
<1>2. log' = log /\ review' = review /\ detached' = detached
  BY DEF git
<1> QED BY <1>1, <1>2 DEF Unseen

(* The run ends, but not as completed.                                      *)
LEMMA UnseenFinish ==
  ASSUME Undetached, run.at # "idle", NEW g \in GoalRecord, SamePlan(goal, g),
         NEW s \in GoalStatus, s # "completed", Finish(g, s),
         UNCHANGED <<detached, git, review>>
  PROVE  Unseen
<1> DEFINE h == [g EXCEPT !.status = s]
<1>1. Alike(g, h) /\ h.status = s
  BY OuterAlike
<1>2. goal' = h /\ disk' = h
  BY DEF Finish, Save
<1> HIDE DEF h
<1>3. SamePlan(goal, h)
  BY <1>1, AlikeSamePlan, SamePlanTrans
<1> QED BY <1>1, <1>2, <1>3, UnseenSave

(* A replan is decided on; the plan stays until it is made.                 *)
LEMMA UnseenReplan ==
  ASSUME Undetached, run.at # "idle", NEW g \in GoalRecord, SamePlan(goal, g),
         NEW why, NEW asked, Replan(g, why, asked), UNCHANGED <<detached, git, review>>
  PROVE  Unseen
<1>1. CASE g.replans >= MaxReplans
  BY <1>1, Words, UnseenFinish DEF Replan
<1>2. CASE ~ (g.replans >= MaxReplans)
  <2>1. goal' = g /\ disk' = disk
    BY <1>2 DEF Replan
  <2> QED BY <2>1, UnseenSet
<1> QED BY <1>1, <1>2

(* The task on its way from one await to the next.                          *)
LEMMA UnseenTaskSteps ==
  ASSUME Undetached, Load \/ PlanFails \/ Open \/ OpenFails
  PROVE  Unseen
<1>0. /\ SamePlan(goal, goal) /\ SamePlan(goal, disk) /\ goal \in GoalRecord
      /\ run.at # "idle" => disk.status # "completed"
  BY OnTheWay
<1>1. CASE Load
  <2>1. goal' = disk /\ disk' = disk /\ run.at # "idle" /\ UNCHANGED <<detached, git, review>>
    BY <1>1 DEF Load, Save
  <2> QED BY <2>1, <1>0, UnseenSave
<1>2. CASE PlanFails
  <2>1. PICK s \in {"blocked", "budget_exhausted"} : Finish(goal, s)
    BY <1>2 DEF PlanFails
  <2>2. run.at # "idle" /\ UNCHANGED <<detached, git, review>>
    BY <1>2 DEF PlanFails
  <2> QED BY <2>1, <2>2, <1>0, Words, UnseenFinish
<1>3. CASE Open
  <2> DEFINE h == [goal EXCEPT !.opened = TRUE, !.status = "running"]
  <2>1. Alike(goal, h) /\ h.status = "running"
    BY <1>0, OuterAlike
  <2>2. /\ goal' = h /\ disk' = h /\ run.at # "idle"
        /\ UNCHANGED <<detached, log, review>>
    BY <1>3 DEF Open, Save
  <2> HIDE DEF h
  <2>3. SamePlan(goal, h)
    BY <2>1, AlikeSamePlan
  <2>4. "running" # "completed"
    OBVIOUS
  <2> QED BY <2>1, <2>2, <2>3, <2>4, <1>0, OnTheWay DEF Unseen
<1>4. CASE OpenFails
  <2>1. Finish(goal, "blocked") /\ run.at # "idle" /\ UNCHANGED <<detached, git, review>>
    BY <1>4 DEF OpenFails
  <2> QED BY <2>1, <1>0, Words, UnseenFinish
<1> QED BY <1>1, <1>2, <1>3, <1>4

(* Nothing in the loop of a run changes the plan or the branch.             *)
LEMMA UnseenLoopSteps ==
  ASSUME Undetached, Iterate \/ Settle \/ Gather \/ BudgetSave
  PROVE  Unseen
<1>0. /\ SamePlan(goal, goal) /\ goal \in GoalRecord
      /\ run.at # "idle" => goal.status # "completed"
  BY OnTheWay
<1>1. CASE Iterate
  <2> DEFINE h == Marked(goal)
  <2>1. SamePlan(goal, h) /\ h \in GoalRecord
    BY <1>0, MarkedAlike, AlikeSamePlan
  <2>2. run.at # "idle" /\ UNCHANGED <<detached, git, review>>
    BY <1>1 DEF Iterate
  <2>3. \/ UNCHANGED <<goal, disk>>
        \/ goal' = h /\ disk' = disk
        \/ Replan(h, "DAG has no runnable node", {})
    BY <1>1 DEF Iterate
  <2> HIDE DEF h
  <2>4. CASE UNCHANGED <<goal, disk>>
    BY <2>2, <2>4, <1>0, UnseenSet
  <2>5. CASE goal' = h /\ disk' = disk
    BY <2>1, <2>2, <2>5, UnseenSet
  <2>6. CASE Replan(h, "DAG has no runnable node", {})
    BY <2>1, <2>2, <2>6, UnseenReplan
  <2> QED BY <2>3, <2>4, <2>5, <2>6
<1>2. CASE Settle
  <2>1. run.at # "idle" /\ UNCHANGED <<detached, git, review>>
    BY <1>2 DEF Settle
  <2>2. \/ Finish(goal, "budget_exhausted")
        \/ Replan(goal, "Worker query changes the DAG", run.asked)
        \/ Replan(goal, "Worker exhausted its attempts", {})
        \/ UNCHANGED <<goal, disk>>
    BY <1>2 DEF Settle
  <2> QED BY <2>1, <2>2, <1>0, Words, UnseenFinish, UnseenSet, UnseenReplan
<1>3. CASE Gather
  BY <1>3, <1>0, UnseenSet DEF Gather
<1>4. CASE BudgetSave
  BY <1>4, <1>0, UnseenSave DEF BudgetSave, Awaiting, Save
<1> QED BY <1>1, <1>2, <1>3, <1>4

(* The Workers write to their attempts and count them; with no queries to   *)
(* ask there are none to resolve.                                           *)
LEMMA UnseenWorkerSteps ==
  ASSUME Undetached, Impacts = {}, NEW n \in Nodes, WorkerStep(n)
  PROVE  Unseen
<1>0. /\ SamePlan(goal, goal) /\ goal \in GoalRecord /\ RecordInv(goal, log)
      /\ run.at # "idle" => goal.status # "completed"
  BY OnTheWay
<1>a. RunInv
  BY DEF Undetached
<1>1. CASE Dispatch(n)
  <2> DEFINE h == Dispatched(goal, n)
  <2>1. run.at = "wave" /\ n \in DOMAIN goal.nodes /\ QueuedInv(n, goal)
    BY <1>1, <1>a, AdmittedIs DEF Dispatch
  <2>2. goal' = h /\ disk' = h /\ UNCHANGED <<detached, log, review>>
    BY <1>1 DEF Dispatch, Save
  <2>3. Len(log) \in Nat
    BY <2>1, <1>a, AtWave
  <2>4. /\ h.status = goal.status /\ DOMAIN h.nodes = DOMAIN goal.nodes
        /\ \A m \in DOMAIN goal.nodes : h.nodes[m].spec = goal.nodes[m].spec
    BY <2>1, <2>3, <1>0, DispatchedInv
  <2> HIDE DEF h
  <2>5. SamePlan(goal, h)
    BY <2>4 DEF SamePlan
  <2> QED BY <2>1, <2>2, <2>4, <2>5, <1>0, OnTheWay DEF Unseen
<1>2. CASE DispatchFails(n)
  <2> DEFINE h == [goal EXCEPT !.nodes[n].used = @ + 1]
  <2>1. run.at = "wave" /\ n \in DOMAIN goal.nodes /\ goal.nodes[n].used < MaxAttempts
    BY <1>2, <1>a, AdmittedIs DEF DispatchFails
  <2>2. goal' = h /\ disk' = disk /\ UNCHANGED <<detached, git, review>>
    BY <1>2 DEF DispatchFails
  <2>3. Alike(goal, h)
    BY <2>1, <1>0, UsedUpAlike
  <2> HIDE DEF h
  <2>4. SamePlan(goal, h)
    BY <2>3, AlikeSamePlan
  <2> QED BY <2>1, <2>2, <2>4, UnseenSet
<1>3. ASSUME NEW s \in AttemptStatus, Save(WithAttempt(goal, Worker(n).att, s)),
             run.at = "wave", UNCHANGED <<detached, git, review>>
      PROVE  Unseen
  <2> DEFINE h == WithAttempt(goal, Worker(n).att, s)
  <2>1. Alike(goal, h) /\ h.status = goal.status
    BY <1>0, AttemptKeeps
  <2>2. goal' = h /\ disk' = h
    BY <1>3 DEF Save
  <2> HIDE DEF h
  <2>3. SamePlan(goal, h)
    BY <2>1, AlikeSamePlan
  <2> QED BY <2>1, <2>2, <2>3, <1>0, <1>3, UnseenSave
<1>4. CASE WorkerCompletes(n)
  <2>1. /\ Save(WithAttempt(goal, Worker(n).att, "completed")) /\ run.at = "wave"
        /\ UNCHANGED <<detached, git, review>>
    BY <1>4 DEF WorkerCompletes, InFlight
  <2>2. "completed" \in AttemptStatus
    BY Words
  <2> QED BY <2>1, <2>2, <1>3
<1>5. CASE WorkerStops(n)
  BY <1>5, <1>0, UnseenSet DEF WorkerStops, InFlight
<1>6. CASE WorkerFails(n)
  <2>1. PICK s \in {"failed", "budget_exhausted"} : Save(WithAttempt(goal, Worker(n).att, s))
    BY <1>6 DEF WorkerFails
  <2>2. run.at = "wave" /\ UNCHANGED <<detached, git, review>>
    BY <1>6 DEF WorkerFails, InFlight, Resolving
  <2>3. s \in AttemptStatus
    BY Words
  <2> QED BY <2>1, <2>2, <2>3, <1>3
<1>7. CASE \E impact \in Impacts : WorkerAsks(n, impact)
  BY <1>7
<1>8. CASE Resolve(n)
  <2>1. run.at = "wave" /\ n \in DOMAIN run.worker /\ Worker(n).at = "resolving"
    BY <1>8 DEF Resolve, Resolving
  <2>2. WorkerInv(n, Worker(n), goal, log, trees, "wave")
    BY <2>1, <1>a, AtWave
  <2>3. HasQuery(n, Worker(n).query, goal, "resolving")
    BY <2>1, <2>2, AtWorkIs DEF Working
  <2>4. goal.queries = <<>>
    BY <1>0 DEF RecordInv
  <2>5. Len(goal.queries) = 0
    BY <2>4
  <2> QED BY <2>3, <2>5 DEF HasQuery
<1> QED BY <1>1, <1>2, <1>4, <1>5, <1>6, <1>7, <1>8 DEF WorkerStep

(* Reading the results changes the status of nodes and attempts, and only   *)
(* a merge the branch.                                                      *)
LEMMA UnseenCollectSteps ==
  ASSUME Undetached, NEW n \in Nodes, CollectStep(n), ~Merge(n)
  PROVE  Unseen
<1>0. /\ SamePlan(goal, goal) /\ goal \in GoalRecord
      /\ run.at # "idle" => goal.status # "completed"
  BY OnTheWay
<1>1. /\ run.at = "collecting" /\ n \in DOMAIN goal.nodes /\ Collecting(n)
  <2>1. Collecting(n)
    BY DEF CollectStep, CollectRaised, CollectWaiting, CollectReplan, CollectBroke,
           CollectFailed
  <2> QED BY <2>1, AtCollecting DEF Undetached
<1>2. ASSUME NEW h, Alike(goal, h), h.status = goal.status, goal' = h,
             disk' = disk \/ disk' = h, UNCHANGED <<detached, git, review>>
      PROVE  Unseen
  <2>1. SamePlan(goal, h)
    BY <1>2, AlikeSamePlan
  <2> QED BY <2>1, <1>0, <1>1, <1>2, UnseenSave, UnseenSet
<1> DEFINE f == GiveUp(goal, n)
<1>3. Alike(goal, f) /\ f.queries = goal.queries /\ f.status = goal.status
  BY <1>0, <1>1, GiveUpAlike
<1>4. CASE CollectRaised(n)
  <2>1. PICK left :
          Save(IF left = {} THEN f
               ELSE WithAttempt(f, CHOOSE a \in left : \A b \in left : b <= a, "failed"))
    BY <1>4 DEF CollectRaised
  <2>2. UNCHANGED <<detached, git, review>>
    BY <1>4 DEF CollectRaised
  <2> HIDE DEF f
  <2>3. CASE left = {}
    <3>1. goal' = f /\ disk' = f
      BY <2>1, <2>3 DEF Save
    <3> QED BY <3>1, <2>2, <1>3, <1>2
  <2>4. CASE left # {}
    <3> DEFINE c == CHOOSE a \in left : \A b \in left : b <= a
               k == WithAttempt(f, c, "failed")
    <3>1. goal' = k /\ disk' = k
      BY <2>1, <2>4 DEF Save
    <3>2. "failed" \in AttemptStatus
      BY Words
    <3> HIDE DEF c
    <3>3. Alike(goal, k) /\ k.status = goal.status
      BY <1>0, <1>1, <1>3, <3>2, FinalAttempt
    <3> HIDE DEF k
    <3> QED BY <3>1, <3>3, <2>2, <1>2
  <2> QED BY <2>3, <2>4
<1>5. CASE CollectWaiting(n)
  <2> DEFINE g == WithNode(goal, n, "waiting_for_parent")
  <2>1. Finish(g, "waiting_for_parent") /\ UNCHANGED <<detached, git, review>>
    BY <1>5 DEF CollectWaiting
  <2>2. "waiting_for_parent" \in NodeStatus /\ "waiting_for_parent" # "completed"
    BY Words
  <2>3. Alike(goal, g)
    BY <1>0, <1>1, <2>2, WithNodeAlike
  <2> HIDE DEF g
  <2>4. SamePlan(goal, g) /\ g \in GoalRecord
    BY <2>3, AlikeSamePlan
  <2> QED BY <2>1, <2>2, <2>4, <1>1, Words, UnseenFinish
<1>6. CASE CollectReplan(n)
  <2> DEFINE g == WithNode(goal, n, "pending")
             h == WithAttempt(g, Worker(n).att, "stale_result")
  <2>1. goal' = h /\ disk' = h /\ UNCHANGED <<detached, git, review>>
    BY <1>6 DEF CollectReplan, Save
  <2>2. "pending" \in NodeStatus /\ "pending" # "completed" /\ "stale_result" \in AttemptStatus
    BY Words
  <2>3. Alike(goal, g) /\ g.queries = goal.queries /\ g.status = goal.status
    BY <1>0, <1>1, <2>2, WithNodeAlike
  <2> HIDE DEF g
  <2>4. Alike(goal, h) /\ h.status = goal.status
    BY <1>0, <1>1, <2>2, <2>3, FinalAttempt
  <2> HIDE DEF h
  <2> QED BY <2>1, <2>4, <1>2
<1>7. CASE CollectBroke(n)
  <2> DEFINE h == WithAttempt(f, Worker(n).att, "budget_exhausted")
  <2>1. goal' = h /\ disk' = disk /\ UNCHANGED <<detached, git, review>>
    BY <1>7 DEF CollectBroke
  <2>2. "budget_exhausted" \in AttemptStatus
    BY Words
  <2> HIDE DEF f
  <2>3. Alike(goal, h) /\ h.status = goal.status
    BY <1>0, <1>1, <1>3, <2>2, FinalAttempt
  <2> HIDE DEF h
  <2> QED BY <2>1, <2>3, <1>2
<1>8. CASE CollectFailed(n)
  <2>1. PICK why \in {"failed", "merge_failed"} : Save(WithAttempt(f, Worker(n).att, why))
    BY <1>8 DEF CollectFailed
  <2> DEFINE h == WithAttempt(f, Worker(n).att, why)
  <2>2. goal' = h /\ disk' = h /\ why \in AttemptStatus
    BY <2>1, Words DEF Save
  <2>3. UNCHANGED <<detached, git, review>>
    BY <1>8 DEF CollectFailed
  <2> HIDE DEF f
  <2>4. Alike(goal, h) /\ h.status = goal.status
    BY <1>0, <1>1, <1>3, <2>2, FinalAttempt
  <2> HIDE DEF h
  <2> QED BY <2>2, <2>3, <2>4, <1>2
<1> QED BY <1>4, <1>5, <1>6, <1>7, <1>8 DEF CollectStep

(* Verdicts that do not pass the candidate.                                 *)
LEMMA UnseenVerdicts ==
  ASSUME Undetached, VerifiersFail \/ CriticRevises \/ CriticFails
  PROVE  Unseen
<1>0. /\ SamePlan(goal, goal) /\ goal \in GoalRecord
      /\ run.at # "idle" => goal.status # "completed"
  BY OnTheWay
<1>1. CASE VerifiersFail
  <2>1. run.at = "verifying" /\ UNCHANGED <<detached, git, review>>
    BY <1>1 DEF VerifiersFail
  <2>2. CASE Save(goal)
    <3>1. goal' = goal /\ disk' = goal
      BY <2>2 DEF Save
    <3> QED BY <3>1, <2>1, <1>0, UnseenSave
  <2>3. CASE \E status \in {"blocked", "budget_exhausted"} : Finish(goal, status)
    <3>1. PICK s \in {"blocked", "budget_exhausted"} : Finish(goal, s)
      BY <2>3
    <3> QED BY <3>1, <2>1, <1>0, Words, UnseenFinish
  <2> QED BY <1>1, <2>2, <2>3 DEF VerifiersFail
<1>2. CASE CriticRevises
  <2> DEFINE g == [goal EXCEPT !.critics = @ + 1]
  <2>1. run.at = "reviewing" /\ UNCHANGED <<detached, git, review>>
    BY <1>2 DEF CriticRevises
  <2>2. Alike(goal, g) /\ g.status = goal.status
    BY <1>0, OuterAlike
  <2>3. Finish(g, "blocked") \/ Save(g)
    BY <1>2 DEF CriticRevises
  <2> HIDE DEF g
  <2>4. SamePlan(goal, g) /\ g \in GoalRecord
    BY <2>2, AlikeSamePlan
  <2>5. CASE Finish(g, "blocked")
    BY <2>1, <2>4, <2>5, Words, UnseenFinish
  <2>6. CASE Save(g)
    <3>1. goal' = g /\ disk' = g
      BY <2>6 DEF Save
    <3> QED BY <3>1, <2>1, <2>2, <2>4, <1>0, UnseenSave
  <2> QED BY <2>3, <2>5, <2>6
<1>3. CASE CriticFails
  <2>1. PICK s \in {"blocked", "budget_exhausted"} : Finish(goal, s)
    BY <1>3 DEF CriticFails
  <2>2. run.at = "reviewing" /\ UNCHANGED <<detached, git, review>>
    BY <1>3 DEF CriticFails
  <2> QED BY <2>1, <2>2, <1>0, Words, UnseenFinish
<1> QED BY <1>1, <1>2, <1>3

(* Interruptions and crashes, the merge that is done and not recorded       *)
(* apart.                                                                   *)
LEMMA UnseenEnds ==
  ASSUME Undetached, MaxDetached = 0,
         \/ \E status \in {"cancelled", "budget_exhausted"} : Interrupt(status)
         \/ CancelUnstarted \/ DetachedSave \/ DetachedEnds
         \/ Crash \/ CrashAfterBranch \/ \E n \in Nodes : CrashAfterWorktree(n)
  PROVE  Unseen
<1>0. /\ SamePlan(goal, goal) /\ SamePlan(goal, disk) /\ detached = {}
      /\ goal \in GoalRecord /\ disk \in GoalRecord
      /\ run.at # "idle" => goal.status # "completed" /\ disk.status # "completed"
  BY OnTheWay
<1>1. CASE \E status \in {"cancelled", "budget_exhausted"} : Interrupt(status)
  <2>1. PICK s \in {"cancelled", "budget_exhausted"} : Interrupt(s)
    BY <1>1
  <2> DEFINE hit == IF run.at = "wave" THEN {Worker(n).att : n \in Busy} ELSE {}
             h == [goal EXCEPT !.attempts = [a \in DOMAIN goal.attempts |->
                     IF a \in hit THEN [goal.attempts[a] EXCEPT !.status = "cancelled"]
                     ELSE goal.attempts[a]]]
  <2>2. Interrupted = h
    BY DEF Interrupted
  <2>3. Alike(goal, h)
    <3>1. "cancelled" \in AttemptStatus
      BY Words
    <3> HIDE DEF hit
    <3> QED BY <1>0, <3>1, SomeAttemptsAlike, ZenonT(40)
  <2>4. run.at # "idle" /\ Finish(h, s) /\ UNCHANGED <<git, review>>
    BY <2>1, <2>2 DEF Interrupt, Awaiting
  <2> HIDE DEF h
  <2>5. Cardinality(detached) = 0
    BY <1>0, FS_EmptySet
  <2>6. UNCHANGED detached
    BY <2>1, <2>5 DEF Interrupt
  <2>7. SamePlan(goal, h) /\ h \in GoalRecord
    BY <2>3, AlikeSamePlan
  <2> QED BY <2>4, <2>6, <2>7, Words, UnseenFinish
<1>2. CASE CancelUnstarted
  <2>1. /\ run.at = "loading" /\ Finish(disk, "cancelled")
        /\ UNCHANGED <<detached, git, review>>
    BY <1>2 DEF CancelUnstarted
  <2> QED BY <2>1, <1>0, Words, UnseenFinish
<1>3. CASE DetachedSave \/ DetachedEnds
  BY <1>0, <1>3 DEF DetachedSave, DetachedEnds
<1>4. ASSUME Dies, log' = log PROVE Unseen
  BY <1>0, <1>4 DEF Dies, Unseen
<1>5. CASE Crash
  BY <1>5, <1>4 DEF Crash, git
<1>6. CASE CrashAfterBranch
  BY <1>6, <1>4 DEF CrashAfterBranch
<1>7. CASE \E n \in Nodes : CrashAfterWorktree(n)
  BY <1>7, <1>4 DEF CrashAfterWorktree
<1> QED BY <1>1, <1>2, <1>3, <1>5, <1>6, <1>7

(* The commands: a completed Goal is not resumed or cancelled, and without  *)
(* queries there is none to answer.                                         *)
LEMMA UnseenCommands ==
  ASSUME Undetached, Impacts = {}, Commands
  PROVE  Unseen
<1>0. /\ SamePlan(goal, disk) /\ detached = {} /\ disk \in GoalRecord /\ RecordInv(disk, log)
  BY OnTheWay
<1>1. ASSUME NEW h, SamePlan(disk, h), h.status # "completed", disk.status # "completed",
             goal' = h, disk' = h, UNCHANGED <<detached, git, review>>
      PROVE  Unseen
  <2>1. SamePlan(goal, h)
    BY <1>0, <1>1, SamePlanTrans
  <2>2. log' = log /\ review' = review /\ detached' = detached
    BY <1>1 DEF git
  <2> QED BY <2>1, <2>2, <1>0, <1>1 DEF Unseen
<1>2. CASE Resume
  <2> DEFINE g == Recovered(disk)
             h == Renewed(g)
  <2>1. goal' = h /\ disk' = h /\ UNCHANGED <<detached, git, review>>
    BY <1>2 DEF Resume, Save
  <2>2. disk.status # "completed"
    BY <1>2 DEF Resume
  <2>3. SamePlan(disk, g) /\ g \in GoalRecord
    BY <1>0, RecoveredAlike, AlikeSamePlan
  <2> HIDE DEF g
  <2>4. Alike(g, h) /\ h.status = "running"
    BY <2>3, OuterAlike DEF Renewed
  <2> HIDE DEF h
  <2>5. SamePlan(disk, h) /\ h.status # "completed"
    BY <2>3, <2>4, AlikeSamePlan, SamePlanTrans
  <2> QED BY <2>1, <2>2, <2>5, <1>1
<1>3. CASE CancelIdle
  <2> DEFINE h == [disk EXCEPT !.status = "cancelled"]
  <2>1. goal' = h /\ disk' = h /\ UNCHANGED <<detached, git, review>>
    BY <1>3 DEF CancelIdle, Save
  <2>2. disk.status # "completed"
    BY <1>3 DEF CancelIdle
  <2>3. Alike(disk, h) /\ h.status = "cancelled"
    BY <1>0, Words, OuterAlike
  <2> HIDE DEF h
  <2>4. SamePlan(disk, h) /\ h.status # "completed"
    BY <2>3, AlikeSamePlan
  <2> QED BY <2>1, <2>2, <2>4, <1>1
<1>4. CASE \E q \in DOMAIN disk.queries : Answer(q)
  <2>1. disk.queries = <<>>
    BY <1>0 DEF RecordInv
  <2>2. DOMAIN disk.queries = {}
    BY <2>1
  <2> QED BY <1>4, <2>2
<1> QED BY <1>2, <1>3, <1>4 DEF Commands

-----------------------------------------------------------------------------
(* The steps it does see.  A plan is adopted by a task that has delivered   *)
(* nothing;                                                                 *)
LEMMA PlanStep ==
  ASSUME Undetached, NEW p \in Plans, PlanInitially(p) \/ PlanAgain(p)
  PROVE  /\ detached' = {} /\ SamePlan(goal', disk') /\ log' = log /\ review' = review
         /\ disk.status # "completed" /\ disk'.status # "completed"
<1>1. /\ run.at = "planning" /\ goal' = disk' /\ UNCHANGED <<detached, git, review>>
      /\ run' = At("opening") \/ run' = At("looping")
  BY DEF PlanInitially, PlanAgain, Save
<1>2. RunInv'
  BY PlanInitiallyInv, PlanAgainInv DEF Undetached
<1>3. run'.at # "idle"
  <2>1. At("opening").at = "opening" /\ At("looping").at = "looping"
    BY AtIs
  <2> QED BY <1>1, <2>1
<1>4. disk'.status # "completed"
  BY <1>2, <1>3 DEF RunInv, StageInv, Over
<1>5. disk.status # "completed" /\ detached = {}
  BY <1>1, OnTheWay
<1> QED BY <1>1, <1>4, <1>5 DEF SamePlan, git

(* a merge, recorded or not, puts an attempt at a planned contract on top;  *)
LEMMA MergeStep ==
  ASSUME Undetached, NEW n \in Nodes, Merge(n) \/ CrashAfterMerge(n)
  PROVE  /\ detached' = {} /\ SamePlan(goal, goal') /\ SamePlan(goal, disk')
         /\ review' = review
         /\ disk.status # "completed" /\ disk'.status # "completed"
         /\ log \in Seq(LogRecord) /\ \E r \in LogRecord : log' = Append(log, r)
<1>1. Collecting(n) /\ Result(n, "completed") /\ log' = Merged(n) /\ review' = review
  BY DEF Merge, CrashAfterMerge, Dies
<1>2. /\ run.at = "collecting" /\ n \in DOMAIN goal.nodes /\ RunInv
  BY <1>1, AtCollecting DEF Undetached
<1>3. /\ RecordInv(goal, log) /\ SamePlan(goal, goal) /\ SamePlan(goal, disk)
      /\ detached = {} /\ goal.status # "completed" /\ disk.status # "completed"
  BY <1>2, OnTheWay
<1>4. log \in Seq(LogRecord) /\ \E r \in LogRecord : log' = Append(log, r)
  <2>1. PICK r : log' = Append(log, r)
    BY <1>1 DEF Merged
  <2>2. log \in Seq(LogRecord)
    BY <1>2 DEF RunInv, PlaceInv
  <2>3. log' \in Seq(LogRecord)
    BY <1>1, <1>2, MergedIs
  <2>4. Len(log) \in Nat /\ Len(log') = Len(log) + 1 /\ log'[Len(log) + 1] = r
    BY <2>1, <2>2
  <2>5. r \in LogRecord
    BY <2>3, <2>4
  <2> QED BY <2>1, <2>2, <2>5
<1>5. CASE CrashAfterMerge(n)
  <2>1. goal' = disk /\ disk' = disk /\ detached' = {}
    BY <1>5 DEF CrashAfterMerge, Dies
  <2> QED BY <2>1, <1>1, <1>3, <1>4
<1>6. CASE Merge(n)
  <2> DEFINE g == WithNode(goal, n, "completed")
             h == WithAttempt(g, Worker(n).att, "integrated")
  <2>1. goal' = h /\ disk' = h /\ detached' = detached
    BY <1>6 DEF Merge, Save
  <2>2. IsMerged(n, goal.nodes[n].spec, log') /\ Grown(log, log')
    BY <1>1, <1>2, MergedIs
  <2>3. RecordInv(goal, log')
    BY <1>3, <2>2, GrownRecordInv
  <2>4. /\ g \in GoalRecord /\ g.status = goal.status /\ DOMAIN g.nodes = DOMAIN goal.nodes
        /\ \A m \in DOMAIN goal.nodes : g.nodes[m].spec = goal.nodes[m].spec
    BY <1>2, <2>2, <2>3, CompletedInv
  <2> HIDE DEF g
  <2>5. "integrated" \in AttemptStatus
    BY Words
  <2>6. Alike(g, h) /\ h.status = g.status
    BY <2>4, <2>5, AttemptKeeps
  <2> HIDE DEF h
  <2>7. SamePlan(goal, g)
    BY <2>4 DEF SamePlan
  <2>8. SamePlan(goal, h)
    BY <2>6, <2>7, AlikeSamePlan, SamePlanTrans
  <2> QED BY <2>1, <2>4, <2>6, <2>8, <1>1, <1>3, <1>4
<1> QED BY <1>5, <1>6

(* the verifiers pass the whole branch;                                     *)
LEMMA TestStep ==
  ASSUME Undetached, VerifiersPass
  PROVE  /\ detached' = {} /\ SamePlan(goal, goal') /\ SamePlan(goal, disk')
         /\ log' = log /\ review'.verified = Len(log)
         /\ disk.status # "completed" /\ disk'.status # "completed"
<1>1. /\ run.at = "verifying" /\ goal' = goal /\ disk' = goal
      /\ review' = [review EXCEPT !.verified = Len(log)] /\ UNCHANGED <<detached, git>>
  BY DEF VerifiersPass, Save, Head0
<1>2. /\ SamePlan(goal, goal) /\ goal.status # "completed" /\ disk.status # "completed"
      /\ detached = {}
  BY <1>1, OnTheWay
<1>3. review'.verified = Len(log)
  BY <1>1 DEF Undetached, RunInv, PlaceInv
<1> QED BY <1>1, <1>2, <1>3 DEF git

(* and what the Critic passes is the branch they passed, with all nodes in. *)
LEMMA DeliverStep ==
  ASSUME Undetached, CriticPasses
  PROVE  /\ detached' = {} /\ SamePlan(goal, goal') /\ SamePlan(goal, disk')
         /\ log' = log /\ review'.verified = review.verified
         /\ disk.status # "completed" /\ disk'.status = "completed"
         /\ review.verified = Len(log) /\ DOMAIN goal.nodes # {}
         /\ \A n \in DOMAIN goal.nodes : IsMerged(n, goal.nodes[n].spec, log)
<1> DEFINE g == [goal EXCEPT !.critics = @ + 1]
           h == [g EXCEPT !.status = "completed"]
<1>1. /\ run.at = "reviewing" /\ goal' = h /\ disk' = h
      /\ review' = [review EXCEPT !.approved = Len(log)] /\ UNCHANGED <<detached, log>>
  BY DEF CriticPasses, Finish, Save, Head0
<1>2. /\ detached = {} /\ disk.status # "completed" /\ goal \in GoalRecord
      /\ RecordInv(goal, log)
  BY <1>1, OnTheWay
<1>3. AllCompleted(goal) /\ review.verified = Len(log)
  BY <1>1 DEF Undetached, RunInv, StageInv
<1>4. review'.verified = review.verified
  BY <1>1 DEF Undetached, RunInv, PlaceInv
<1>5. Alike(goal, g)
  BY <1>2, OuterAlike
<1> HIDE DEF g
<1>6. SamePlan(goal, g) /\ g \in GoalRecord
  BY <1>5, AlikeSamePlan
<1>7. Alike(g, h) /\ h.status = "completed"
  BY <1>6, Words, OuterAlike
<1> HIDE DEF h
<1>8. SamePlan(goal, h)
  BY <1>6, <1>7, AlikeSamePlan, SamePlanTrans
<1>9. \A n \in DOMAIN goal.nodes : IsMerged(n, goal.nodes[n].spec, log)
  BY <1>2, <1>3 DEF AllCompleted, RecordInv
<1> QED BY <1>1, <1>2, <1>3, <1>4, <1>7, <1>8, <1>9 DEF AllCompleted

(* There are no other steps.                                                *)
LEMMA NextIs ==
  ASSUME Undetached, MaxDetached = 0, Impacts = {}, Next
  PROVE  \/ Unseen
         \/ \E p \in Plans : PlanInitially(p) \/ PlanAgain(p)
         \/ \E n \in Nodes : Merge(n) \/ CrashAfterMerge(n)
         \/ VerifiersPass \/ CriticPasses
<1>1. CASE RunStep
  <2>1. CASE Load \/ PlanFails \/ Open \/ OpenFails
    BY <2>1, UnseenTaskSteps
  <2>2. CASE Iterate \/ Gather \/ Settle
    BY <2>2, UnseenLoopSteps
  <2>3. CASE \E n \in Nodes : WorkerStep(n)
    BY <2>3, UnseenWorkerSteps
  <2>4. CASE \E n \in Nodes : CollectStep(n)
    BY <2>4, UnseenCollectSteps
  <2>5. CASE VerifiersFail \/ CriticRevises \/ CriticFails
    BY <2>5, UnseenVerdicts
  <2> QED BY <1>1, <2>1, <2>2, <2>3, <2>4, <2>5 DEF RunStep
<1>2. CASE Environment
  <2>1. CASE BudgetSave
    BY <2>1, UnseenLoopSteps
  <2>2. CASE \/ \E status \in {"cancelled", "budget_exhausted"} : Interrupt(status)
             \/ CancelUnstarted \/ DetachedSave \/ DetachedEnds
             \/ Crash \/ CrashAfterBranch \/ \E n \in Nodes : CrashAfterWorktree(n)
    BY <2>2, UnseenEnds
  <2> QED BY <1>2, <2>1, <2>2 DEF Environment
<1>3. CASE Commands
  BY <1>3, UnseenCommands
<1> QED BY <1>1, <1>2, <1>3 DEF Next

(* So no step of a run without detached turns brings an older plan back.    *)
LEMMA UndetachedStep ==
  ASSUME Undetached, MaxDetached = 0, Impacts = {}, [Next]_vars
  PROVE  Undetached'
<1>1. RunInv'
  BY RunInvIsInductive DEF Undetached
<1>2. \A g, h, k : SamePlan(g, h) /\ SamePlan(g, k) => SamePlan(h, k)
  BY DEF SamePlan
<1>3. detached' = {} /\ SamePlan(goal', disk')
  <2>1. CASE UNCHANGED vars
    BY <2>1 DEF vars, Undetached
  <2>2. CASE Unseen
    BY <2>2, <1>2 DEF Unseen
  <2>3. CASE \E p \in Plans : PlanInitially(p) \/ PlanAgain(p)
    BY <2>3, PlanStep
  <2>4. CASE \E n \in Nodes : Merge(n) \/ CrashAfterMerge(n)
    BY <2>4, MergeStep, <1>2
  <2>5. CASE VerifiersPass \/ CriticPasses
    BY <2>5, TestStep, DeliverStep, <1>2
  <2> QED BY <2>1, <2>2, <2>3, <2>4, <2>5, NextIs
<1> QED BY <1>1, <1>3 DEF Undetached

-----------------------------------------------------------------------------
(* The refinement mapping of MCGoals, part by part.                         *)
PlanView == IF Here THEN [n \in DOMAIN goal.nodes |-> goal.nodes[n].spec] ELSE <<>>
MergesOf(l) == [i \in DOMAIN l |-> <<l[i].node, l[i].spec>>]
CandidateView == IF Here THEN MergesOf(log) ELSE <<>>
TestedView == IF Here THEN review.verified ELSE -1
DeliveredView == Here /\ disk.status = "completed"

(* The actions of the abstract specification, in terms of the mapping.      *)
LEMMA Views ==
  /\ UNCHANGED ReviewHere!vars <=>
       /\ PlanView' = PlanView /\ CandidateView' = CandidateView
       /\ TestedView' = TestedView /\ DeliveredView' = DeliveredView
  /\ ReviewHere!Init <=>
       /\ PlanView \in ReviewHere!Planned /\ DOMAIN PlanView = {}
       /\ CandidateView = <<>> /\ TestedView = -1 /\ DeliveredView = FALSE
  /\ ReviewHere!Plan <=>
       /\ ~DeliveredView /\ PlanView' \in ReviewHere!Planned
       /\ CandidateView' = CandidateView /\ TestedView' = TestedView
       /\ DeliveredView' = DeliveredView
  /\ ReviewHere!Merge <=>
       /\ ~DeliveredView
       /\ \E n \in Nodes, c \in Contracts : CandidateView' = Append(CandidateView, <<n, c>>)
       /\ PlanView' = PlanView /\ TestedView' = TestedView
       /\ DeliveredView' = DeliveredView
  /\ ReviewHere!Test <=>
       /\ ~DeliveredView /\ TestedView' = Len(CandidateView)
       /\ PlanView' = PlanView /\ CandidateView' = CandidateView
       /\ DeliveredView' = DeliveredView
  /\ ReviewHere!Deliver <=>
       /\ ~DeliveredView /\ DOMAIN PlanView # {}
       /\ \A n \in DOMAIN PlanView :
            \E i \in DOMAIN CandidateView : CandidateView[i] = <<n, PlanView[n]>>
       /\ TestedView = Len(CandidateView) /\ DeliveredView' = TRUE
       /\ PlanView' = PlanView /\ CandidateView' = CandidateView /\ TestedView' = TestedView
<1> USE DEF PlanView, CandidateView, MergesOf, TestedView, DeliveredView
<1>1. UNCHANGED ReviewHere!vars <=>
        /\ PlanView' = PlanView /\ CandidateView' = CandidateView
        /\ TestedView' = TestedView /\ DeliveredView' = DeliveredView
  BY DEF ReviewHere!vars
<1>2. ReviewHere!Init <=>
        /\ PlanView \in ReviewHere!Planned /\ DOMAIN PlanView = {}
        /\ CandidateView = <<>> /\ TestedView = -1 /\ DeliveredView = FALSE
  BY Zenon DEF ReviewHere!Init
<1>3. ReviewHere!Plan <=>
        /\ ~DeliveredView /\ PlanView' \in ReviewHere!Planned
        /\ CandidateView' = CandidateView /\ TestedView' = TestedView
        /\ DeliveredView' = DeliveredView
  BY DEF ReviewHere!Plan
<1>4. ReviewHere!Merge <=>
        /\ ~DeliveredView
        /\ \E n \in Nodes, c \in Contracts : CandidateView' = Append(CandidateView, <<n, c>>)
        /\ PlanView' = PlanView /\ TestedView' = TestedView
        /\ DeliveredView' = DeliveredView
  BY DEF ReviewHere!Merge
<1>5. ReviewHere!Test <=>
        /\ ~DeliveredView /\ TestedView' = Len(CandidateView)
        /\ PlanView' = PlanView /\ CandidateView' = CandidateView
        /\ DeliveredView' = DeliveredView
  BY DEF ReviewHere!Test
<1>6. ReviewHere!Deliver <=>
        /\ ~DeliveredView /\ DOMAIN PlanView # {}
        /\ \A n \in DOMAIN PlanView :
             \E i \in DOMAIN CandidateView : CandidateView[i] = <<n, PlanView[n]>>
        /\ TestedView = Len(CandidateView) /\ DeliveredView' = TRUE
        /\ PlanView' = PlanView /\ CandidateView' = CandidateView /\ TestedView' = TestedView
  BY DEF ReviewHere!Deliver, ReviewHere!InCandidate
<1> QED BY <1>1, <1>2, <1>3, <1>4, <1>5, <1>6

(* The plan of a record is one the abstract specification allows.           *)
LEMMA PlanViewIs ==
  ASSUME NEW g \in GoalRecord
  PROVE  [n \in DOMAIN g.nodes |-> g.nodes[n].spec] \in ReviewHere!Planned
<1>1. DOMAIN g.nodes \in SUBSET Nodes /\ \A n \in DOMAIN g.nodes : g.nodes[n] \in NodeRecord
  BY RecordIs
<1>2. \A n \in DOMAIN g.nodes : g.nodes[n].spec \in Contracts
  BY <1>1 DEF NodeRecord
<1>3. [n \in DOMAIN g.nodes |-> g.nodes[n].spec] \in [DOMAIN g.nodes -> Contracts]
  BY <1>2
<1> QED BY <1>1, <1>3 DEF ReviewHere!Planned

(* The abstract candidate grows with the log.                               *)
LEMMA MergesOfIs ==
  ASSUME NEW l \in Seq(LogRecord)
  PROVE  /\ MergesOf(l) \in Seq(Nodes \X Contracts) /\ Len(MergesOf(l)) = Len(l)
         /\ l = <<>> => MergesOf(l) = <<>>
         /\ \A r \in LogRecord :
              MergesOf(Append(l, r)) = Append(MergesOf(l), <<r.node, r.spec>>)
<1>1. \A r \in LogRecord : <<r.node, r.spec>> \in Nodes \X Contracts
  BY DEF LogRecord
<1> DEFINE W == Nodes \X Contracts
<1>2. ASSUME NEW m \in Seq(LogRecord)
      PROVE  /\ MergesOf(m) \in Seq(W) /\ Len(MergesOf(m)) = Len(m)
             /\ \A i \in 1 .. Len(m) : MergesOf(m)[i] = <<m[i].node, m[i].spec>>
  <2>1. Len(m) \in Nat /\ DOMAIN m = 1 .. Len(m) /\ \A i \in 1 .. Len(m) : m[i] \in LogRecord
    OBVIOUS
  <2>2. MergesOf(m) \in [1 .. Len(m) -> W]
    BY <2>1, <1>1 DEF MergesOf
  <2> DEFINE s == MergesOf(m)
  <2> HIDE DEF W, s
  <2>3. s \in Seq(W) /\ Len(s) = Len(m)
    <3>1. s \in [1 .. Len(m) -> W] /\ Len(m) \in Nat
      BY <2>1, <2>2 DEF s
    <3>2. s \in Seq(W)
      BY <3>1, IsASeq
    <3> QED BY <3>1, <3>2, LenProperties
  <2>4. \A i \in 1 .. Len(m) : s[i] = <<m[i].node, m[i].spec>>
    BY <2>1 DEF MergesOf, s
  <2> QED BY <2>3, <2>4 DEF s
<1>3. ASSUME l = <<>> PROVE MergesOf(l) = <<>>
  <2> DEFINE s == MergesOf(l)
  <2> HIDE DEF W, s
  <2>1. s \in Seq(W) /\ Len(s) = 0
    BY <1>2, <1>3 DEF s
  <2>2. s = <<>>
    BY <2>1, EmptySeq
  <2> QED BY <2>2 DEF s
<1>4. ASSUME NEW r \in LogRecord
      PROVE  MergesOf(Append(l, r)) = Append(MergesOf(l), <<r.node, r.spec>>)
  <2> DEFINE e == <<r.node, r.spec>>
             m == Append(l, r)
             t == Append(MergesOf(l), e)
  <2>1. e \in W
    BY <1>1
  <2> HIDE DEF W
  <2>2. /\ m \in Seq(LogRecord) /\ Len(m) = Len(l) + 1
        /\ \A i \in 1 .. Len(l) : m[i] = l[i]
        /\ m[Len(l) + 1] = r
    BY AppendProperties
  <2>3. MergesOf(l) \in Seq(W) /\ Len(MergesOf(l)) = Len(l)
    BY <1>2
  <2> DEFINE s == MergesOf(l)
  <2> HIDE DEF s, e
  <2>4. /\ Append(s, e) \in Seq(W) /\ Len(Append(s, e)) = Len(s) + 1
        /\ \A i \in 1 .. Len(s) : Append(s, e)[i] = s[i]
        /\ Append(s, e)[Len(s) + 1] = e
    BY <2>1, <2>3, AppendProperties DEF s
  <2>5. /\ t \in Seq(W) /\ Len(t) = Len(l) + 1
        /\ \A i \in 1 .. Len(l) : t[i] = <<l[i].node, l[i].spec>>
        /\ t[Len(l) + 1] = e
    BY <2>3, <2>4, <1>2 DEF s
  <2> HIDE DEF m, t
  <2>6. /\ MergesOf(m) \in Seq(W) /\ Len(MergesOf(m)) = Len(l) + 1
        /\ \A i \in 1 .. Len(l) + 1 : MergesOf(m)[i] = <<m[i].node, m[i].spec>>
    BY <2>2, <1>2
  <2>7. Len(l) \in Nat
    OBVIOUS
  <2>8. ASSUME NEW i \in 1 .. Len(l) + 1 PROVE MergesOf(m)[i] = t[i]
    <3>1. CASE i \in 1 .. Len(l)
      BY <2>2, <2>5, <2>6, <3>1
    <3>2. CASE i = Len(l) + 1
      BY <2>2, <2>5, <2>6, <3>2 DEF e
    <3> QED BY <2>7, <3>1, <3>2
  <2>9. MergesOf(m) = t
    BY <2>5, <2>6, <2>8, SeqEqual
  <2> QED BY <2>9 DEF m, t, e
<1> QED BY <1>2, <1>3, <1>4 DEF W

(* Records with the same plan are mapped to the same one.                   *)
LEMMA SamePlanView ==
  ASSUME NEW g, NEW h, SamePlan(g, h)
  PROVE  [n \in DOMAIN h.nodes |-> h.nodes[n].spec] = [n \in DOMAIN g.nodes |-> g.nodes[n].spec]
BY DEF SamePlan

(* At the start nothing is planned, merged, tested or delivered.            *)
LEMMA ViewsInit ==
  ASSUME AllInit
  PROVE  ReviewHere!Init
<1>1. goal = NewGoal /\ disk = NewGoal /\ log = <<>> /\ review.verified = -1
  BY DEF AllInit, Init
<1>2. goal.nodes = <<>> /\ disk.status = "planning"
  BY <1>1 DEF NewGoal
<1>3. DOMAIN goal.nodes = {}
  BY <1>2
<1>4. <<>> \in ReviewHere!Planned /\ DOMAIN <<>> = {}
  <2>1. <<>> \in [{} -> Contracts]
    OBVIOUS
  <2>2. {} \in SUBSET Nodes
    OBVIOUS
  <2> QED BY <2>1, <2>2 DEF ReviewHere!Planned
<1>5. goal \in GoalRecord /\ log \in Seq(LogRecord)
  <2>1. RunInv
    BY RunInvHolds DEF AllInit
  <2> QED BY <2>1 DEF RunInv, RecordInv, PlaceInv
<1>6. PlanView \in ReviewHere!Planned /\ DOMAIN PlanView = {}
  BY <1>3, <1>4, <1>5, PlanViewIs DEF PlanView
<1>7. CandidateView = <<>>
  BY <1>1, <1>5, MergesOfIs DEF CandidateView
<1>8. TestedView = -1 /\ DeliveredView = FALSE
  BY <1>1, <1>2 DEF TestedView, DeliveredView
<1> QED BY <1>6, <1>7, <1>8, Views

(* The parts that are not mapped, and what is not seen, do not move it.     *)
LEMMA ViewsStay ==
  ASSUME part' = part, Here => /\ SamePlan(goal, goal') /\ log' = log
                               /\ review'.verified = review.verified
                               /\ disk'.status = "completed" <=> disk.status = "completed"
  PROVE  UNCHANGED ReviewHere!vars
<1>1. Here' = Here
  BY DEF Here
<1>2. PlanView' = PlanView
  BY <1>1, SamePlanView DEF PlanView
<1>3. CandidateView' = CandidateView /\ TestedView' = TestedView
  BY <1>1 DEF CandidateView, TestedView
<1>4. DeliveredView' = DeliveredView
  BY <1>1 DEF DeliveredView
<1> QED BY <1>2, <1>3, <1>4, Views

(* A step of the run is a step of the promise, or shows nothing of itself.  *)
LEMMA RunImplements ==
  ASSUME MaxDetached = 0, Impacts = {}, Here, Here', Undetached, Undetached', Next
  PROVE  [ReviewHere!Next]_ReviewHere!vars
<1>0. /\ goal' \in GoalRecord /\ log \in Seq(LogRecord) /\ log' \in Seq(LogRecord)
  BY DEF Undetached, RunInv, RecordInv, PlaceInv
<1>1. /\ PlanView = [n \in DOMAIN goal.nodes |-> goal.nodes[n].spec]
      /\ PlanView' = [n \in DOMAIN goal'.nodes |-> goal'.nodes[n].spec]
      /\ CandidateView = MergesOf(log) /\ CandidateView' = MergesOf(log')
      /\ TestedView = review.verified /\ TestedView' = review'.verified
      /\ DeliveredView = (disk.status = "completed")
      /\ DeliveredView' = (disk'.status = "completed")
  BY DEF PlanView, CandidateView, TestedView, DeliveredView
<1>2. SamePlan(goal, goal') => PlanView' = PlanView
  BY <1>1, SamePlanView
<1>3. CASE Unseen
  <2>1. PlanView' = PlanView /\ log' = log /\ review'.verified = review.verified
    BY <1>2, <1>3 DEF Unseen
  <2>2. DeliveredView' = DeliveredView
    BY <1>1, <1>3 DEF Unseen
  <2> QED BY <1>1, <2>1, <2>2, Views
<1>4. CASE \E p \in Plans : PlanInitially(p) \/ PlanAgain(p)
  <2>1. log' = log /\ review' = review /\ disk.status # "completed" /\ disk'.status # "completed"
    BY <1>4, PlanStep
  <2>2. PlanView' \in ReviewHere!Planned
    BY <1>0, <1>1, PlanViewIs
  <2>3. ~DeliveredView /\ DeliveredView' = DeliveredView
    BY <1>1, <2>1
  <2>4. ReviewHere!Plan
    BY <1>1, <2>1, <2>2, <2>3, Views
  <2> QED BY <2>4 DEF ReviewHere!Next
<1>5. CASE \E n \in Nodes : Merge(n) \/ CrashAfterMerge(n)
  <2>1. /\ SamePlan(goal, goal') /\ review' = review
        /\ disk.status # "completed" /\ disk'.status # "completed"
        /\ \E r \in LogRecord : log' = Append(log, r)
    BY <1>5, MergeStep
  <2>2. PICK r \in LogRecord : log' = Append(log, r)
    BY <2>1
  <2>3. r.node \in Nodes /\ r.spec \in Contracts
    BY DEF LogRecord
  <2>4. CandidateView' = Append(CandidateView, <<r.node, r.spec>>)
    BY <1>0, <1>1, <2>2, MergesOfIs
  <2>5. ~DeliveredView /\ DeliveredView' = DeliveredView
    BY <1>1, <2>1
  <2>6. ReviewHere!Merge
    BY <1>1, <1>2, <2>1, <2>3, <2>4, <2>5, Views
  <2> QED BY <2>6 DEF ReviewHere!Next
<1>6. CASE VerifiersPass
  <2>1. /\ SamePlan(goal, goal') /\ log' = log /\ review'.verified = Len(log)
        /\ disk.status # "completed" /\ disk'.status # "completed"
    BY <1>6, TestStep
  <2>2. TestedView' = Len(CandidateView) /\ CandidateView' = CandidateView
    BY <1>0, <1>1, <2>1, MergesOfIs
  <2>3. ~DeliveredView /\ DeliveredView' = DeliveredView
    BY <1>1, <2>1
  <2>4. ReviewHere!Test
    BY <1>2, <2>1, <2>2, <2>3, Views
  <2> QED BY <2>4 DEF ReviewHere!Next
<1>7. CASE CriticPasses
  <2>1. /\ SamePlan(goal, goal') /\ log' = log /\ review'.verified = review.verified
        /\ disk.status # "completed" /\ disk'.status = "completed"
        /\ review.verified = Len(log) /\ DOMAIN goal.nodes # {}
        /\ \A n \in DOMAIN goal.nodes : IsMerged(n, goal.nodes[n].spec, log)
    BY <1>7, DeliverStep
  <2>2. /\ TestedView = Len(CandidateView) /\ CandidateView' = CandidateView
        /\ TestedView' = TestedView
    BY <1>0, <1>1, <2>1, MergesOfIs
  <2>3. ~DeliveredView /\ DeliveredView' = TRUE
    BY <1>1, <2>1
  <2>4. DOMAIN PlanView = DOMAIN goal.nodes
        /\ \A n \in DOMAIN goal.nodes : PlanView[n] = goal.nodes[n].spec
    BY <1>1
  <2>5. ASSUME NEW n \in DOMAIN PlanView
        PROVE  \E i \in DOMAIN CandidateView : CandidateView[i] = <<n, PlanView[n]>>
    <3>1. PICK i \in DOMAIN log : log[i].node = n /\ log[i].spec = goal.nodes[n].spec
      BY <2>1, <2>4 DEF IsMerged
    <3>2. i \in DOMAIN CandidateView /\ CandidateView[i] = <<log[i].node, log[i].spec>>
      BY <1>1 DEF MergesOf
    <3> QED BY <2>4, <3>1, <3>2
  <2>6. ReviewHere!Deliver
    BY <1>2, <2>1, <2>2, <2>3, <2>4, <2>5, Views
  <2> QED BY <2>6 DEF ReviewHere!Next
<1> QED BY <1>3, <1>4, <1>5, <1>6, <1>7, NextIs

(* What the refinement needs of a state: in the mapped part no detached     *)
(* turn holds an old record.                                                *)
Delivering == PartsInv /\ (Here => Undetached)

(* It holds at the start;                                                   *)
LEMMA DeliveringHolds == AllInit => Delivering
<1> SUFFICES ASSUME AllInit PROVE Delivering
  OBVIOUS
<1>1. RunInv /\ PartsInv
  BY RunInvHolds, PartsInvHolds DEF AllInit
<1>2. detached = {} /\ SamePlan(goal, disk)
  BY DEF AllInit, Init, SamePlan
<1> QED BY <1>1, <1>2 DEF Delivering, Undetached

(* and every step keeps it, and is a step of the abstract specification.    *)
LEMMA DeliveringStep ==
  ASSUME MaxDetached = 0, Impacts = {}, Delivering, [AllNext]_allVars
  PROVE  Delivering' /\ [ReviewHere!Next]_ReviewHere!vars
<1>1. PartsInv'
  BY PartsInvStep DEF Delivering
<1>2. /\ part' = part /\ (Here => Undetached)
      /\ RunMoves \/ (UNCHANGED goalVars) \/ (part = "detached")
  BY DEF AllNext, allVars, RunMoves, DetachedMoves, SharingMoves, Delivering
<1>3. Here' = Here
  BY <1>2 DEF Here
<1>4. CASE ~Here
  <2>1. UNCHANGED ReviewHere!vars
    BY <1>2, <1>4, ViewsStay
  <2> QED BY <1>1, <1>3, <1>4, <2>1 DEF Delivering
<1>5. CASE Here /\ UNCHANGED goalVars
  <2>1. UNCHANGED vars
    BY <1>5 DEF goalVars, vars, git
  <2>2. Undetached'
    BY <1>2, <1>5, <2>1, UndetachedStep
  <2>3. SamePlan(goal, goal') /\ log' = log /\ review' = review /\ disk' = disk
    BY <1>5 DEF goalVars, SamePlan
  <2>4. UNCHANGED ReviewHere!vars
    BY <1>2, <2>3, ViewsStay
  <2> QED BY <1>1, <2>2, <2>4 DEF Delivering
<1>6. CASE Here /\ RunMoves
  <2>1. Next /\ Undetached
    BY <1>2, <1>6 DEF RunMoves
  <2>2. Undetached'
    BY <2>1, UndetachedStep
  <2>3. [ReviewHere!Next]_ReviewHere!vars
    BY <1>3, <1>6, <2>1, <2>2, RunImplements
  <2> QED BY <1>1, <2>2, <2>3 DEF Delivering
<1> QED BY <1>2, <1>4, <1>5, <1>6 DEF Here

(* A Goal run whose turns leave no thread behind and that answers no query  *)
(* with a change of plan keeps the promise of CandidateReview: what it      *)
(* reports as completed is a whole plan, merged and tested as it stands.    *)
THEOREM RunDeliversReviewed ==
  ASSUME MaxDetached = 0, Impacts = {}
  PROVE  AllSpec => GoalsDeliverReviewed
<1>1. AllInit => Delivering /\ ReviewHere!Init
  BY DeliveringHolds, ViewsInit
<1>2. Delivering /\ [AllNext]_allVars => Delivering' /\ [ReviewHere!Next]_ReviewHere!vars
  BY DeliveringStep
<1> QED BY <1>1, <1>2, PTL DEF AllSpec, GoalsDeliverReviewed, ReviewHere!Spec
=============================================================================
