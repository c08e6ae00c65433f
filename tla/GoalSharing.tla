----------------------------- MODULE GoalSharing -----------------------------
(***************************************************************************)
(* Who may run a Goal: the lease of goal_store.py and the tables _active   *)
(* and _leases of goal_manager.py, with several processes that have the    *)
(* same workspace open.  GoalRun has one process and the whole record; of  *)
(* the record only the status is kept here.                                *)
(*                                                                         *)
(* resume(), answer() and cancel() do not await between reading goal.json  *)
(* and leaving, so no other coroutine of their process runs in between;    *)
(* another process may.  A task that has ended is observed by a callback   *)
(* that the event loop calls later ("over" is a task whose callback is     *)
(* pending).                                                               *)
(***************************************************************************)
EXTENDS Integers

CONSTANTS
  Processes,
  MaxTasks      \* bound: tasks created by all processes

ASSUME SharingAssumption == MaxTasks \in Nat /\ "nobody" \notin Processes

Tasks == 1 .. MaxTasks
NoTask == 0
NoProcess == "nobody"

VARIABLES
  record,     \* the status in goal.json
  tasks,      \* the _run_goal tasks: whose they are and how far they are
  active,     \* _active of each process
  lease,      \* whose GoalLease holds run.lock
  command,    \* the command a process is executing
  cancelling, \* the task that a process's cancel() awaits
  overtaken   \* history: a task was started before its predecessor's callback

sharingVars == <<record, tasks, active, lease, command, cancelling, overtaken>>

Ended == {"completed", "blocked", "cancelled"}
Statuses == Ended \cup {"running", "waiting"}
CommandKinds == {"none", "resume", "answer", "schedule", "cancel"}

By(t) == tasks[t].by
IsAt(t, stage) == t # NoTask /\ tasks[t].at = stage
Live(t) == \E stage \in {"new", "running", "stopping"} : IsAt(t, stage)
Runs(t) == IsAt(t, "running") \/ IsAt(t, "stopping")
Moves(t, stage) == tasks' = [tasks EXCEPT ![t].at = stage]
(* the event loop of p is not inside a command                              *)
Idle(p) == command[p] = "none"

(* a Goal left by earlier processes, or one that start() has just saved     *)
SharingInit ==
  /\ record \in {"running", "waiting", "blocked"}
  /\ tasks = [t \in Tasks |-> [by |-> NoProcess, at |-> "none"]]
  /\ active = [p \in Processes |-> NoTask]
  /\ lease = NoProcess
  /\ \/ command = [p \in Processes |-> "none"]
     \/ /\ record = "running"
        /\ \E p \in Processes :
             command = [q \in Processes |-> IF q = p THEN "schedule" ELSE "none"]
  /\ cancelling = [p \in Processes |-> NoTask]
  /\ overtaken = FALSE

Executes(p, c) == command' = [command EXCEPT ![p] = c]

-----------------------------------------------------------------------------
(* resume() and cancel() read goal.json; what forbids them is checked now   *)
ResumeLoads(p) ==
  /\ Idle(p) /\ ~Live(active[p])
  /\ record \notin {"completed", "cancelled", "waiting"}
  /\ Executes(p, "resume")
  /\ UNCHANGED <<record, tasks, active, lease, cancelling, overtaken>>

(* any record may hold an open question: answer() does not look at the     *)
(* status, nor at the task                                                  *)
AnswerLoads(p) ==
  /\ Idle(p)
  /\ Executes(p, "answer")
  /\ UNCHANGED <<record, tasks, active, lease, cancelling, overtaken>>

SavesRunning(p) ==
  /\ command[p] \in {"resume", "answer"}
  /\ record' = "running"
  /\ Executes(p, "schedule")
  /\ UNCHANGED <<tasks, active, lease, cancelling, overtaken>>

(* _observe_task clears the tables of its process, whoever is in them, and *)
(* releases the lease found there                                           *)
Cleared(p) == [active EXCEPT ![p] = NoTask]
Released(p) == IF lease = p THEN NoProcess ELSE lease

(* acquire_lease: the file lock excludes every other handle                 *)
AcquirableUnlocked(p) == TRUE                                     \* faulty
Acquirable(p) == Released(p) = NoProcess
Unused == {t \in Tasks : tasks[t].at = "none"}

(* _schedule: a finished predecessor is observed by hand, then the lease    *)
(* taken and the task created                                               *)
Schedule(p) ==
  /\ command[p] = "schedule" /\ ~Live(active[p])
  /\ Acquirable(p)
  /\ \E t \in Unused :
       /\ \A u \in Unused : t <= u
       /\ tasks' = [tasks EXCEPT ![t] = [by |-> p, at |-> "new"]]
       /\ active' = [active EXCEPT ![p] = t]
  /\ lease' = p
  /\ overtaken' = (overtaken \/ active[p] # NoTask)
  /\ Executes(p, "none")
  /\ UNCHANGED <<record, cancelling>>

(* the RuntimeErrors of _schedule and acquire_lease                         *)
ScheduleRaises(p) ==
  /\ command[p] = "schedule"
  /\ \/ Live(active[p]) /\ UNCHANGED <<active, lease>>
     \/ /\ ~Live(active[p]) /\ ~Acquirable(p)
        /\ active' = Cleared(p) /\ lease' = Released(p)
  /\ Executes(p, "none")
  /\ UNCHANGED <<record, tasks, cancelling, overtaken>>

-----------------------------------------------------------------------------
CancelLoads(p) ==
  /\ Idle(p) /\ ~Live(active[p])
  /\ record \notin Ended
  /\ Executes(p, "cancel")
  /\ UNCHANGED <<record, tasks, active, lease, cancelling, overtaken>>

CancelSaves(p) ==
  /\ command[p] = "cancel"
  /\ record' = "cancelled"
  /\ Executes(p, "none")
  /\ UNCHANGED <<tasks, active, lease, cancelling, overtaken>>

(* task.cancel() of a task of this process, and the end of the wait for it, *)
(* which comes after the callback                                           *)
CancelTask(p) ==
  /\ Idle(p) /\ cancelling[p] = NoTask /\ Live(active[p])
  /\ cancelling' = [cancelling EXCEPT ![p] = active[p]]
  /\ IF IsAt(active[p], "new") THEN UNCHANGED tasks ELSE Moves(active[p], "stopping")
  /\ UNCHANGED <<record, active, lease, command, overtaken>>

CancelEnds(p) ==
  /\ Idle(p) /\ IsAt(cancelling[p], "gone")
  /\ record' = IF record \in Ended THEN record ELSE "cancelled"
  /\ cancelling' = [cancelling EXCEPT ![p] = NoTask]
  /\ UNCHANGED <<tasks, active, lease, command, overtaken>>

-----------------------------------------------------------------------------
LoopReaches(t) == By(t) \in Processes /\ Idle(By(t))

(* a task cancelled before its first step never begins and writes nothing   *)
Starts(t) ==
  /\ IsAt(t, "new") /\ LoopReaches(t)
  /\ Moves(t, IF cancelling[By(t)] = t THEN "over" ELSE "running")
  /\ UNCHANGED <<record, active, lease, command, cancelling, overtaken>>

(* every save of a run writes its whole record, the status included         *)
RunSaves(t) ==
  /\ Runs(t) /\ LoopReaches(t)
  /\ record' = "running"
  /\ UNCHANGED <<tasks, active, lease, command, cancelling, overtaken>>

RunEndsAs(t, status) ==
  /\ LoopReaches(t)
  /\ IF status = "cancelled" THEN IsAt(t, "stopping") ELSE IsAt(t, "running")
  /\ record' = status
  /\ Moves(t, "over")
  /\ UNCHANGED <<active, lease, command, cancelling, overtaken>>

(* the done-callback of a task                                              *)
Observed(t) ==
  /\ IsAt(t, "over") /\ LoopReaches(t)
  /\ Moves(t, "gone")
  /\ active' = Cleared(By(t)) /\ lease' = Released(By(t))
  /\ UNCHANGED <<record, command, cancelling, overtaken>>

(* A process dies: the system closes its files, and so frees the lock.      *)
ProcessDies(p) ==
  /\ \E t \in Tasks : By(t) = p /\ tasks[t].at # "gone"
  /\ tasks' = [t \in Tasks |-> IF By(t) = p THEN [tasks[t] EXCEPT !.at = "gone"] ELSE tasks[t]]
  /\ active' = Cleared(p) /\ lease' = Released(p)
  /\ Executes(p, "none")
  /\ cancelling' = [cancelling EXCEPT ![p] = NoTask]
  /\ UNCHANGED <<record, overtaken>>

CommandStep(p) ==
  \/ ResumeLoads(p) \/ AnswerLoads(p) \/ SavesRunning(p)
  \/ Schedule(p) \/ ScheduleRaises(p)
  \/ CancelLoads(p) \/ CancelSaves(p) \/ CancelTask(p) \/ CancelEnds(p)
TaskStep(t) ==
  \/ Starts(t) \/ RunSaves(t) \/ Observed(t)
  \/ \E status \in Ended \cup {"waiting"} : RunEndsAs(t, status)

SharingNext ==
  \/ \E p \in Processes : CommandStep(p) \/ ProcessDies(p)
  \/ \E t \in Tasks : TaskStep(t)

SharingSpec == SharingInit /\ [][SharingNext]_sharingVars

-----------------------------------------------------------------------------
SharingTypeOK ==
  /\ record \in Statuses
  /\ tasks \in [Tasks -> [by : Processes \cup {NoProcess},
                          at : {"none", "new", "running", "stopping", "over", "gone"}]]
  /\ active \in [Processes -> Tasks \cup {NoTask}]
  /\ lease \in Processes \cup {NoProcess}
  /\ command \in [Processes -> CommandKinds]
  /\ cancelling \in [Processes -> Tasks \cup {NoTask}]
  /\ overtaken \in BOOLEAN

(* No two tasks drive one Goal, in one process or in two: "Goal ... is      *)
(* already running" (goal_manager.py:149, :314), "... in another process"   *)
(* (goal_store.py:79).                                                      *)
OneRunner == \A t, u \in Tasks : Live(t) /\ Live(u) => t = u

(* The lease is given back: whoever holds it has a task that is not yet     *)
(* observed, so no process is shut out of a Goal that nobody runs.          *)
LeaseIsFreed ==
  \A p \in Processes : lease = p => Live(active[p]) \/ IsAt(active[p], "over")

(* What the lease keeps: with every task observed before the next is        *)
(* started, however the commands of several processes fall between each     *)
(* other, one task drives the Goal, its process holds the lease, and only   *)
(* then does the table of that process name it.                             *)
LeaseKeepsApart ==
  /\ LeaseIsFreed
  /\ ~overtaken => /\ OneRunner
                   /\ \A t \in Tasks : Live(t) => lease = By(t) /\ active[By(t)] = t
=============================================================================
