------------------------------- MODULE GoalRun -------------------------------
(***************************************************************************)
(* One durable Goal: GoalManager (gencode/core/runtime/goal_manager.py),   *)
(* its Git side effects (goal_git.py) and its goal.json (goal_store.py).   *)
(*                                                                         *)
(* A run is one asyncio task.  It loads goal.json, asks the planner for a  *)
(* DAG, opens the integration worktree, dispatches waves of Workers in     *)
(* their own worktrees, merges their commits one by one, verifies, and has *)
(* a Critic review the candidate.  Other coroutines run only while it      *)
(* awaits: the planner ("planning"), the wave ("wave"), the verifiers      *)
(* ("verifying") or the Critic ("reviewing").  What it does between two    *)
(* awaits is one step; a crash between a Git command and the save that     *)
(* records it is a step of its own (CrashAfter...).                        *)
(*                                                                         *)
(* The record goal is the dictionary in memory, disk is goal.json.  Times, *)
(* texts and token counts are left out (GoalBudget has the tokens): a      *)
(* reply of a model, a verifier or Git is a nondeterministic choice.       *)
(***************************************************************************)
EXTENDS Integers, Sequences, FiniteSets, SequencesExt, Lists

CONSTANTS
  Nodes,          \* node ids a planner may use
  Plans,          \* validated plans: node id |-> [deps, text]
  Impacts,        \* impacts of the queries Workers ask
  MaxAttempts,    \* MAX_ATTEMPTS_PER_NODE
  MaxReplans,     \* goal["max_replans"]
  MaxCriticRounds,
  MaxQueryRounds,
  Concurrency,    \* size of the Worker semaphore
  MaxWindows,     \* bound: execution windows (start, resumes and answers)
  MaxDetached     \* bound: interrupted runs whose child turns are followed

Subsets(S) == {T \in SUBSET S : T # {}}
Contracts == UNION {{p[n] : n \in DOMAIN p} : p \in Plans}

(* goal_graph.validate_plan lets only acyclic, closed graphs through.       *)
WellFormed(p) ==
  /\ DOMAIN p \in Subsets(Nodes) /\ IsFiniteSet(DOMAIN p)
  /\ \A n \in DOMAIN p : p[n].deps \subseteq DOMAIN p
  /\ \A C \in Subsets(DOMAIN p) : \E n \in C : p[n].deps \cap C = {}

ASSUME GoalAssumptions ==
  /\ \A p \in Plans : WellFormed(p)
  /\ Impacts \subseteq {"info", "dependency", "scope", "permission", "acceptance", "safety"}
  /\ {MaxAttempts, Concurrency, MaxWindows} \subseteq Nat \ {0}
  /\ {MaxReplans, MaxCriticRounds, MaxQueryRounds, MaxDetached} \subseteq Nat

VARIABLES
  goal,     \* the Goal record of the running task
  disk,     \* goal.json
  detached, \* records still held by child turns of interrupted runs
  log,      \* attempts merged into the integration branch, in order
  trees,    \* <<node, number>> of worker worktrees and branches that exist
  branch,   \* the integration branch and worktree exist
  run,      \* where the task is
  review    \* history: heads that verifiers passed and the Critic approved

git == <<log, trees, branch>>
vars == <<goal, disk, detached, log, trees, branch, run, review>>

Stages == {"idle", "loading", "planning", "opening", "looping", "wave",
           "collecting", "verifying", "reviewing"}
Awaiting == {"planning", "wave", "verifying", "reviewing"}
GoalStatus == {"planning", "running", "waiting_for_parent", "blocked",
               "budget_exhausted", "cancelled", "completed"}
NodeStatus == {"pending", "running", "failed", "completed", "waiting_for_parent"}
AttemptStatus == {"running", "interrupted", "completed", "cancelled", "failed",
                  "budget_exhausted", "waiting_for_parent", "stale_result",
                  "merge_failed", "integrated"}
QueryStatus == {"resolving", "replan_requested", "waiting_for_parent",
                "answered", "replanned"}
Results == {"completed", "failed", "waiting_for_parent", "replan_requested",
            "budget_exhausted"}

NewGoal ==
  [status |-> "planning", nodes |-> <<>>, attempts |-> <<>>, queries |-> <<>>,
   replans |-> 0, critics |-> 0, opened |-> FALSE, windows |-> 1]
IdleRun ==
  [at |-> "idle", why |-> "", wave |-> <<>>, worker |-> <<>>, todo |-> <<>>,
   broke |-> FALSE, asked |-> {}]
At(stage) == [IdleRun EXCEPT !.at = stage]
Head0 == Len(log)

-----------------------------------------------------------------------------
Completed(g) == {n \in DOMAIN g.nodes : g.nodes[n].status = "completed"}
AllCompleted(g) == DOMAIN g.nodes # {} /\ Completed(g) = DOMAIN g.nodes
WaitingQueries(g) == {q \in DOMAIN g.queries : g.queries[q].status = "waiting_for_parent"}
RunningAttempts(g) == {a \in DOMAIN g.attempts : g.attempts[a].status = "running"}
AttemptsOf(g, n) == {a \in DOMAIN g.attempts : g.attempts[a].node = n}
NextNumber(g, n) == Cardinality(AttemptsOf(g, n)) + 1

WithNode(g, n, s) == [g EXCEPT !.nodes[n].status = s]
WithAttempt(g, a, s) == [g EXCEPT !.attempts[a].status = s]
WithQuery(g, q, s) == [g EXCEPT !.queries[q].status = s]
(* a node whose attempt came to nothing is retried or out of attempts       *)
GiveUp(g, n) ==
  WithNode(g, n, IF g.nodes[n].used >= MaxAttempts THEN "failed" ELSE "pending")

(* Definitions marked faulty, here and below, are the changes to the code   *)
(* under which one of the properties fails; nothing else uses them.         *)
(* _ready_nodes marks spent nodes failed and returns the dispatchable ones  *)
Spent(g) == {n \in DOMAIN g.nodes : g.nodes[n].status \in {"pending", "failed"}
                                    /\ g.nodes[n].used >= MaxAttempts}
Marked(g) == [g EXCEPT !.nodes = [n \in DOMAIN @ |->
                IF n \in Spent(g) THEN [@[n] EXCEPT !.status = "failed"] ELSE @[n]]]
ReadyUnordered(g) ==                                              \* faulty
  {n \in DOMAIN g.nodes \ Spent(g) : g.nodes[n].status \in {"pending", "failed"}}
Ready(g) == {n \in DOMAIN g.nodes \ Spent(g) :
               /\ g.nodes[n].status \in {"pending", "failed"}
               /\ g.nodes[n].spec.deps \subseteq Completed(g)}
Orders(S) == {w \in [1 .. Cardinality(S) -> S] : IsInjective(w)}

(* _apply_plan: a changed contract starts afresh, an equal one is kept      *)
NewNode(spec) == [spec |-> spec, status |-> "pending", used |-> 0]
Applied(g, p) ==
  [g EXCEPT !.nodes = [n \in DOMAIN p |->
     IF n \in DOMAIN g.nodes /\ g.nodes[n].spec = p[n] THEN g.nodes[n] ELSE NewNode(p[n])]]
Applicable(g, p) ==
  /\ Completed(g) \subseteq DOMAIN p
  /\ Applied(g, p).nodes # g.nodes

(* _recover_interrupted_attempts; it raises when such an attempt's node has *)
(* been retired                                                             *)
Recoverable(g) == \A a \in RunningAttempts(g) : g.attempts[a].node \in DOMAIN g.nodes
Recovered(g) ==
  LET hit == {g.attempts[a].node : a \in RunningAttempts(g)}
  IN  [g EXCEPT
        !.attempts = [a \in DOMAIN @ |-> IF @[a].status = "running"
                        THEN [@[a] EXCEPT !.status = "interrupted"] ELSE @[a]],
        !.nodes = [n \in DOMAIN @ |-> IF n \in hit
                        THEN [@[n] EXCEPT !.status = "pending"] ELSE @[n]]]

-----------------------------------------------------------------------------
Save(g) == goal' = g /\ disk' = g
Finish(g, status) == Save([g EXCEPT !.status = status]) /\ run' = IdleRun

(* start() has saved the new record and scheduled its task.                 *)
Init ==
  /\ goal = NewGoal /\ disk = NewGoal /\ detached = {}
  /\ log = <<>> /\ trees = {} /\ branch = FALSE
  /\ run = At("loading")
  /\ review = [verified |-> -1, approved |-> -1]

(* _run_goal up to the planner: GoalTokenBudget saves the record it loads.  *)
Load ==
  /\ run.at = "loading"
  /\ Save(disk)
  /\ run' = IF disk.nodes = <<>> THEN [At("planning") EXCEPT !.why = "initial plan"]
            ELSE At("opening")
  /\ UNCHANGED <<detached, git, review>>

(* _replan: bounded, then the planner is asked                              *)
Replan(g, why, asked) ==
  IF g.replans >= MaxReplans THEN Finish(g, "blocked")
  ELSE /\ goal' = g
       /\ UNCHANGED disk
       /\ run' = [At("planning") EXCEPT !.why = why, !.asked = asked]

PlanInitially(p) ==
  /\ run.at = "planning" /\ run.why = "initial plan"
  /\ Save(Applied(goal, p))
  /\ run' = At("opening")
  /\ UNCHANGED <<detached, git, review>>

(* A replacement plan may neither drop a completed node nor change nothing; *)
(* the queries that asked for it are closed.                                *)
PlanAgain(p) ==
  /\ run.at = "planning" /\ run.why # "initial plan"
  /\ Applicable(goal, p)
  /\ LET g == [Applied(goal, p) EXCEPT !.replans = @ + 1]
     IN  Save([g EXCEPT !.queries = [q \in DOMAIN @ |->
                IF q \in run.asked THEN [@[q] EXCEPT !.status = "replanned"] ELSE @[q]]])
  /\ run' = At("looping")
  /\ UNCHANGED <<detached, git, review>>

(* The planner's reply is rejected, or it ran out of tokens.                *)
PlanFails ==
  /\ run.at = "planning"
  /\ \E status \in {"blocked", "budget_exhausted"} : Finish(goal, status)
  /\ UNCHANGED <<detached, git, review>>

(* create_integration or reopen_integration                                 *)
Open ==
  /\ run.at = "opening"
  /\ goal.opened \/ ~branch
  /\ branch' = TRUE
  /\ Save([goal EXCEPT !.opened = TRUE, !.status = "running"])
  /\ run' = At("looping")
  /\ UNCHANGED <<detached, log, trees, review>>

(* GoalGitError: the worktree is in the way, dirty or on another branch.    *)
OpenFails ==
  /\ run.at = "opening"
  /\ branch
  /\ Finish(goal, "blocked")
  /\ UNCHANGED <<detached, git, review>>

-----------------------------------------------------------------------------
IterateIdly ==                                                    \* faulty
  /\ run.at = "looping"
  /\ UNCHANGED <<detached, git, review>>
  /\ \/ /\ AllCompleted(goal)
        /\ run' = At("verifying")
        /\ UNCHANGED <<goal, disk>>
     \/ /\ ~AllCompleted(goal)
        /\ goal' = Marked(goal)
        /\ UNCHANGED disk
        /\ \E w \in Orders(Ready(goal)) :
             /\ w # <<>>
             /\ run' = [At("wave") EXCEPT !.wave = w,
                          !.worker = [n \in Ready(goal) |-> [at |-> "queued"]]]

(* The top of the loop: verify a finished DAG, dispatch a wave, or replan.  *)
Iterate ==
  /\ run.at = "looping"
  /\ UNCHANGED <<detached, git, review>>
  /\ \/ /\ AllCompleted(goal)
        /\ run' = At("verifying")
        /\ UNCHANGED <<goal, disk>>
     \/ /\ ~AllCompleted(goal)
        /\ goal' = Marked(goal)
        /\ UNCHANGED disk
        /\ \E w \in Orders(Ready(goal)) :
             /\ w # <<>>
             /\ run' = [At("wave") EXCEPT !.wave = w,
                          !.worker = [n \in Ready(goal) |-> [at |-> "queued"]]]
     \/ /\ ~AllCompleted(goal)
        /\ Ready(goal) = {}
        /\ Replan(Marked(goal), "DAG has no runnable node", {})

Worker(n) == run.worker[n]
Asking(n, a, rounds) == [at |-> "asking", att |-> a, rounds |-> rounds]
Busy == {n \in DOMAIN run.worker : Worker(n).at \in {"asking", "resolving"}}
Becomes(n, w) == run' = [run EXCEPT !.worker[n] = w]
(* _execute_node returns, or raises past its handlers                       *)
Returns(n, result, q) ==
  Becomes(n, [at |-> "returned", att |-> Worker(n).att, result |-> result, query |-> q])
Raised == [at |-> "raised"]

(* The semaphore admits queued Workers in the order they queued.            *)
Admitted(n) ==
  /\ run.at = "wave"
  /\ n \in DOMAIN run.worker /\ Worker(n).at = "queued"
  /\ Cardinality(Busy) < Concurrency
  /\ \E i \in DOMAIN run.wave :
       run.wave[i] = n /\ \A j \in 1 .. i - 1 : Worker(run.wave[j]).at # "queued"

Dispatched(g, n) ==
  [g EXCEPT
    !.nodes[n].used = @ + 1, !.nodes[n].status = "running",
    !.attempts = Append(@, [node |-> n, num |-> NextNumber(g, n),
                            spec |-> g.nodes[n].spec, base |-> Head0,
                            status |-> "running"])]

(* A fresh worktree at the integration head, then the saved attempt.        *)
Dispatch(n) ==
  /\ Admitted(n)
  /\ <<n, NextNumber(goal, n)>> \notin trees
  /\ trees' = trees \cup {<<n, NextNumber(goal, n)>>}
  /\ Save(Dispatched(goal, n))
  /\ \/ Becomes(n, Asking(n, Len(goal.attempts) + 1, 0))
     \/ Becomes(n, Raised)       \* the child runtime could not be built
  /\ UNCHANGED <<detached, log, branch, review>>

(* create_worker fails, always so when the worktree is already there: the   *)
(* attempt is used up but neither recorded nor saved.                       *)
DispatchFails(n) ==
  /\ Admitted(n)
  /\ goal' = [goal EXCEPT !.nodes[n].used = @ + 1]
  /\ Becomes(n, Raised)
  /\ UNCHANGED <<disk, detached, git, review>>

InFlight(n) == run.at = "wave" /\ n \in DOMAIN run.worker /\ Worker(n).at = "asking"
Resolving(n) == run.at = "wave" /\ n \in DOMAIN run.worker /\ Worker(n).at = "resolving"

(* The Worker's final answer (or its scoped changes at the step limit).     *)
WorkerCompletes(n) ==
  /\ InFlight(n)
  /\ Save(WithAttempt(goal, Worker(n).att, "completed"))
  /\ Returns(n, "completed", 0)
  /\ UNCHANGED <<detached, git, review>>

(* The turn stopped early: reported, but recorded only by the main loop.    *)
WorkerStops(n) ==
  /\ InFlight(n)
  /\ Returns(n, "failed", 0)
  /\ UNCHANGED <<goal, disk, detached, git, review>>

(* An exception, a malformed query included, or an exhausted token budget,  *)
(* in the Worker's turn or in the query resolver's.                         *)
WorkerFails(n) ==
  /\ InFlight(n) \/ Resolving(n)
  /\ \E result \in {"failed", "budget_exhausted"} :
       /\ Save(WithAttempt(goal, Worker(n).att, result))
       /\ Returns(n, result, 0)
  /\ UNCHANGED <<detached, git, review>>

Query(n, status) == [node |-> n, status |-> status]
WaitUnasked(n, g, q) ==                                           \* faulty
  /\ Save(WithAttempt(goal, Worker(n).att, "waiting_for_parent"))
  /\ Returns(n, "waiting_for_parent", q)

WaitForParent(n, g, q) ==
  /\ Save(WithAttempt(g, Worker(n).att, "waiting_for_parent"))
  /\ Returns(n, "waiting_for_parent", q)

(* The turn ended in a query: it is answered by a resolver, becomes a       *)
(* replanning request, or waits for the user.                               *)
WorkerAsks(n, impact) ==
  LET q == Len(goal.queries) + 1
      Asked(status) == [goal EXCEPT !.queries = Append(@, Query(n, status))]
      replannable == impact = "dependency" /\ goal.replans < MaxReplans
      spent == Worker(n).rounds >= MaxQueryRounds
  IN  /\ InFlight(n)
      /\ \/ /\ spent \/ (impact # "info" /\ ~replannable)
            /\ WaitForParent(n, Asked("waiting_for_parent"), q)
         \/ /\ ~spent /\ replannable
            /\ goal' = Asked("replan_requested")
            /\ disk' = Asked("resolving")
            /\ Returns(n, "replan_requested", q)
         \/ /\ ~spent /\ impact = "info"
            /\ Save(Asked("resolving"))
            /\ Becomes(n, [at |-> "resolving", att |-> Worker(n).att,
                           rounds |-> Worker(n).rounds + 1, query |-> q])
      /\ UNCHANGED <<detached, git, review>>

(* The resolver answers, and the Worker's next turn begins, or it blocks.   *)
Resolve(n) ==
  /\ Resolving(n)
  /\ \/ /\ Save(WithQuery(goal, Worker(n).query, "answered"))
        /\ Becomes(n, Asking(n, Worker(n).att, Worker(n).rounds))
     \/ WaitForParent(n, WithQuery(goal, Worker(n).query, "waiting_for_parent"),
                      Worker(n).query)
  /\ UNCHANGED <<detached, git, review>>

(* gather() returns when every Worker has returned or raised; exceptions    *)
(* are handled before results.                                              *)
Gather ==
  /\ run.at = "wave"
  /\ \A n \in DOMAIN run.worker : Worker(n).at \in {"returned", "raised"}
  /\ LET In(stage) == Only(run.wave, {n \in DOMAIN run.worker : Worker(n).at = stage})
     IN  run' = [run EXCEPT !.at = "collecting", !.todo = In("raised") \o In("returned")]
  /\ UNCHANGED <<goal, disk, detached, git, review>>

-----------------------------------------------------------------------------
Collecting(n) == run.at = "collecting" /\ run.todo # <<>> /\ Head(run.todo) = n
Collected == [run EXCEPT !.todo = Tail(@)]
Result(n, result) == Worker(n).at = "returned" /\ Worker(n).result = result

(* worker_dispatch_failed                                                   *)
CollectRaised(n) ==
  /\ Collecting(n) /\ Worker(n).at = "raised"
  /\ LET g == GiveUp(goal, n)
         left == RunningAttempts(g) \cap AttemptsOf(g, n)
     IN  Save(IF left = {} THEN g
              ELSE WithAttempt(g, CHOOSE a \in left : \A b \in left : b <= a, "failed"))
  /\ run' = Collected
  /\ UNCHANGED <<detached, git, review>>

(* The first Worker that waits ends the run; later results are not read.    *)
CollectWaiting(n) ==
  /\ Collecting(n) /\ Result(n, "waiting_for_parent")
  /\ Finish(WithNode(goal, n, "waiting_for_parent"), "waiting_for_parent")
  /\ UNCHANGED <<detached, git, review>>

CollectReplan(n) ==
  /\ Collecting(n) /\ Result(n, "replan_requested")
  /\ Save(WithAttempt(WithNode(goal, n, "pending"), Worker(n).att, "stale_result"))
  /\ run' = [Collected EXCEPT !.asked = @ \cup {Worker(n).query}]
  /\ UNCHANGED <<detached, git, review>>

(* The token budget's verdict is saved with the end of the run.             *)
CollectBroke(n) ==
  /\ Collecting(n) /\ Result(n, "budget_exhausted")
  /\ goal' = WithAttempt(GiveUp(goal, n), Worker(n).att, "budget_exhausted")
  /\ run' = [Collected EXCEPT !.broke = TRUE]
  /\ UNCHANGED <<disk, detached, git, review>>

(* A failed Worker, one that changed nothing, or a merge conflict.          *)
CollectFailed(n) ==
  /\ Collecting(n)
  /\ \E why \in {"failed", "merge_failed"} :
       /\ Result(n, "failed") \/ Result(n, "completed")
       /\ why = "merge_failed" => Result(n, "completed")
       /\ Save(WithAttempt(GiveUp(goal, n), Worker(n).att, why))
  /\ run' = Collected
  /\ UNCHANGED <<detached, git, review>>

Merged(n) == Append(log, [node |-> n, att |-> Worker(n).att,
                          spec |-> goal.attempts[Worker(n).att].spec,
                          base |-> goal.attempts[Worker(n).att].base])

(* merge_worker, then the node and the attempt are saved as integrated.     *)
Merge(n) ==
  /\ Collecting(n) /\ Result(n, "completed")
  /\ log' = Merged(n)
  /\ Save(WithAttempt(WithNode(goal, n, "completed"), Worker(n).att, "integrated"))
  /\ run' = Collected
  /\ UNCHANGED <<detached, trees, branch, review>>

(* After the last result: stop on the token budget, else replan for the     *)
(* Workers that asked, else for the nodes that ran out of attempts.         *)
Settle ==
  /\ run.at = "collecting" /\ run.todo = <<>>
  /\ UNCHANGED <<detached, git, review>>
  /\ IF run.broke THEN Finish(goal, "budget_exhausted")
     ELSE IF run.asked # {} THEN Replan(goal, "Worker query changes the DAG", run.asked)
     ELSE IF \E n \in DOMAIN goal.nodes : goal.nodes[n].status = "failed"
       THEN Replan(goal, "Worker exhausted its attempts", {})
     ELSE run' = At("looping") /\ UNCHANGED <<goal, disk>>

-----------------------------------------------------------------------------
VerifiersPass ==
  /\ run.at = "verifying"
  /\ Save(goal)
  /\ run' = At("reviewing")
  /\ review' = [review EXCEPT !.verified = Head0]
  /\ UNCHANGED <<detached, git>>

VerifiersFailUnread ==                                            \* faulty
  /\ run.at = "verifying"
  /\ Save(goal)
  /\ run' = At("reviewing")
  /\ UNCHANGED <<detached, git, review>>

(* A verifier fails and its output becomes evidence for a replan; one that  *)
(* cannot start, or overruns its own timeout, ends the run.                 *)
VerifiersFail ==
  /\ run.at = "verifying"
  /\ UNCHANGED <<detached, git, review>>
  /\ \/ IF goal.replans >= MaxReplans THEN Finish(goal, "blocked")
        ELSE Save(goal) /\ run' = [At("planning") EXCEPT !.why = "post-merge verifier failed"]
     \/ \E status \in {"blocked", "budget_exhausted"} : Finish(goal, status)

(* The Critic passes the head it was shown: the Goal is done, and the       *)
(* worktrees of merged attempts are removed as far as Git allows.           *)
CriticPasses ==
  /\ run.at = "reviewing"
  /\ Finish([goal EXCEPT !.critics = @ + 1], "completed")
  /\ review' = [review EXCEPT !.approved = Head0]
  /\ LET merged == {<<goal.attempts[a].node, goal.attempts[a].num>> :
                      a \in {b \in DOMAIN goal.attempts :
                               goal.attempts[b].status = "integrated"}}
     IN  \E kept \in {{}, merged} : trees' = trees \ (merged \ kept)
  /\ UNCHANGED <<detached, log, branch>>

(* Findings: at most MaxCriticRounds, each answered by a replan.            *)
CriticRevises ==
  /\ run.at = "reviewing"
  /\ LET g == [goal EXCEPT !.critics = @ + 1]
     IN  IF g.critics >= MaxCriticRounds \/ g.replans >= MaxReplans
           THEN Finish(g, "blocked")
           ELSE Save(g) /\ run' = [At("planning") EXCEPT !.why = "Critic requested changes"]
  /\ UNCHANGED <<detached, git, review>>

(* No verdict: unavailable, unreadable, or out of tokens.                   *)
CriticFails ==
  /\ run.at = "reviewing"
  /\ \E status \in {"blocked", "budget_exhausted"} : Finish(goal, status)
  /\ UNCHANGED <<detached, git, review>>

-----------------------------------------------------------------------------
(* The user cancels, or the execution window ends, at an await.  Attempts   *)
(* in flight are recorded as cancelled; the child turns they were waiting   *)
(* for are detached producers (Engine.run_turn) and keep running, holding   *)
(* this run's record; one that settles no more model calls is not followed. *)
Interrupted ==
  LET hit == IF run.at = "wave" THEN {Worker(n).att : n \in Busy} ELSE {}
  IN  [goal EXCEPT !.attempts = [a \in DOMAIN @ |->
         IF a \in hit THEN [@[a] EXCEPT !.status = "cancelled"] ELSE @[a]]]

Interrupt(status) ==
  /\ run.at \in Awaiting
  /\ Finish(Interrupted, status)
  /\ \/ UNCHANGED detached
     \/ /\ Cardinality(detached) < MaxDetached
        /\ run.at \in {"planning", "reviewing"} \/ Busy # {}
        /\ detached' = detached \cup {goal'}
  /\ UNCHANGED <<git, review>>

(* The task is cancelled before it starts: cancel() itself writes it down.  *)
CancelUnstarted ==
  /\ run.at = "loading"
  /\ Finish(disk, "cancelled")
  /\ UNCHANGED <<detached, git, review>>

(* A detached turn settles a model call: GoalTokenBudget saves the record   *)
(* of its own, ended, run; or the turn ends.                                *)
DetachedSave ==
  /\ \E old \in detached :
       /\ disk' = old
       /\ goal' = IF run.at = "idle" THEN old ELSE goal
  /\ UNCHANGED <<detached, git, run, review>>

DetachedEnds ==
  /\ \E old \in detached : detached' = detached \ {old}
  /\ UNCHANGED <<goal, disk, git, run, review>>

(* A model call of this run reserves or records tokens, and thereby saves   *)
(* whatever the record holds.                                               *)
BudgetSave ==
  /\ run.at \in Awaiting \ {"verifying"}
  /\ disk # goal
  /\ Save(goal)
  /\ UNCHANGED <<detached, git, run, review>>

(* The process dies: goal.json and the repository remain, with the Git      *)
(* command that was running perhaps done and its record not yet saved.      *)
Dies ==
  /\ run' = IdleRun /\ detached' = {}
  /\ goal' = disk
  /\ UNCHANGED <<disk, review>>

Crash == run.at # "idle" /\ Dies /\ UNCHANGED git

CrashAfterBranch ==
  /\ run.at = "opening" /\ ~goal.opened /\ ~branch
  /\ branch' = TRUE
  /\ Dies /\ UNCHANGED <<log, trees>>

CrashAfterWorktree(n) ==
  /\ Admitted(n)
  /\ <<n, NextNumber(goal, n)>> \notin trees
  /\ trees' = trees \cup {<<n, NextNumber(goal, n)>>}
  /\ Dies /\ UNCHANGED <<log, branch>>

CrashAfterMerge(n) ==
  /\ Collecting(n) /\ Result(n, "completed")
  /\ log' = Merged(n)
  /\ Dies /\ UNCHANGED <<trees, branch>>

-----------------------------------------------------------------------------
Renewed(g) == [g EXCEPT !.windows = @ + 1, !.status = "running"]

(* /goal resume                                                             *)
Resume ==
  /\ run.at = "idle"
  /\ disk.status \notin {"completed", "cancelled"}
  /\ WaitingQueries(disk) = {}
  /\ Recoverable(disk)
  /\ disk.windows < MaxWindows
  /\ Save(Renewed(Recovered(disk)))
  /\ run' = At("loading")
  /\ UNCHANGED <<detached, git, review>>

(* /goal cancel of a Goal that is not running                               *)
CancelIdle ==
  /\ run.at = "idle"
  /\ disk.status \in {"planning", "running", "waiting_for_parent"}
  /\ Save([disk EXCEPT !.status = "cancelled"])
  /\ UNCHANGED <<detached, git, run, review>>

(* /goal answer: the query is closed, its node made pending again if it     *)
(* waits, and the Goal rescheduled; with the task still running only the    *)
(* file is written before the scheduling error.                             *)
Answered(g, q) ==
  LET n == g.queries[q].node
      h == WithQuery(g, q, "answered")
  IN  Renewed(IF n \in DOMAIN g.nodes /\ g.nodes[n].status = "waiting_for_parent"
                THEN WithNode(h, n, "pending") ELSE h)

Answer(q) ==
  /\ q \in WaitingQueries(disk)
  /\ disk.windows < MaxWindows
  /\ \/ /\ run.at = "idle"
        /\ Save(Answered(disk, q))
        /\ run' = At("loading")
     \/ /\ run.at \in Awaiting
        /\ disk' = Answered(disk, q)
        /\ UNCHANGED <<goal, run>>
  /\ UNCHANGED <<detached, git, review>>

-----------------------------------------------------------------------------
WorkerStep(n) ==
  \/ Dispatch(n) \/ DispatchFails(n)
  \/ WorkerCompletes(n) \/ WorkerStops(n) \/ WorkerFails(n)
  \/ \E impact \in Impacts : WorkerAsks(n, impact)
  \/ Resolve(n)

CollectStep(n) ==
  \/ CollectRaised(n) \/ CollectWaiting(n) \/ CollectReplan(n)
  \/ CollectBroke(n) \/ CollectFailed(n) \/ Merge(n)

RunStep ==
  \/ Load
  \/ \E p \in Plans : PlanInitially(p) \/ PlanAgain(p)
  \/ PlanFails \/ Open \/ OpenFails \/ Iterate
  \/ \E n \in Nodes : WorkerStep(n)
  \/ Gather
  \/ \E n \in Nodes : CollectStep(n)
  \/ Settle
  \/ VerifiersPass \/ VerifiersFail
  \/ CriticPasses \/ CriticRevises \/ CriticFails

Environment ==
  \/ \E status \in {"cancelled", "budget_exhausted"} : Interrupt(status)
  \/ CancelUnstarted \/ DetachedSave \/ DetachedEnds \/ BudgetSave
  \/ Crash \/ CrashAfterBranch
  \/ \E n \in Nodes : CrashAfterWorktree(n) \/ CrashAfterMerge(n)

Commands == Resume \/ CancelIdle \/ \E q \in DOMAIN disk.queries : Answer(q)

Next == RunStep \/ Environment \/ Commands

Spec == Init /\ [][Next]_vars
(* Models, verifiers and Git are bounded by timeouts, so the task proceeds. *)
FairSpec == Spec /\ WF_vars(RunStep)

-----------------------------------------------------------------------------
NodeRecord == [spec : Contracts, status : NodeStatus, used : 0 .. MaxAttempts]
AttemptRecord == [node : Nodes, num : Nat, spec : Contracts, base : Nat,
                  status : AttemptStatus]
QueryRecord == [node : Nodes, status : QueryStatus]
GoalOK(g) ==
  /\ DOMAIN g = DOMAIN NewGoal
  /\ g.status \in GoalStatus
  /\ DOMAIN g.nodes \subseteq Nodes
  /\ \A n \in DOMAIN g.nodes : g.nodes[n] \in NodeRecord
  /\ \A a \in DOMAIN g.attempts : g.attempts[a] \in AttemptRecord
  /\ \A q \in DOMAIN g.queries : g.queries[q] \in QueryRecord
  /\ g.replans \in 0 .. MaxReplans
  /\ g.critics \in Nat /\ g.windows \in Nat /\ g.opened \in BOOLEAN

TypeOK ==
  /\ GoalOK(goal) /\ GoalOK(disk)
  /\ \A old \in detached : GoalOK(old)
  /\ run.at \in Stages
  /\ trees \subseteq Nodes \X Nat
  /\ branch \in BOOLEAN
  /\ {review.verified, review.approved} \subseteq -1 .. Len(log)

(* A Goal reported as completed is the candidate the user will review: all  *)
(* its nodes are merged under the contracts they now have, and the very     *)
(* head of the integration branch passed the verifiers and then the Critic. *)
CompletedIsReviewed ==
  disk.status = "completed" =>
    /\ DOMAIN disk.nodes # {}
    /\ \A n \in DOMAIN disk.nodes : disk.nodes[n].status = "completed"
    /\ review.verified = Len(log) /\ review.approved = Len(log)

(* A node is durably "completed" only if an attempt at its current contract *)
(* was merged into the integration branch.                                  *)
CompletedIsMerged ==
  \A n \in Completed(disk) :
    \E i \in DOMAIN log : log[i].node = n /\ log[i].spec = disk.nodes[n].spec

(* Every merged attempt started from a head that already had every          *)
(* prerequisite named by its contract.                                      *)
PrerequisitesInBase ==
  \A i \in DOMAIN log : \A d \in log[i].spec.deps :
    \E j \in 1 .. log[i].base : log[j].node = d

(* However often a Goal is replanned, interrupted and resumed, a node is    *)
(* dispatched at most MaxAttempts times for each version of the plan.       *)
AttemptsBounded ==
  \A n \in Nodes :
    Cardinality(AttemptsOf(disk, n)) <= MaxAttempts * (disk.replans + 1)

(* Workers run in worktrees of their own: no two attempts in flight share   *)
(* one, and no more run at a time than the semaphore allows.                *)
WorkersIsolated ==
  run.at = "wave" =>
    /\ Cardinality(Busy) <= Concurrency
    /\ \A m, n \in Busy : m # n => Worker(m).att # Worker(n).att
    /\ \A n \in Busy :
         LET a == goal.attempts[Worker(n).att]
         IN  a.node = n /\ a.status = "running" /\ a.base = Len(log)
             /\ <<n, a.num>> \in trees

(* Whoever is dispatched has what his contract needs, in a place of his    *)
(* own, and not more often than was planned.                               *)
DispatchIsSound == PrerequisitesInBase /\ AttemptsBounded /\ WorkersIsolated

(* What is reported as completed, a node or the Goal, is.                  *)
CompletedIsSound == CompletedIsReviewed /\ CompletedIsMerged

(* A Goal that stopped to wait for the user has a question to answer.       *)
WaitingHasQuestion ==
  run.at = "idle" /\ disk.status = "waiting_for_parent" => WaitingQueries(disk) # {}

(* A run that is left alone ends, whatever the models, the verifiers and    *)
(* Git do: replans, attempts, queries and Critic rounds are bounded.        *)
RunEnds == run.at # "idle" ~> run.at = "idle"

(* goal_manager.py:150-151 answers /goal resume of a completed or cancelled *)
(* Goal with "cannot be resumed": both states are final in goal.json.       *)
EndedIsFinal ==
  [][disk.status \in {"completed", "cancelled"} => disk'.status = disk.status]_vars

(* README.md:70 and goal_manager.py:1088: /goal resume takes a Goal up      *)
(* again, with the attempts that had not been integrated; no node is left   *)
(* "running" without a Worker.                                              *)
ResumeLeavesNoOrphan ==
  [][Resume => \A n \in DOMAIN disk'.nodes : disk'.nodes[n].status # "running"]_vars
=============================================================================
