------------------------------- MODULE Readiness -------------------------------
(***************************************************************************)
(* Whether a turn may end with the answer the model proposes               *)
(* (core/runtime/completion_governance.py, before_final_hooks.py,          *)
(* core/evidence/*.py, session/runtime_consumers.py).  Every tool that     *)
(* ran, every todo and every prompt leaves evidence in the TaskState; a    *)
(* proposed answer is put to the hooks and then weighed against that       *)
(* evidence, and is accepted, sent back with a notice, or ends the turn.   *)
(* The catalogue's missing_required_artifact needs a workspace root, which *)
(* final_readiness_action does not pass, so no artifact is ever missing    *)
(* here; the replacement ledger is always enabled.  Definitions marked     *)
(* faulty are changes to the code under which a property fails; nothing    *)
(* else uses them.                                                         *)
(***************************************************************************)
EXTENDS Integers, FiniteSets

CONSTANTS
  Modes,        \* what --final-readiness was set to
  Hooks,        \* the registered before-final hooks
  Todos,
  Prompts,      \* what a prompt's metadata may say of its budget
  MaxModelCalls,  \* bound of the engine: model calls in a turn
  MaxChanges    \* bound: changes of the workspace

ASSUME ReadinessAssumptions ==
  /\ Modes \subseteq {"off", "warn", "soft", "strict"}
  /\ MaxModelCalls \in Nat /\ MaxChanges \in Nat

VARIABLES
  mode, status,
  point,      \* where the turn is between a prompt and its end
  attempts,
  signal,     \* evidence_summaries["verification_signal"]["state"]
  changed,    \* task_state.changed_paths is not empty
  partial,    \* a reminder says that a failed tool changed the workspace
  denials,    \* governance_summary["deny_count"] is not 0
  todos,      \* the latest recorded state of each todo
  context,    \* evidence_summaries["context_budget_summary"]
  reminded,   \* final_readiness_state["reminded_reason_signatures"]
  version,    \* how many times a tool changed the workspace
  verified,   \* the version the last verification found good, or 0
  notices,    \* the reasons of every readiness notice, with its number
  objected    \* a hook objected to the answer on its way out
readinessVars == <<mode, status, point, attempts, signal, changed, partial, denials, todos,
                   context, reminded, version, verified, notices, objected>>

NoTodo == [priority |-> "none", status |-> "none"]
NoContext == [pressure |-> 0, tier |-> "", saved |-> 0, called |-> FALSE, delta |-> 0,
              mode |-> "", steps |-> TRUE, files |-> TRUE, provider |-> TRUE,
              benefit |-> 0, pre |-> 0, post |-> 0]

ReadinessInit ==
  /\ mode \in Modes /\ status = "running" /\ point = "loop" /\ attempts = 0
  /\ signal = "none" /\ changed = FALSE /\ partial = FALSE /\ denials = FALSE
  /\ todos = [t \in Todos |-> NoTodo] /\ context = NoContext
  /\ reminded = {} /\ version = 1 /\ verified = 0 /\ notices = {}
  /\ objected = FALSE

-----------------------------------------------------------------------------
(* context_budget_summary: the pressure is 0 when no window is known, and  *)
(* what a compaction saved is its own tokens less.                         *)
Pressure(p) ==
  IF p.window > p.reserved THEN (100 * p.estimated) \div (p.window - p.reserved) ELSE 0
BudgetSummary(p) ==
  [pressure |-> Pressure(p), tier |-> p.tier, saved |-> p.saved, called |-> p.called,
   delta |-> p.delta, mode |-> p.mode, steps |-> p.steps, files |-> p.files,
   provider |-> p.provider, pre |-> p.pre, post |-> p.post,
   benefit |-> IF p.cost = 0 THEN 0 ELSE p.pre - p.post - p.cost]

(* final_readiness_context: the pressure is a percentage here.             *)
UnderPressure(c) == c.tier \in {"tier2_prune", "tier3_summary"}
PressureUnreduced(c) == c.pressure >= 95 /\ c.saved = 0
SummaryWithoutDelta(c) == c.tier = "tier3_summary" /\ c.called /\ c.delta = 0
UsageUnavailable(c) == ~c.provider /\ (UnderPressure(c) \/ c.pressure >= 80)
CompactNetNegative(c) == c.benefit < 0
SummaryQualityLow(c) == c.mode = "llm" /\ (~c.steps \/ ~c.files)
CompactionFailed(c) == c.tier = "tier3_summary" /\ c.pre > 0 /\ c.post >= c.pre

(* READINESS_REASONS *)
Hard == {"changed_paths_without_verification", "failed_verification",
         "partial_success_workspace_changed", "governance_denial",
         "context_pressure_compaction_failed"}

UnresolvedTodo ==
  \E t \in Todos : todos[t].priority = "high" /\ todos[t].status \in {"pending", "in_progress"}

(* readiness_reasons *)
Reasons ==
  LET When(condition, reason) == IF condition THEN {reason} ELSE {}
  IN  UNION {
        When(changed /\ signal # "passed", "changed_paths_without_verification"),
        When(signal = "failed", "failed_verification"),
        When(partial, "partial_success_workspace_changed"),
        When(denials, "governance_denial"),
        When(UnresolvedTodo, "unresolved_high_priority_todo"),
        When(PressureUnreduced(context), "context_pressure_without_reduction"),
        When(SummaryWithoutDelta(context), "tier3_summary_without_delta"),
        When(UsageUnavailable(context), "provider_real_token_usage_unavailable"),
        When(CompactNetNegative(context), "compact_net_negative"),
        When(SummaryQualityLow(context), "compact_summary_quality_low"),
        When(CompactionFailed(context), "context_pressure_compaction_failed")}

(* evaluate_final_readiness: what is done about the reasons.               *)
Decision(reasons) ==
  CASE reasons = {} -> "allow"
    [] reasons # {} /\ mode = "soft" /\ reasons \notin reminded -> "remind"
    [] reasons # {} /\ mode = "strict" /\ reasons \cap Hard # {} -> "block"
    [] OTHER -> "warn"

(* run_before_final_hooks: a hook that raises, or says what no hook may    *)
(* say, only warns; the strongest word of all of them counts.              *)
HookWords == {"allow", "warn", "runtime_notice", "block", "raises", "invalid"}
Heeded(word) == IF word \in {"raises", "invalid"} THEN "warn" ELSE word
HookAction(said) ==
  LET words == {Heeded(said[h]) : h \in Hooks}
  IN  CASE "block" \in words -> "block"
        [] "block" \notin words /\ "runtime_notice" \in words -> "runtime_notice"
        [] OTHER -> "allow"

-----------------------------------------------------------------------------
(* One round of the engine: a prompt is built and the model asked.         *)
AskModel ==
  /\ point = "loop" /\ attempts < MaxModelCalls
  /\ attempts' = attempts + 1 /\ point' = "replied"
  /\ \E p \in Prompts : context' = BudgetSummary(p)
  /\ UNCHANGED <<mode, status, signal, changed, partial, denials, todos, reminded, version,
                 verified, notices, objected>>

(* reduce_verification_signal: a change of the workspace takes back what   *)
(* was verified, and a command that verifies says so for what it left.     *)
KeptSignal(didChange, verifies, outcome) ==   \* faulty
  IF verifies THEN (IF outcome = "ok" THEN "passed" ELSE "failed") ELSE signal
SignalAfter(didChange, verifies, outcome) ==
  CASE verifies /\ outcome = "ok" -> "passed"
    [] verifies /\ outcome # "ok" -> "failed"
    [] ~verifies /\ didChange -> "missing"
    [] OTHER -> signal

(* What a tool may report: a refused call did nothing, a call that failed  *)
(* is a partial success when it changed the workspace, and a command that  *)
(* found no sandbox where one is required is an error and a denial.        *)
Outcomes ==
  {<<"ok", TRUE>>, <<"ok", FALSE>>, <<"error", FALSE>>, <<"partial_success", TRUE>>,
   <<"rejected", FALSE>>, <<"unsandboxed", FALSE>>}

(* _finish_tool_payload: the event of a tool goes to every consumer.  A    *)
(* refused call has left a governance decision before.                     *)
ToolExecuted(outcome, didChange, verifies) ==
  /\ point \in {"replied", "tools"} /\ point' \in {"tools", "loop"}
  /\ didChange => version <= MaxChanges
  /\ version' = IF didChange THEN version + 1 ELSE version
  /\ changed' = (changed \/ didChange)
  /\ partial' = (partial \/ outcome = "partial_success")
  /\ denials' = (denials \/ outcome \in {"rejected", "unsandboxed"})
  /\ signal' = SignalAfter(didChange, verifies, outcome)
  /\ verified' = IF verifies THEN (IF outcome = "ok" THEN version' ELSE 0) ELSE verified
  /\ UNCHANGED <<mode, status, attempts, todos, context, reminded, notices, objected>>

(* TodoLedger: every change of a todo is recorded with the whole todo.     *)
TodoChanged(t) ==
  /\ point \in {"replied", "tools"} /\ point' \in {"tools", "loop"}
  /\ \E priority \in {"normal", "high"}, now \in {"pending", "completed"} :
       todos' = [todos EXCEPT ![t] = [priority |-> priority, status |-> now]]
  /\ UNCHANGED <<mode, status, attempts, signal, changed, partial, denials, context,
                 reminded, version, verified, notices, objected>>

Recorded == <<signal, changed, partial, denials, todos, context, version, verified>>

(* final_readiness_action: the hooks first, then the evidence.  A notice   *)
(* sends the model on, a block ends the turn; an accepted answer still     *)
(* waits for what the user may have said meanwhile.                        *)
Propose(said) ==
  LET action == HookAction(said)
      verdict == IF mode = "off" THEN "allow" ELSE Decision(Reasons)
  IN  /\ point = "replied"
      /\ CASE action = "runtime_notice" -> point' = "loop" /\ UNCHANGED status
           [] action = "block" -> point' = "ended" /\ status' = "stopped"
           [] action = "allow" /\ verdict = "remind" -> point' = "loop" /\ UNCHANGED status
           [] action = "allow" /\ verdict = "block" -> point' = "ended" /\ status' = "stopped"
           [] OTHER -> point' = "accepted" /\ UNCHANGED status
      /\ LET told == action = "allow" /\ verdict = "remind"
         IN  /\ reminded' = IF told THEN reminded \cup {Reasons} ELSE reminded
             /\ notices' = IF told THEN notices \cup {<<Cardinality(notices) + 1, Reasons>>}
                                   ELSE notices
      /\ objected' = \E h \in Hooks : said[h] \in {"block", "runtime_notice"}
      /\ UNCHANGED <<mode, attempts, Recorded>>

(* _process_control_events, and then finish_successful_run.  A user who    *)
(* steers sends the model on with another request.                         *)
Steer ==
  /\ point = "accepted" /\ point' = "loop"
  /\ UNCHANGED <<mode, status, attempts, reminded, notices, objected, Recorded>>
Abort ==
  /\ point = "accepted" /\ point' = "ended" /\ status' = "stopped"
  /\ UNCHANGED <<mode, attempts, reminded, notices, objected, Recorded>>
FinishTurn ==
  /\ point = "accepted" /\ point' = "ended" /\ status' = "completed"
  /\ UNCHANGED <<mode, attempts, reminded, notices, objected, Recorded>>

(* finish_limited_run: the model was asked as often as it may be.          *)
OutOfAttempts ==
  /\ point = "loop" /\ attempts = MaxModelCalls
  /\ point' = "ended" /\ status' = "stopped"
  /\ UNCHANGED <<mode, attempts, reminded, notices, objected, Recorded>>

ReadinessNext ==
  \/ AskModel \/ Steer \/ Abort \/ FinishTurn \/ OutOfAttempts
  \/ \E o \in Outcomes, v \in BOOLEAN : ToolExecuted(o[1], o[2], v)
  \/ \E t \in Todos : TodoChanged(t)
  \/ \E said \in [Hooks -> HookWords] : Propose(said)

ReadinessSpec == ReadinessInit /\ [][ReadinessNext]_readinessVars

-----------------------------------------------------------------------------
ReadinessTypeOK ==
  /\ mode \in Modes /\ status \in {"running", "completed", "stopped"}
  /\ point \in {"loop", "replied", "tools", "accepted", "ended"} /\ attempts \in 0..MaxModelCalls
  /\ signal \in {"none", "missing", "passed", "failed"}
  /\ {changed, partial, denials, objected} \subseteq BOOLEAN
  /\ todos \in [Todos -> [priority : {"none", "normal", "high"},
                          status : {"none", "pending", "completed"}]]
  /\ version \in 1..(MaxChanges + 2) /\ verified \in 0..version
  /\ reminded \subseteq SUBSET (Hard \cup {"unresolved_high_priority_todo",
       "context_pressure_without_reduction", "tier3_summary_without_delta",
       "provider_real_token_usage_unavailable", "compact_net_negative",
       "compact_summary_quality_low"})

(* An answer that ended a turn as a success was backed: under strict       *)
(* readiness, the workspace as the turn's tools left it was verified after *)
(* the last of their changes and no verification failed since; under soft  *)
(* readiness, whatever stood against the answer had been put to the model  *)
(* in this turn; and every hook let it pass.                               *)
ClaimIsBacked ==
  status = "completed" =>
    /\ mode = "strict" /\ version > 1 => verified = version
    /\ mode = "soft" => Reasons = {} \/ \E n \in notices : n[2] = Reasons
    /\ ~objected

(* A turn is not sent back twice for the same reasons, so that the         *)
(* readiness gate alone cannot keep it from ending.                        *)
RemindedOnce == \A m, n \in notices : m[2] = n[2] => m = n

AnswersAreBacked == ClaimIsBacked /\ RemindedOnce
=============================================================================
