----------------------------- MODULE GoalBudget -----------------------------
(***************************************************************************)
(* The token ledger of one durable Goal: gencode/core/runtime/             *)
(* goal_budget.py, driven by the per-call wrapper GoalTokenCallBudget of   *)
(* engine_helpers.py.                                                      *)
(*                                                                         *)
(* Every model call of every child runtime of the Goal (planner, workers,  *)
(* critic, query resolver) reserves its estimated input plus its output    *)
(* cap, asks the provider, and then records what the provider billed, or   *)
(* releases the reservation when the call was cancelled, steered away or   *)
(* failed.  reserve, record and release hold one asyncio.Lock and contain  *)
(* no other await, so each is one atomic step here; each ends by saving    *)
(* the whole goal record, which is the only thing that survives a crash.   *)
(*                                                                         *)
(* A call slot stands for one GoalTokenCallBudget: it holds at most one    *)
(* reservation, so the slot also plays the part of the reservation's uuid. *)
(***************************************************************************)
EXTENDS Sums

CONSTANTS
  NumCalls,    \* concurrent model-call sites (bound of the model)
  Roles,       \* budget roles: planner, worker, critic, query_resolver
  SharePct,    \* ROLE_BUDGET_SHARES in percent
  Budgets,     \* values max_total_tokens may be configured to
  Amounts,     \* estimated_input_tokens + max_output_tokens of a request
  Bills        \* tokens a provider can bill for one call

Calls == 1 .. NumCalls

NoRole == "none"

ASSUME BudgetAssumptions ==
  /\ NumCalls \in Nat
  /\ NoRole \notin Roles
  /\ SharePct \in [Roles -> 0 .. 100]
  /\ Budgets \subseteq Nat \ {0}
  /\ Amounts \subseteq Nat
  /\ Bills \subseteq Nat

VARIABLES
  up,          \* the process that owns the GoalTokenBudget object is alive
  usage,       \* goal["token_usage"] and max_total_tokens in memory
  disk,        \* the same record in goal.json
  reserved,    \* self.reserved_tokens
  reservedBy,  \* self.reserved_by_role
  blocked,     \* self.blocked
  call,        \* state of each call slot
  spent,       \* history: tokens providers have billed
  overrun,     \* history: tokens billed beyond what their call had reserved
  waived       \* history: tokens billed to calls that were then released

budgetVars == <<up, usage, disk, reserved, reservedBy, blocked, call,
                spent, overrun, waived>>
memory == <<reserved, reservedBy, blocked>>
history == <<spent, overrun, waived>>

NoReservation == [role |-> NoRole, tokens |-> 0]
Reservation == [role : Roles \cup {NoRole}, tokens : Nat]
Reasons == {"", "total token budget reached", "role token allocation reached"}
Usage == [max : Nat, total : Nat, byRole : [Roles -> Nat],
          pending : [Calls -> Reservation],
          exhausted : BOOLEAN, reason : Reasons, by : Roles \cup {NoRole}]
CallState == [phase : {"idle", "asking", "answered"}, billed : Nat]
IdleCall == [phase |-> "idle", billed |-> 0]

-----------------------------------------------------------------------------
(* max(1, math.ceil(max_total_tokens * share)) *)
RoleLimit(r, max) ==
  LET share == (max * SharePct[r] + 99) \div 100
  IN  IF share < 1 THEN 1 ELSE share

Excess(billed, tokens) == IF billed > tokens THEN billed - tokens ELSE 0
Less(a, b) == IF a > b THEN a - b ELSE 0

(* what the pending reservations hold, altogether and of one role *)
PendingTokens(u) == SumTo([c \in Calls |-> u.pending[c].tokens], NumCalls)
PendingTokensOf(u, r) ==
  SumTo([c \in Calls |-> IF u.pending[c].role = r THEN u.pending[c].tokens ELSE 0],
        NumCalls)

(* _charge_uncertain_reservations: every reservation a dead process left    *)
(* behind is charged in full, because its provider call may have completed. *)
ChargeUncertain(u) ==
  [u EXCEPT
    !.total = @ + PendingTokens(u),
    !.byRole = [r \in Roles |-> @[r] + PendingTokensOf(u, r)],
    !.pending = [c \in Calls |-> NoReservation]]

(* The end of GoalTokenBudget.__init__: blocked is recomputed from the      *)
(* total alone, and the refusal reason is wiped unless the total is spent.  *)
Reopened(u) ==
  IF u.total >= u.max
    THEN [u EXCEPT !.exhausted = TRUE]
    ELSE [u EXCEPT !.exhausted = FALSE, !.reason = "", !.by = NoRole]

Fresh(max) ==
  [max |-> max, total |-> 0, byRole |-> [r \in Roles |-> 0],
   pending |-> [c \in Calls |-> NoReservation],
   exhausted |-> FALSE, reason |-> "", by |-> NoRole]

(* Faulty variants (here and below) are substituted for the definition that *)
(* follows them, to show that a property depends on it: admission that      *)
(* forgets the role's own allocation.                                       *)
FitsTotalOnly(r, n) == usage.total + reserved + n <= usage.max

Fits(r, n) ==
  /\ usage.total + reserved + n <= usage.max
  /\ usage.byRole[r] + reservedBy[r] + n <= RoleLimit(r, usage.max)

-----------------------------------------------------------------------------
BudgetInit ==
  /\ up = FALSE
  /\ \E max \in Budgets : disk = Fresh(max)
  /\ usage = disk
  /\ reserved = 0
  /\ reservedBy = [r \in Roles |-> 0]
  /\ blocked = FALSE
  /\ call = [c \in Calls |-> IdleCall]
  /\ spent = 0 /\ overrun = 0 /\ waived = 0

(* _run_goal loads goal.json and builds a GoalTokenBudget over it; /goal    *)
(* resume may first have raised max_total_tokens, never lowered it.         *)
Open ==
  /\ ~up
  /\ \E max \in Budgets :
       LET raised == [disk EXCEPT !.max = IF max > @ THEN max ELSE @]
           opened == Reopened(ChargeUncertain(raised))
       IN  /\ usage' = opened
           /\ disk' = opened
           /\ blocked' = (opened.total >= opened.max)
  /\ up' = TRUE
  /\ reserved' = 0
  /\ reservedBy' = [r \in Roles |-> 0]
  /\ UNCHANGED <<call, history>>

(* Faulty: the request leaves before the reservation is saved.              *)
ReserveUnsaved(c, r, n) ==
  /\ up
  /\ call[c].phase = "idle"
  /\ ~blocked /\ Fits(r, n)
  /\ reserved' = reserved + n
  /\ reservedBy' = [reservedBy EXCEPT ![r] = @ + n]
  /\ usage' = [usage EXCEPT !.pending[c] = [role |-> r, tokens |-> n]]
  /\ call' = [call EXCEPT ![c] = [phase |-> "asking", billed |-> 0]]
  /\ UNCHANGED <<up, blocked, disk, history>>

(* reserve: the reservation is stored and saved before the request leaves.  *)
Reserve(c, r, n) ==
  /\ up
  /\ call[c].phase = "idle"
  /\ ~blocked /\ Fits(r, n)
  /\ reserved' = reserved + n
  /\ reservedBy' = [reservedBy EXCEPT ![r] = @ + n]
  /\ usage' = [usage EXCEPT !.pending[c] = [role |-> r, tokens |-> n]]
  /\ disk' = usage'
  /\ call' = [call EXCEPT ![c] = [phase |-> "asking", billed |-> 0]]
  /\ UNCHANGED <<up, blocked, history>>

(* reserve, refused: the first refusal blocks the whole Goal, every role    *)
(* included, and the reason names the role that asked.                      *)
Refuse(c, r, n) ==
  /\ up
  /\ call[c].phase = "idle"
  /\ blocked \/ ~Fits(r, n)
  /\ blocked' = TRUE
  /\ usage' = [usage EXCEPT
       !.exhausted = TRUE,
       !.reason = IF usage.total + reserved + n > usage.max
                    THEN "total token budget reached"
                    ELSE "role token allocation reached",
       !.by = r]
  /\ disk' = usage'
  /\ UNCHANGED <<up, reserved, reservedBy, call, history>>

(* The provider completes the request and bills it; nobody has been told.   *)
Answer(c, billed) ==
  /\ up
  /\ call[c].phase = "asking"
  /\ call' = [call EXCEPT ![c] = [phase |-> "answered", billed |-> billed]]
  /\ spent' = spent + billed
  /\ overrun' = overrun + Excess(billed, usage.pending[c].tokens)
  /\ UNCHANGED <<up, usage, disk, memory, waived>>

(* _remove_reservation on the in-memory counters *)
Unreserve(c) ==
  LET p == usage.pending[c]
  IN  /\ reserved' = Less(reserved, p.tokens)
      /\ reservedBy' = [reservedBy EXCEPT ![p.role] = Less(@, p.tokens)]

(* record: the reservation is swapped for what the provider reported.       *)
Charged(c) ==
  LET p == usage.pending[c]
      b == call[c].billed
  IN  [usage EXCEPT !.total = @ + b,
                    !.byRole = [usage.byRole EXCEPT ![p.role] = @ + b],
                    !.pending = [usage.pending EXCEPT ![c] = NoReservation]]

(* Faulty: recomputes the block from this call alone.                       *)
RecordReopens(c) ==
  LET r == usage.pending[c].role
      u == Charged(c)
      full == u.total >= u.max
  IN  /\ up
      /\ call[c].phase = "answered"
      /\ Unreserve(c)
      /\ blocked' = full
      /\ usage' = [u EXCEPT !.exhausted = full,
                            !.reason = IF full THEN "total token budget reached" ELSE "",
                            !.by = IF full THEN r ELSE NoRole]
      /\ disk' = usage'
      /\ call' = [call EXCEPT ![c] = IdleCall]
      /\ UNCHANGED <<up, history>>

RecordUsage(c) ==
  LET r == usage.pending[c].role
      u == Charged(c)
      full == u.total >= u.max
      roleFull == u.byRole[r] >= RoleLimit(r, u.max)
  IN  /\ up
      /\ call[c].phase = "answered"
      /\ Unreserve(c)
      /\ blocked' = (blocked \/ full \/ roleFull)
      /\ usage' = IF full \/ roleFull
                    THEN [u EXCEPT
                           !.exhausted = TRUE,
                           !.reason = IF full THEN "total token budget reached"
                                      ELSE "role token allocation reached",
                           !.by = r]
                    ELSE u
      /\ disk' = usage'
      /\ call' = [call EXCEPT ![c] = IdleCall]
      /\ UNCHANGED <<up, history>>

(* release: a cancelled, steered or failed call gives its reservation back; *)
(* what the provider may already have billed is not charged to the Goal.    *)
Release(c) ==
  /\ up
  /\ call[c].phase # "idle"
  /\ Unreserve(c)
  /\ usage' = [usage EXCEPT !.pending[c] = NoReservation]
  /\ disk' = usage'
  /\ waived' = waived + call[c].billed
  /\ call' = [call EXCEPT ![c] = IdleCall]
  /\ UNCHANGED <<up, blocked, spent, overrun>>

(* The process dies, or the run ends: only goal.json is left.               *)
Crash ==
  /\ up
  /\ up' = FALSE
  /\ call' = [c \in Calls |-> IdleCall]
  /\ UNCHANGED <<usage, disk, memory, history>>

BudgetNext ==
  \/ Open
  \/ \E c \in Calls, r \in Roles, n \in Amounts : Reserve(c, r, n)
  \/ \E c \in Calls, r \in Roles, n \in Amounts : Refuse(c, r, n)
  \/ \E c \in Calls, b \in Bills : Answer(c, b)
  \/ \E c \in Calls : RecordUsage(c)
  \/ \E c \in Calls : Release(c)
  \/ Crash

BudgetSpec == BudgetInit /\ [][BudgetNext]_budgetVars

-----------------------------------------------------------------------------
BudgetTypeOK ==
  /\ up \in BOOLEAN
  /\ usage \in Usage
  /\ disk \in Usage
  /\ reserved \in Nat
  /\ reservedBy \in [Roles -> Nat]
  /\ blocked \in BOOLEAN
  /\ call \in [Calls -> CallState]
  /\ spent \in Nat /\ overrun \in Nat /\ waived \in Nat

(* The in-memory counters of goal_budget.py:42-55 never drift from the      *)
(* persisted reservations they summarise, in whatever order concurrent      *)
(* calls reserve, record and release (the max(0, ...) clamps never bite).   *)
ReservedMatchesPending ==
  up => /\ reserved = PendingTokens(usage)
        /\ \A r \in Roles : reservedBy[r] = PendingTokensOf(usage, r)

(* reserve's admission test is enough: however many calls are in flight,    *)
(* spent plus reserved tokens exceed max_total_tokens by at most what       *)
(* providers billed beyond their own reservations.                          *)
SpendBound == usage.total + (IF up THEN reserved ELSE 0) <= usage.max + overrun

(* The same for each role's allocation (goal_budget.py:80-84).              *)
RoleSpendBound ==
  \A r \in Roles :
    usage.byRole[r] + (IF up THEN reservedBy[r] ELSE 0)
      <= RoleLimit(r, usage.max) + overrun

(* However calls interleave, the counters agree with the reservations and   *)
(* neither the Goal's budget nor a role's share is exceeded.                *)
BudgetsHold == ReservedMatchesPending /\ SpendBound /\ RoleSpendBound

(* Crash safety of the ledger: whatever instant the process dies, goal.json *)
(* accounts (as usage or as a pending reservation that the next run will    *)
(* charge) for every token a provider billed, except tokens billed beyond a *)
(* reservation and those of calls that were deliberately released.          *)
DurablyAccounted ==
  spent <= disk.total + PendingTokens(disk) + overrun + waived

(* A Goal that refused a call stays exhausted for every role until it is    *)
(* reopened: no call in flight can clear the block behind the others' back, *)
(* and goal.json says so.                                                   *)
ExhaustedIsSticky == [][blocked /\ up /\ up' => blocked' /\ disk'.exhausted]_budgetVars
=============================================================================
