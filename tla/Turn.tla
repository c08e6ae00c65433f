--------------------------------- MODULE Turn ---------------------------------
(***************************************************************************)
(* The turns of one runtime (gencode/core/runtime/engine.py), their        *)
(* control queue and the two places where a getter task reads it beside    *)
(* the turn: the model stream (_consume_model_stream) and a parallel batch *)
(* of reads (actions/parallel_tools.py).  The user starts, steers, queues  *)
(* and cancels at any moment, from another thread.  Messages are numbers,  *)
(* a reply is its kind and its number of tool calls; status stands for     *)
(* status and stop_reason together.  The token ledger is in GoalBudget:    *)
(* here it may refuse a call at any time.  pc names the await the producer *)
(* is suspended at; what it runs between two awaits is one step.           *)
(* Definitions marked faulty are changes to the code under which a         *)
(* property fails; nothing else uses them.                                 *)
(***************************************************************************)
EXTENDS Integers, Sequences, Functions, Lists

CONSTANTS
  MaxSteps,  \* tool steps of one turn (agent.max_steps)
  MaxCalls,  \* bound: tool calls of one reply
  MaxInputs  \* bound: turns started and controls submitted by the user

ASSUME TurnAssumptions ==
  /\ {MaxSteps, MaxCalls} \subseteq Nat \ {0}
  /\ MaxInputs \in Nat

VARIABLES
  pc,        \* where the producer is
  msg,       \* user_message
  open,      \* turn_control_queue is not None
  soon,      \* put_nowait calls scheduled with call_soon_threadsafe
  ctl,       \* turn_control_queue
  armed,     \* a control_task is reading the queue
  taken,     \* <<>>, or what that task has read and nobody has looked at
  queued,    \* queued_turns
  pendingSteer,  \* pending_steer_message, or None
  abort,     \* abort_requested
  status,    \* task_state.status with its stop_reason
  attempts, steps,
  retried,   \* provider_retries["empty_response"] = 1
  owed,      \* recorded tool calls of this run that have no result yet
  heard,     \* user messages of the history, in order
  sent,      \* number of inputs of the user
  terminals, \* terminal transitions of this run
  announced  \* turn_finished events of this run

box  == <<open, soon, ctl, armed, taken>>
run  == <<status, terminals, announced>>
work == <<attempts, steps, retried, owed>>
talk == <<msg, heard, pendingSteer, queued>>
turnVars == <<pc, box, run, work, talk, abort, sent>>

None == 0
Refused == {"aborted", "timeout", "budget", "idle_timeout", "model_error",
            "blocked", "step_limit", "retry_limit", "runtime_error"}
InTurn == {"started", "top", "building", "model", "flushing", "answered",
           "calls", "batch", "tool", "reads", "gathering", "retry", "final",
           "limit", "closing"}

TurnInit ==
  /\ pc = "idle" /\ msg = None
  /\ open = FALSE /\ soon = <<>> /\ ctl = <<>> /\ armed = FALSE /\ taken = <<>>
  /\ queued = <<>> /\ pendingSteer = None /\ abort = FALSE
  /\ status = "none" /\ terminals = 0 /\ announced = 0
  /\ attempts = 0 /\ steps = 0 /\ retried = FALSE /\ owed = 0
  /\ heard = <<>> /\ sent = 0

-----------------------------------------------------------------------------
(* The user.  A control reaches the queue in two steps: the call accepts it *)
(* and the turn's event loop puts it.                                       *)
Submit(kind) ==
  /\ sent < MaxInputs /\ sent' = sent + 1
  /\ \/ /\ open
        /\ soon' = Append(soon, [type |-> kind, content |-> sent'])
        /\ UNCHANGED queued
     \/ /\ ~open /\ kind = "queue"
        /\ queued' = Append(queued, sent')
        /\ UNCHANGED soon
  /\ UNCHANGED <<pc, open, ctl, armed, taken, run, work, msg, heard, pendingSteer, abort>>

Put ==
  /\ soon # <<>>
  /\ ctl' = Append(ctl, Head(soon)) /\ soon' = Tail(soon)
  /\ UNCHANGED <<pc, open, armed, taken, run, work, talk, abort, sent>>

TakeControl ==
  /\ armed /\ taken = <<>> /\ ctl # <<>>
  /\ taken' = <<Head(ctl)>> /\ ctl' = Tail(ctl)
  /\ UNCHANGED <<pc, open, soon, armed, run, work, talk, abort, sent>>

Disarm == armed' = FALSE /\ taken' = <<>>

-----------------------------------------------------------------------------
(* _process_control_events empties the queue: the last steer wins while the *)
(* run is running, and is a turn of its own afterwards.                     *)
Contents(kinds) ==
  LET cs == Only(ctl, {c \in Range(ctl) : c.type \in kinds})
  IN  [i \in DOMAIN cs |-> cs[i].content]

Drained ==
  LET running == status = "running"
      steers  == Contents({"steer"})
  IN  [queued  |-> queued \o Contents(IF running THEN {"queue"} ELSE {"queue", "steer"}),
       pending |-> IF running /\ steers # <<>> THEN steers[Len(steers)] ELSE pendingSteer,
       abort   |-> abort \/ Contents({"cancel"}) # <<>>]

(* faulty: it also stays pending *)
RedirectAgain(m) == msg' = m /\ heard' = Append(heard, m) /\ pendingSteer' = m

(* The steering message becomes the user message *)
Redirect(m) == msg' = m /\ heard' = Append(heard, m) /\ pendingSteer' = None

(* A terminal transition; finish_stopped_run also forgets the abort request *)
EndRun(reason) ==
  /\ pc' = "closing"
  /\ status' = reason /\ terminals' = terminals + 1
  /\ UNCHANGED announced
Stop(reason) == EndRun(reason) /\ abort' = FALSE

-----------------------------------------------------------------------------
(* _run_turn_with_timeout and _run_turn_events up to turn_started *)
Begin(m) ==
  /\ pc' = "started" /\ msg' = m
  /\ open' = TRUE /\ soon' = <<>> /\ ctl' = <<>> /\ Disarm
  /\ abort' = FALSE
  /\ status' = "running" /\ terminals' = 0 /\ announced' = 0
  /\ attempts' = 0 /\ steps' = 0 /\ retried' = FALSE /\ owed' = 0

Start ==
  /\ pc = "idle" /\ sent < MaxInputs
  /\ sent' = sent + 1
  /\ Begin(sent')
  /\ UNCHANGED <<heard, pendingSteer, queued>>

Hear ==
  /\ pc = "started" /\ pc' = "top"
  /\ heard' = Append(heard, msg)
  /\ UNCHANGED <<box, run, work, msg, pendingSteer, queued, abort, sent>>

MayTry == steps < MaxSteps /\ attempts < MaxSteps + 2

(* An attempt of the loop *)
Try ==
  /\ pc' = "building" /\ attempts' = attempts + 1
  /\ UNCHANGED <<abort, run>>

(* The head of the loop: a steer is recorded, then an abort stops the turn *)
Iterate ==
  /\ pc = "top" /\ MayTry
  /\ LET d == Drained IN
       /\ ctl' = <<>> /\ queued' = d.queued
       /\ IF d.pending = None
            THEN UNCHANGED <<msg, heard, pendingSteer>>
            ELSE Redirect(d.pending)
       /\ IF d.abort THEN Stop("aborted") /\ UNCHANGED attempts ELSE Try
  /\ UNCHANGED <<open, soon, armed, taken, steps, retried, owed, sent>>

ReachLimit ==
  /\ pc = "top" /\ ~MayTry /\ pc' = "limit"
  /\ UNCHANGED <<box, run, work, talk, abort, sent>>

(* The closing summary may have been written; without one the attempts are  *)
(* blamed when it was they that ran out.                                    *)
FinishLimited ==
  /\ pc = "limit"
  /\ \/ steps > 0 /\ EndRun("step_limit")
     \/ steps < MaxSteps /\ EndRun("retry_limit")
  /\ UNCHANGED <<box, work, talk, abort, sent>>

(* The prompt is built and the tokens are reserved *)
Request ==
  /\ pc = "building"
  /\ \/ Stop("budget") /\ UNCHANGED armed
     \/ pc' = "model" /\ armed' = TRUE /\ UNCHANGED <<abort, run>>
  /\ UNCHANGED <<open, soon, ctl, taken, work, talk, sent>>

-----------------------------------------------------------------------------
(* _consume_model_stream: a control that was read goes before the stream *)
HandleQueue ==
  /\ pc \in {"model", "reads"} /\ taken # <<>> /\ taken[1].type = "queue"
  /\ queued' = Append(queued, taken[1].content) /\ taken' = <<>>
  /\ UNCHANGED <<pc, open, soon, ctl, armed, run, work, msg, heard, pendingSteer, abort, sent>>

(* A steer or a cancel, wherever it is read *)
Interrupt ==
  /\ taken # <<>> /\ taken[1].type # "queue"
  /\ IF taken[1].type = "steer"
       THEN pendingSteer' = taken[1].content /\ UNCHANGED abort
       ELSE abort' = TRUE /\ UNCHANGED pendingSteer
  /\ Disarm

InterruptStream ==
  /\ pc = "model" /\ Interrupt /\ pc' = "answered"
  /\ UNCHANGED <<open, soon, ctl, run, work, msg, heard, queued, sent>>

(* The completion may come with text to publish first; what the getter *)
(* reads in the meantime is dropped with it.                           *)
Complete ==
  /\ pc = "model" /\ taken = <<>>
  /\ \/ pc' = "flushing" /\ UNCHANGED <<armed, taken>>
     \/ pc' = "answered" /\ Disarm
  /\ UNCHANGED <<open, soon, ctl, run, work, talk, abort, sent>>

Flush ==
  /\ pc = "flushing" /\ pc' = "answered" /\ Disarm
  /\ UNCHANGED <<open, soon, ctl, run, work, talk, abort, sent>>

StreamFails ==
  /\ pc = "model" /\ taken = <<>> /\ Disarm
  /\ \/ abort /\ Stop("aborted") /\ UNCHANGED retried
     \/ ~abort /\ Stop("idle_timeout") /\ UNCHANGED retried
     \/ ~abort /\ ~retried /\ retried' = TRUE /\ pc' = "top" /\ UNCHANGED <<run, abort>>
     \/ ~abort /\ EndRun("model_error") /\ UNCHANGED <<retried, abort>>
  /\ UNCHANGED <<open, soon, ctl, attempts, steps, owed, talk, sent>>

(* A steer discards the answer, then a cancel stops the turn; otherwise it *)
(* is parsed, and native calls enter the history at once.                  *)
Answered ==
  /\ pc = "answered"
  /\ LET d == Drained IN
       /\ ctl' = <<>> /\ queued' = d.queued
       /\ \/ /\ d.pending # None
             /\ Redirect(d.pending) /\ pc' = "top" /\ abort' = d.abort
             /\ UNCHANGED <<run, owed>>
          \/ /\ d.pending = None /\ d.abort
             /\ Stop("aborted")
             /\ UNCHANGED <<msg, heard, pendingSteer, owed>>
          \/ /\ d.pending = None /\ ~d.abort
             /\ \/ pc' = "calls" /\ owed' \in 1..MaxCalls
                \/ pc' \in {"retry", "final"} /\ UNCHANGED owed
             /\ UNCHANGED <<run, msg, heard, pendingSteer, abort>>
  /\ UNCHANGED <<open, soon, armed, taken, attempts, steps, retried, sent>>

Retry ==
  /\ pc = "retry" /\ pc' = "top"
  /\ UNCHANGED <<box, run, work, talk, abort, sent>>

-----------------------------------------------------------------------------
(* stop_before_tool, or execute_tool_batch: one call after the other, or    *)
(* distinct reads together                                                  *)
Call ==
  /\ pc = "calls"
  /\ \/ Stop("budget") /\ UNCHANGED armed
     \/ pc' = "batch" /\ UNCHANGED <<armed, run, abort>>
     \/ /\ ~abort /\ owed \in 2..(MaxSteps - steps)
        /\ pc' = "reads" /\ armed' = TRUE /\ UNCHANGED <<run, abort>>
  /\ UNCHANGED <<open, soon, ctl, taken, work, talk, sent>>

(* faulty: the rest of a steered batch is dropped *)
SkipAllSilently == UNCHANGED owed /\ pc' = "top"

(* Every call that does not run gets the result that says so *)
SkipAll == owed' = 0 /\ UNCHANGED pc

SkipOne == owed' = owed - 1

(* faulty: off by one *)
BudgetOverspent == steps > MaxSteps

BudgetSpent == steps >= MaxSteps

NextCall ==
  /\ pc = "batch" /\ owed > 0
  /\ LET d == Drained IN
       /\ ctl' = <<>> /\ queued' = d.queued /\ pendingSteer' = d.pending /\ abort' = d.abort
       /\ \/ d.pending # None /\ SkipAll
          \/ d.pending = None /\ (BudgetSpent \/ d.abort) /\ SkipOne /\ UNCHANGED pc
          \/ d.pending = None /\ ~BudgetSpent /\ ~d.abort /\ pc' = "tool" /\ UNCHANGED owed
  /\ UNCHANGED <<open, soon, armed, taken, run, attempts, steps, retried, msg, heard, sent>>

ToolReturns ==
  /\ pc = "tool" /\ pc' = "batch"
  /\ owed' = owed - 1 /\ steps' = steps + 1
  /\ LET d == Drained IN
       ctl' = <<>> /\ queued' = d.queued /\ pendingSteer' = d.pending /\ abort' = d.abort
  /\ UNCHANGED <<open, soon, armed, taken, run, attempts, retried, msg, heard, sent>>

(* A control cuts the parallel reads short: k of them had started *)
InterruptReads ==
  /\ pc = "reads" /\ Interrupt /\ pc' = "batch"
  /\ \E k \in 0..owed : steps' = steps + k
  /\ owed' = 0
  /\ UNCHANGED <<open, soon, ctl, run, attempts, retried, msg, heard, queued, sent>>

ReadsReturn ==
  /\ pc = "reads" /\ taken = <<>> /\ pc' = "gathering"
  /\ UNCHANGED <<box, run, work, talk, abort, sent>>

Gather ==
  /\ pc = "gathering" /\ pc' = "batch" /\ Disarm
  /\ steps' = steps + owed /\ owed' = 0
  /\ UNCHANGED <<open, soon, ctl, run, attempts, retried, talk, abort, sent>>

EndBatch ==
  /\ pc = "batch" /\ owed = 0
  /\ IF abort THEN Stop("aborted") ELSE pc' = "top" /\ UNCHANGED <<run, abort>>
  /\ UNCHANGED <<box, work, talk, sent>>

-----------------------------------------------------------------------------
(* A final answer: the plan or the readiness gate sends it back or blocks  *)
(* it, a cancel or a steer that came meanwhile goes first.                 *)
Remind ==
  /\ pc = "final" /\ pc' = "top"
  /\ UNCHANGED <<box, run, work, talk, abort, sent>>

(* faulty: the last look at the queue is left out *)
AcceptBlindly ==
  /\ pc = "final" /\ EndRun("completed")
  /\ UNCHANGED <<box, work, talk, abort, sent>>

Block ==
  /\ pc = "final" /\ Stop("blocked")
  /\ UNCHANGED <<box, work, talk, sent>>

Accept ==
  /\ pc = "final"
  /\ LET d == Drained IN
       /\ ctl' = <<>> /\ queued' = d.queued
       /\ \/ d.abort /\ Stop("aborted") /\ pendingSteer' = d.pending /\ UNCHANGED <<msg, heard>>
          \/ /\ ~d.abort /\ d.pending # None
             /\ Redirect(d.pending) /\ pc' = "top" /\ UNCHANGED <<run, abort>>
          \/ /\ ~d.abort /\ d.pending = None
             /\ EndRun("completed") /\ UNCHANGED <<msg, heard, pendingSteer, abort>>
  /\ UNCHANGED <<open, soon, armed, taken, work, sent>>

-----------------------------------------------------------------------------
(* The first event of the end ("final" or "stop") has been published; then  *)
(* comes turn_finished.                                                     *)
Announce ==
  /\ pc \in {"closing", "stopping", "failing"}
  /\ announced' = announced + 1
  /\ pc' = IF pc = "failing" THEN "idle" ELSE "unwinding"
  /\ UNCHANGED <<box, status, terminals, work, talk, abort, sent>>

(* asyncio.timeout(max_turn_seconds) interrupts whatever await the producer *)
(* is in.  The getter dies with the stream, or is left to the finalizer.    *)
Expires ==
  /\ pc \in InTurn \ {"top"}
  /\ armed' \in {armed, FALSE} /\ taken' = IF armed' THEN taken ELSE <<>>
  /\ IF status = "running"
       THEN /\ pc' = "stopping" /\ abort' = FALSE
            /\ status' = "timeout" /\ terminals' = terminals + 1
       ELSE pc' = "unwinding" /\ UNCHANGED <<abort, status, terminals>>
  /\ UNCHANGED <<open, soon, ctl, announced, work, talk, sent>>

(* The control queue is drained a last time and given up, with the puts    *)
(* that are still scheduled for it; the next queued turn starts at once.   *)
Unwind ==
  /\ pc = "unwinding"
  /\ LET d == Drained IN
       IF d.queued = <<>>
         THEN /\ pc' = "idle" /\ queued' = <<>> /\ abort' = d.abort
              /\ open' = FALSE /\ soon' = <<>> /\ ctl' = <<>> /\ Disarm
              /\ UNCHANGED <<run, work, msg>>
         ELSE Begin(Head(d.queued)) /\ queued' = Tail(d.queued)
  /\ UNCHANGED <<heard, pendingSteer, sent>>

(* Any other exception ends the producer: the turns it had queued stay.    *)
Break ==
  /\ pc \in {"started", "building", "tool", "final"} /\ pc' = "broken"
  /\ LET d == Drained IN
       queued' = d.queued /\ pendingSteer' = d.pending /\ abort' = d.abort
  /\ open' = FALSE /\ soon' = <<>> /\ ctl' = <<>>
  /\ UNCHANGED <<armed, taken, run, work, msg, heard, sent>>

(* finish_unexpected_run_error *)
Recover ==
  /\ pc = "broken" /\ pc' = "failing"
  /\ status' = "runtime_error" /\ terminals' = terminals + 1 /\ abort' = FALSE
  /\ UNCHANGED <<box, announced, work, talk, sent>>

-----------------------------------------------------------------------------
Producer ==
  \/ Hear \/ Iterate \/ ReachLimit \/ FinishLimited \/ Request
  \/ HandleQueue \/ InterruptStream \/ Complete \/ Flush \/ StreamFails
  \/ Answered \/ Retry
  \/ Call \/ NextCall \/ ToolReturns \/ InterruptReads \/ ReadsReturn \/ Gather \/ EndBatch
  \/ Remind \/ Block \/ Accept
  \/ Announce \/ Unwind \/ Recover

TurnNext ==
  \/ Producer
  \/ Start
  \/ \E kind \in {"steer", "queue", "cancel"} : Submit(kind)
  \/ Put \/ TakeControl
  \/ Expires \/ Break

TurnSpec == TurnInit /\ [][TurnNext]_turnVars

(* The stream has an idle timeout and tools have theirs: the producer never *)
(* waits for ever.  The turn's own timeout is not relied on.                *)
TurnFairSpec == TurnSpec /\ WF_turnVars(Producer)

-----------------------------------------------------------------------------
Inputs == 1..MaxInputs
Controls == [type : {"steer", "queue", "cancel"}, content : Inputs]

(* The variables have their types; the tool steps and the attempts keep     *)
(* within the budgets of the turn (engine.py:553, engine_helpers.py:253).   *)
TurnTypeOK ==
  /\ pc \in InTurn \cup {"idle", "stopping", "unwinding", "broken", "failing"}
  /\ msg \in Inputs \cup {None}
  /\ open \in BOOLEAN /\ armed \in BOOLEAN /\ abort \in BOOLEAN /\ retried \in BOOLEAN
  /\ soon \in Seq(Controls) /\ ctl \in Seq(Controls) /\ taken \in Seq(Controls)
  /\ queued \in Seq(Inputs) /\ pendingSteer \in Inputs \cup {None}
  /\ status \in Refused \cup {"none", "running", "completed"}
  /\ steps \in 0..MaxSteps /\ attempts \in 0..(MaxSteps + 2)
  /\ owed \in 0..MaxCalls
  /\ heard \in Seq(Inputs) /\ sent \in 0..MaxInputs
  /\ terminals \in Nat /\ announced \in Nat

(* Whatever ends a run - an answer, a limit, a control, a timeout, an error *)
(* - and whatever comes while it ends, there is one terminal transition and *)
(* at most one turn_finished, after it (turn_transitions.py:61 raises on a  *)
(* second).                                                                 *)
EndsOnce ==
  /\ terminals = (IF status \in {"none", "running"} THEN 0 ELSE 1)
  /\ announced <= terminals

(* A request is only sent, and an answer only accepted, with every recorded *)
(* tool call of the run paired with a result (engine_helpers.py:382).       *)
CallsArePaired == pc \in {"top", "building", "model"} \/ status = "completed" => owed = 0

(* Whatever races the end of a run, it has one, and no call of the model is *)
(* left without its result before it.                                       *)
RunIsSound == EndsOnce /\ CallsArePaired

(* No message of the user enters the history twice, whether it was steered, *)
(* queued, or turned from one into the other.                               *)
HeardOnce == IsInjective(heard)

(* A turn never reports success over a cancel or a steer that had reached   *)
(* it (engine.py:967): none is pending, set, or waiting in the queue.       *)
SuccessIsUpToDate ==
  [][status = "running" /\ status' = "completed" =>
       /\ ~abort /\ pendingSteer = None
       /\ \A i \in DOMAIN ctl : ctl[i].type = "queue"]_turnVars

(* A turn ends, and with it the turns queued behind it, without the help of *)
(* its timeout.                                                             *)
TurnsEnd == (pc # "idle") ~> (pc = "idle")

(* engine.py:161 says of the producer: "detached Runs must publish a        *)
(* terminal result".                                                        *)
TerminalIsPublished == pc = "idle" /\ status # "none" => announced = 1
=============================================================================
