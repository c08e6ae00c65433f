----------------------------- MODULE PromptBudget -----------------------------
(***************************************************************************)
(* How the prompt of one model request is built to its budget              *)
(* (context_manager.py and the renderers it calls) and when building it    *)
(* compacts the history (context_orchestrator.py).  A text is its length;  *)
(* the history is a sequence of turns, a turn the sequence of its items.   *)
(* Definitions marked faulty are changes to the code under which a         *)
(* property fails; nothing else uses them.                                 *)
(***************************************************************************)
EXTENDS Sums, Lists, FiniteSets, SequencesExt

CONSTANTS
  ContextWindow,  \* tokens of the model's window
  Reserve,        \* OUTPUT_RESERVE_TOKENS
  MinChars,       \* MIN_BUDGET_CHARS
  MaxChars,       \* MAX_BUDGET_CHARS
  Ratio,          \* SECTION_RATIOS, in per cent
  MinBudget,      \* MIN_SECTION_BUDGETS
  Separator,      \* length of what joins two sections
  Header,         \* length of "Relevant memory:", "Transcript:", "Turn x:"
  LeastNotes,     \* 80, the least budget of the notes under pressure
  LeastLine,      \* 40, what a clipped line keeps at least
  FullLine,       \* 900, the limit of a line shown in full
  LineLimits,     \* the line limits of older turns, by pressure
  Stub,           \* length of the line that stands for an old tool result
  SummaryLength,  \* length of a compaction's summary
  Inputs,         \* what a request may meet: the lengths of its sources
  Turns,          \* the turns there may be: sequences of items
  MaxItems,       \* bound: items of a turn
  MaxHistory,     \* bound: items of a session
  MaxPrompts     \* bound: prompts built in a turn

Sections == {"prefix", "memory", "skills", "relevant_memory", "repo_map", "history"}
ReductionOrder ==
  <<"relevant_memory", "repo_map", "skills", "history", "memory", "prefix">>

Most(a, b)  == IF a > b THEN a ELSE b
Least(a, b) == IF a < b THEN a ELSE b
Total(f) == f["prefix"] + f["memory"] + f["skills"]
              + f["relevant_memory"] + f["repo_map"] + f["history"]
Sum(seq) == SumTo(seq, Len(seq))

(* compute_budget_chars, at a utilization of one half and 4 chars a token. *)
TotalBudget ==
  LET usable == IF ContextWindow > Reserve THEN ContextWindow - Reserve ELSE ContextWindow
  IN Most(Least(MinChars, 4 * ContextWindow), Least(MaxChars, 2 * usable))

(* compute_section_budgets.                                                *)
FirstBudget == [s \in Sections |->
  LET share == (TotalBudget * Ratio[s]) \div 100 IN
  IF TotalBudget < Total(MinBudget) THEN share ELSE Most(MinBudget[s], share)]

(* What a request is made of, and an item of a turn without its number.    *)
Requests == [message : Nat, memory : Nat, spec : Nat, notes : Seq(Nat), texts : [Sections -> Nat]]
PastItems == UNION {ToSet(turn) : turn \in Turns}
ItemKinds == {item.kind : item \in PastItems} \cup {"summary"}
Paths == {item.path : item \in PastItems} \cup {""}
Items == [kind : ItemKinds, path : Paths, ok : BOOLEAN, changed : BOOLEAN, size : Nat]

(* Lengths and limits are natural numbers.  The window is not so small     *)
(* that nothing is left for the notes or the history, and the header of    *)
(* the notes is shorter than the least they get.                           *)
ASSUME PromptBudgetAssumptions ==
  /\ {ContextWindow, Reserve, MinChars, MaxChars, Separator, Header, LeastNotes,
      LeastLine, FullLine, Stub, SummaryLength} \subseteq Nat
  /\ Ratio \in [Sections -> Nat] /\ MinBudget \in [Sections -> Nat]
  /\ LineLimits \in [1..4 -> Nat] /\ Header \in 1..LeastNotes
  /\ Inputs \subseteq Requests /\ Turns \subseteq Seq(Items)
  /\ \A s \in {"relevant_memory", "history"} : FirstBudget[s] > 0 /\ MinBudget[s] > 0

VARIABLES
  turns,      \* session["history"], a sequence of its items for each turn
  ledger,     \* context_replacements: ids of the results it has a stub for
  request,    \* the input of the request being built
  budgets,    \* budgets of the sections in this build
  prompt,     \* the prompt rendered with them
  tier,       \* pressure tier of this build, 0..3
  builder,      \* "idle", "fitting", "built" or "rebuild"
  compacted,  \* this request has compacted the history
  asked,      \* requests of this turn
  items       \* items so far, the source of event ids

promptVars == <<turns, ledger, request, budgets, prompt, tier, builder, compacted,
                asked, items>>

-----------------------------------------------------------------------------
(* tail_clip.                                                              *)
Clip(n, limit) == IF limit <= 0 THEN 0 ELSE Least(n, limit)

(* render_memory_section: the text of bound Specs ends the section and is  *)
(* kept whole.  What is shown of the rest and of the Specs:                *)
MemoryShown(r, b) ==
  [rest |-> IF b <= r.spec THEN 0 ELSE Clip(r.memory, b - r.spec - Separator),
   spec |-> r.spec]
MemoryLength(r, b) ==
  LET m == MemoryShown(r, b) IN
  IF r.spec = 0 THEN Clip(r.memory, b)
  ELSE m.rest + (IF m.rest > 0 THEN Separator ELSE 0) + m.spec

(* _render_relevant_memory: every note gets the same room, as much as fits *)
NotesAt(notes, each) ==
  Header + Sum([i \in DOMAIN notes |-> 3 + Clip(notes[i], each)])
NotesLength(notes, b) ==
  LET each == Most(1, (b - Header - 3 * Len(notes)) \div Len(notes))
      length == NotesAt(notes, each)
  IN IF notes = <<>> THEN Header
     ELSE IF length > b /\ b > 0 THEN b ELSE length

-----------------------------------------------------------------------------
(* PRESSURE_LIMITS: turns shown in full, and the line limit of the others. *)
Recent(t) == CASE t = 0 -> 3 [] t \in {1, 2} -> 2 [] OTHER -> 1
IsRecent(h, k, t) == k > Len(h) - Recent(t)
OldLine(t) == LineLimits[t + 1]

Protected == {"ask_user", "todo_update", "exit_plan_mode"}
IsTool(item) == item.kind \notin {"user", "assistant", "summary"}
ChangedPaths(h) == {item.path : item \in {i \in ToSet(Last(h)) : i.changed}}

(* ContextRetentionPolicy.should_render_tool_inline, for older turns.      *)
Inline(h, item) ==
  item.kind \in Protected \/ ~item.ok \/ item.changed \/ item.path \in ChangedPaths(h)

(* _compressed_turn_entries: how an item of an older turn is shown; a stub *)
(* of the ledger is taken again as long as the item may be stubbed.        *)
Shown(h, item) ==
  IF ~IsTool(item) THEN "line" ELSE IF Inline(h, item) THEN "full" ELSE "stub"

ItemLines(h, item, recent, t) ==
  CASE item.kind = "summary" -> <<item.size>>
    [] IsTool(item) /\ (recent \/ Shown(h, item) = "full") ->
         <<Header, Least(item.size, FullLine)>>
    [] IsTool(item) /\ ~recent /\ Shown(h, item) = "stub" -> <<Stub>>
    [] OTHER -> <<Least(item.size, IF recent THEN FullLine ELSE OldLine(t))>>
Lines(h, k, t) ==
  Loop(<<Header>>,
       [i \in DOMAIN h[k] |->
          [lines \in Seq(Nat) |-> lines \o ItemLines(h, h[k][i], IsRecent(h, k, t), t)]],
       Len(h[k]))

(* Lines, each with the newline before it.                                 *)
Width(lines) == Sum(lines) + Len(lines)
ClippedWidth(lines, b) ==
  Width([i \in DOMAIN lines |-> Clip(lines[i], Most(LeastLine, b \div Len(lines)))])

(* TurnHistoryBuilder.render_section: from the newest turn to the oldest,  *)
(* a turn is shown if it fits; a recent one that does not, if its clipped  *)
(* lines fit.  A header that does not fit itself is clipped.               *)
Filled(used, lines, recent, b) ==
  IF used + Width(lines) <= b THEN used + Width(lines)
  ELSE IF recent /\ used + ClippedWidth(lines, b) <= b
       THEN used + ClippedWidth(lines, b) ELSE used
Used(h, t, b) ==
  LET Newest(n) == Len(h) + 1 - n
      WithTurn(used, k) == Filled(used, Lines(h, k, t), IsRecent(h, k, t), b)
  IN  Loop(Header, [n \in DOMAIN h |-> [used \in Nat |-> WithTurn(used, Newest(n))]], Len(h))
HistoryLength(h, t, b) == IF Used(h, t, b) > b /\ b > 0 THEN b ELSE Used(h, t, b)

(* Results of older turns that get a stub for the first time.              *)
Stubbed(k) == {turns[k][i].id : i \in {j \in DOMAIN turns[k] : Shown(turns, turns[k][j]) = "stub"}}
Proposed(t) == UNION {Stubbed(k) : k \in {n \in DOMAIN turns : ~IsRecent(turns, n, t)}}

-----------------------------------------------------------------------------
(* _render_sections and _assemble_prompt: an empty repo map is left out.   *)
SectionLength(h, r, s, t, b) ==
  CASE s = "memory"          -> MemoryLength(r, b)
    [] s = "relevant_memory" -> NotesLength(r.notes, b)
    [] s = "history"         -> HistoryLength(h, t, b)
    [] OTHER                 -> Clip(r.texts[s], b)
PromptLength(h, r, t, bs) ==
  LET length == [s \in Sections |-> SectionLength(h, r, s, t, bs[s])] IN
  Total(length) + r.message
    + Separator * (IF length["repo_map"] = 0 THEN 5 ELSE 6)

(* _compute_section_floors.                                                *)
Floor(s) == IF s = "memory" THEN Most(MinBudget[s], request.spec) ELSE MinBudget[s]

TierOf(length, budget) ==
  CASE 100 * length >= 95 * budget -> 3
    [] 100 * length >= 80 * budget -> 2
    [] 100 * length >= 60 * budget -> 1
    [] OTHER -> 0

(* _pressure_adjusted_budgets.                                             *)
Adjusted(bs, t) == [s \in Sections |->
  CASE s = "relevant_memory" /\ t \in {1, 2} -> Most(LeastNotes, (bs[s] * 7) \div 10)
    [] s = "skills" /\ t = 2 -> bs[s] \div 2
    [] OTHER -> bs[s]]

NoRequest == [message |-> 0, memory |-> 0, spec |-> 0, notes |-> <<>>,
              texts |-> [s \in Sections |-> 0]]

PromptBudgetInit ==
  /\ turns = <<>> /\ ledger = {} /\ asked = 0 /\ items = 0
  /\ builder = "idle" /\ request = NoRequest /\ compacted = FALSE
  /\ budgets = FirstBudget /\ prompt = 0 /\ tier = 0

(* A turn with the results of its tools; the items get their event ids.    *)
Numbered(item, id) ==
  [kind |-> item.kind, path |-> item.path, ok |-> item.ok, changed |-> item.changed,
   size |-> item.size, id |-> id]
TurnRecorded ==
  /\ builder = "idle" /\ items + MaxItems <= MaxHistory
  /\ \E turn \in Turns :
       /\ turns' = Append(turns, [i \in DOMAIN turn |-> Numbered(turn[i], items + i)])
       /\ items' = items + Len(turn)
  /\ asked' = 0
  /\ UNCHANGED <<ledger, request, budgets, prompt, tier, builder, compacted>>

(* ContextManager.build up to the loop.                                    *)
Render(r) ==
  \E t \in {TierOf(PromptLength(turns, r, 0, FirstBudget), TotalBudget)} :
    \E bs \in {Adjusted(FirstBudget, t)} :
      /\ request' = r /\ tier' = t /\ budgets' = bs
      /\ prompt' = PromptLength(turns, r, t, bs)

Build ==
  /\ \/ /\ builder = "idle" /\ turns # <<>> /\ asked < MaxPrompts
        /\ \E r \in Inputs : Render(r)
        /\ compacted' = FALSE /\ asked' = asked + 1
     \/ builder = "rebuild" /\ Render(request) /\ UNCHANGED <<compacted, asked>>
  /\ builder' = "fitting"
  /\ UNCHANGED <<turns, ledger, items>>

Lowered(s) == Most(Floor(s), budgets[s] - (prompt - TotalBudget))
EvenBelowFloor(s) == budgets[s] # Floor(s)                          \* faulty
Reducible(s) == budgets[s] > Floor(s)

(* One round of the loop: the first section that can give way does.        *)
Reduce ==
  /\ builder = "fitting" /\ prompt > TotalBudget
  /\ \E k \in DOMAIN ReductionOrder :
       LET s == ReductionOrder[k] IN
       /\ Reducible(s) /\ \A j \in 1..k - 1 : ~Reducible(ReductionOrder[j])
       /\ \E bs \in {[budgets EXCEPT ![s] = Lowered(s)]} :
            budgets' = bs /\ prompt' = PromptLength(turns, request, tier, bs)
  /\ UNCHANGED <<turns, ledger, request, tier, builder, compacted, asked, items>>

Built ==
  /\ builder = "fitting"
  /\ prompt <= TotalBudget \/ \A s \in Sections : ~Reducible(s)
  /\ builder' = "built"
  /\ UNCHANGED <<turns, ledger, request, budgets, prompt, tier, compacted, asked, items>>

-----------------------------------------------------------------------------
(* CompactManager: all but the latest two turns become a summary.          *)
History == FlattenSeq(turns)
Delta == {item \in UNION {ToSet(turns[k]) : k \in 1..Len(turns) - 2} : item.kind # "summary"}

(* ContextUsageAnalyzer and ContextPressureController: the pressure of the *)
(* unreduced texts, or, for a prompt sent before, what the provider said.  *)
UsageTiers ==
  {TierOf(PromptLength(turns, request, 0, [s \in Sections |-> 4 * TotalBudget]), TotalBudget)}
  \cup (IF asked > 1 THEN 0..3 ELSE {})

(* ContextOrchestrator._compact_request and build: at most one compaction, *)
(* then the prompt is built again.                                         *)
SinceSummary == Cardinality({i \in DOMAIN History : History[i].kind # "summary"})
WantsCompaction(t) == prompt > TotalBudget \/ (t = 3 /\ SinceSummary >= 4)

Compact ==
  /\ builder = "built" /\ ~compacted
  /\ \E t \in UsageTiers : WantsCompaction(t)
  /\ Len(History) > 4 /\ Delta # {}
  /\ turns' = <<<<[kind |-> "summary", path |-> "", ok |-> TRUE, changed |-> FALSE,
                   size |-> SummaryLength, id |-> items + 1]>>>>
              \o SubSeq(turns, Len(turns) - 1, Len(turns))
  /\ items' = items + 1
  /\ builder' = "rebuild" /\ compacted' = TRUE
  /\ UNCHANGED <<ledger, request, budgets, prompt, tier, asked>>

(* The request is sent and the stubs it showed are committed; nothing else *)
(* of the build is kept.                                                   *)
Send ==
  /\ builder = "built"
  /\ \/ compacted \/ Len(History) <= 4 \/ Delta = {}
     \/ \E t \in UsageTiers : ~WantsCompaction(t)
  /\ ledger' = ledger \cup Proposed(tier)
  /\ builder' = "idle" /\ request' = NoRequest /\ compacted' = FALSE
  /\ budgets' = FirstBudget /\ prompt' = 0 /\ tier' = 0
  /\ UNCHANGED <<turns, asked, items>>

(* The turn goes on with the result of a tool.                             *)
ResultAdded ==
  /\ builder = "idle" /\ asked > 0 /\ asked < MaxPrompts
  /\ Len(turns[Len(turns)]) < MaxItems /\ items < MaxHistory
  /\ \E item \in {i \in PastItems : IsTool(i)} :
       turns' = [turns EXCEPT ![Len(turns)] = Append(@, Numbered(item, items + 1))]
  /\ items' = items + 1
  /\ UNCHANGED <<ledger, request, budgets, prompt, tier, builder, compacted, asked>>

PromptBudgetNext ==
  \/ TurnRecorded \/ ResultAdded \/ Build \/ Reduce \/ Built \/ Compact \/ Send

PromptBudgetSpec == PromptBudgetInit /\ [][PromptBudgetNext]_promptVars

-----------------------------------------------------------------------------
PromptBudgetTypeOK ==
  /\ budgets \in [Sections -> Nat] /\ prompt \in Nat
  /\ tier \in 0..3 /\ builder \in {"idle", "fitting", "built", "rebuild"}
  /\ ledger \subseteq 1..items

(* A prompt that was built keeps to the budget, or exceeds it by no more   *)
(* than the message of the user and the least the sections must have: a    *)
(* section whose budget was below its floor has that, the text of bound    *)
(* Specs is never given up.                                                *)
LeastRoom(s) ==
  CASE s = "memory" -> Most(Least(FirstBudget[s], MinBudget[s]), request.spec)
    [] s = "relevant_memory" -> Most(LeastNotes, Least(FirstBudget[s], MinBudget[s]))
    [] OTHER -> Least(FirstBudget[s], MinBudget[s])
PromptBounded ==
  builder = "built" =>
    prompt <= Most(TotalBudget,
                   Total([s \in Sections |-> LeastRoom(s)]) + request.message + 6 * Separator)

(* The Specs bound to the task stand in every prompt in full, and no       *)
(* budget is taken from a section that has nothing left to give: what is   *)
(* saved by a reduction below the Specs' length would be saved on paper.   *)
SpecShown ==
  builder = "built" =>
    /\ MemoryShown(request, budgets["memory"]).spec = request.spec
    /\ budgets["memory"] < FirstBudget["memory"] => budgets["memory"] >= request.spec

(* The result of a failed tool, or on a path the current task has changed, *)
(* is shown in full however old it is and whatever an earlier prompt put   *)
(* in its place.                                                           *)
EvidenceInFull ==
  builder = "built" =>
    \A k \in DOMAIN turns : \A i \in DOMAIN turns[k] :
      LET item == turns[k][i] IN
      IsTool(item) /\ (~item.ok \/ item.path \in ChangedPaths(turns)) =>
        Len(ItemLines(turns, item, FALSE, tier)) = 2

(* A finished prompt fits, and what may not be cut stands in it whole.      *)
PromptFits == PromptBounded /\ SpecShown /\ EvidenceInFull

(* The loop that gets it to fit ends: every round leaves the sections less  *)
(* room than before, and no section less than none.                         *)
RoundsDescend ==
  [][builder = "fitting" /\ builder' = "fitting" =>
       /\ Total(budgets') < Total(budgets)
       /\ \A s \in Sections : budgets'[s] >= 0]_promptVars

(* Every prompt is cut down in finitely many rounds to one that fits.       *)
PromptsAreReduced == []PromptFits /\ RoundsDescend
=============================================================================
