------------------------------ MODULE ToolGates ------------------------------
(***************************************************************************)
(* What a tool call must pass before it runs: the profile of the runtime,  *)
(* plan mode, write scope and approval (permissions.py), and the limits on *)
(* repeated calls (tool_repetition.py), which read the history of the turn *)
(* that the calls before have left.  A batch of reads is prepared against  *)
(* one and the same history and recorded afterwards (parallel_tools.py).   *)
(* Skills and read-only questions put another profile in place for a turn  *)
(* and back again.  Whether a file was freshly read is in ToolGit: here    *)
(* the policy may refuse any write.  Definitions marked faulty are changes *)
(* to the code under which a property fails; nothing else uses them.       *)
(***************************************************************************)
EXTENDS Integers, Sequences, FiniteSets

CONSTANTS
  Targets,        \* paths a call may name, the plan artifacts among them
  Artifacts,    \* paths below .gencode/plans
  Scope,        \* write_scope of the runtime, {} if it has none
  SkillTools,   \* allowed_tools of the skills
  IsReadOnly,   \* runtime.read_only
  MaxReads,     \* MAX_READ_FILE_CALLS_PER_PATH
  MaxSearches,  \* max_search_calls of a Goal Worker
  MaxBatch,     \* bound: calls of one reply
  MaxHistory    \* bound: calls of one turn

ASSUME ToolGatesAssumptions ==
  /\ Artifacts \subseteq Targets /\ Scope \subseteq Targets
  /\ IsReadOnly \in BOOLEAN
  /\ {MaxReads, MaxSearches, MaxBatch, MaxHistory} \subseteq Nat \ {0}

VARIABLES
  mode,      \* session["runtime_mode"]: default or plan
  artifact,  \* its plan_path
  profile,   \* _active_tool_profile_name
  skill,     \* the profile a running skill will put back, or "none"
  question,  \* the profile a read-only question will put back, or "none"
  inTurn,
  history    \* tool items since the last user message

gateVars == <<mode, artifact, profile, skill, question, inTurn, history>>
turnVars == <<skill, question, inTurn>>

Reads  == {"read_file", "search"}
Writes == {"write_file", "patch_file"}
Modes  == {"enter_plan_mode", "exit_plan_mode"}
AllTools == Reads \cup Writes \cup Modes \cup {"run_shell"}
Lines  == {{1}, {2}, {1, 2}}   \* ranges a read may ask for

(* build_tool_profiles.                                                    *)
ToolsOf(name) ==
  CASE name = "default"  -> AllTools
    [] name = "plan"     -> Reads \cup Writes \cup {"exit_plan_mode"}
    [] name = "readonly" -> Reads
    [] name = "skill"    -> SkillTools

(* The profile a runtime is built or rebound with.                         *)
FirstProfile(m) ==
  IF m = "plan" THEN "plan" ELSE IF IsReadOnly THEN "readonly" ELSE "default"

ToolGatesInit ==
  /\ mode = "default" /\ artifact = "none"
  /\ profile = FirstProfile("default")
  /\ skill = "none" /\ question = "none" /\ inTurn = FALSE
  /\ history = <<>>

-----------------------------------------------------------------------------
(* PermissionChecker._check_without_approval and check_async: the answers  *)
(* it may give.                                                            *)
PlanAllowsWrites(c) == c.tool \in Reads \cup Modes \cup Writes      \* faulty
PlanAllows(c) ==
  \/ c.tool \in Reads \cup Modes
  \/ c.tool \in Writes /\ c.path = artifact

Permits(c) ==
  IF c.tool \notin ToolsOf(profile) THEN {FALSE}
  ELSE IF mode = "plan" THEN {PlanAllows(c)}
  ELSE IF c.tool \in Writes /\ Scope # {} THEN {c.path \in Scope}
  ELSE IF c.tool \in Reads \cup Modes THEN {TRUE}
  ELSE IF IsReadOnly THEN {FALSE}
  ELSE BOOLEAN

(* _read_file_repetition_reason: only successful reads since the last      *)
(* write of the path, or any shell command, count.                         *)
Changes(e, p) == e.tool = "run_shell" \/ (e.tool \in Writes /\ e.path = p)
ReadsSince(p) ==
  {i \in DOMAIN history :
     /\ history[i].tool = "read_file" /\ history[i].path = p /\ history[i].ok
     /\ \A j \in i + 1..Len(history) : ~Changes(history[j], p)}

ReadRepeated(c) ==
  \E i \in ReadsSince(c.path) :
    history[i].arg = c.arg \/ c.arg \subseteq history[i].lines
ReadRefused(c) ==
  ReadRepeated(c) \/ Cardinality(ReadsSince(c.path)) >= MaxReads

(* A write is refused if the same one is in the history, unless the last   *)
(* item of it is an error (a refusal is one) and the file was read since.  *)
Same(c) == {i \in DOMAIN history :
              /\ history[i].tool = c.tool /\ history[i].path = c.path
              /\ history[i].arg = c.arg}
InformedByTime(c, i) == ~history[i].ok                              \* faulty
Informed(c, i) ==
  /\ ~history[i].ok
  /\ \E j \in i + 1..Len(history) :
       history[j].tool = "read_file" /\ history[j].path = c.path /\ history[j].ok

WriteRefused(c) ==
  LET last == CHOOSE i \in Same(c) : \A j \in Same(c) : j <= i IN
  Same(c) # {} /\ ~Informed(c, last)

Repeated(c) ==
  CASE c.tool = "read_file" -> ReadRefused(c)
    [] c.tool = "search" ->
         \/ Cardinality({i \in DOMAIN history : history[i].tool = "search"})
              >= MaxSearches
         \/ Cardinality(Same(c)) >= 2
    [] c.tool \in Writes -> WriteRefused(c)
    [] OTHER -> Cardinality(Same(c)) >= 2

(* prepare_tool_call: what may become of a call.                           *)
Outcomes(c) == IF Repeated(c) THEN {FALSE}
               ELSE Permits(c) \cup (IF c.tool \in Writes \cup {"run_shell"}
                                     THEN {FALSE} ELSE {})

(* The item _finish_tool_payload or record_skipped_tool_call appends; an   *)
(* item that is not ok begins with "error:".  A long read leaves no lines. *)
Item(c, ok) ==
  {[tool |-> c.tool, path |-> c.path, arg |-> c.arg, ok |-> ok, lines |-> l] :
     l \in IF ok /\ c.tool = "read_file" THEN {c.arg, {}} ELSE {{}}}

Call(tool, path, arg) == [tool |-> tool, path |-> path, arg |-> arg]
ReadCalls == {Call("read_file", p, r) : p \in Targets, r \in Lines}
WriteCalls == {Call(t, p, {1}) : t \in Writes, p \in Targets}
Calls == ReadCalls \cup WriteCalls \cup {Call(t, "", {1}) : t \in {"search", "run_shell"}}
Room(n) == inTurn /\ Len(history) + n <= MaxHistory

RunTool(c) ==
  /\ Room(1)
  /\ \E allowed \in Outcomes(c), works \in BOOLEAN :
       \E item \in Item(c, allowed /\ works) : history' = Append(history, item)
  /\ UNCHANGED <<mode, artifact, profile, turnVars>>

(* A complete batch of different reads: all prepared, then all recorded; a *)
(* control request may keep some from running.                             *)
ReadBatch ==
  \E n \in 2..MaxBatch :
    /\ Room(n)
    /\ \E batch \in [1..n -> {c \in Calls : c.tool \in Reads}] :
         /\ \A i, j \in 1..n : batch[i] = batch[j] => i = j
         /\ \E ok \in [1..n -> BOOLEAN] :
              /\ \A i \in 1..n : ok[i] => TRUE \in Outcomes(batch[i])
              /\ \E items \in [1..n -> UNION {Item(batch[i], ok[i]) : i \in 1..n}] :
                   /\ \A i \in 1..n : items[i] \in Item(batch[i], ok[i])
                   /\ history' = history \o items
    /\ UNCHANGED <<mode, artifact, profile, turnVars>>

-----------------------------------------------------------------------------
(* PlanModeManager.enter and exit, from the tools or from /plan.           *)
Enter(a) == mode' = "plan" /\ artifact' = a /\ profile' = "plan"
Exit == mode' = "default" /\ artifact' = "none" /\ profile' = "default"

ModeTool(tool) ==
  LET c == Call(tool, "", {1}) IN
  /\ Room(1) /\ TRUE \in Outcomes(c)
  /\ IF tool = "enter_plan_mode" THEN \E a \in Artifacts : Enter(a) ELSE Exit
  /\ \E item \in Item(c, TRUE) : history' = Append(history, item)
  /\ UNCHANGED turnVars

Slash ==
  /\ ~inTurn /\ skill = "none"
  /\ (\E a \in Artifacts : Enter(a)) \/ Exit
  /\ UNCHANGED <<turnVars, history>>

(* _skill_tool_profile around the turn of a skill.                         *)
SkillBegins ==
  /\ ~inTurn /\ skill = "none"
  /\ skill' = profile /\ profile' = "skill"
  /\ UNCHANGED <<mode, artifact, question, inTurn, history>>

SkillEnds ==
  /\ ~inTurn /\ skill # "none"
  /\ profile' = skill /\ skill' = "none"
  /\ UNCHANGED <<mode, artifact, question, inTurn, history>>

(* _set_fast_read_only_qa when a turn begins and when it ends.             *)
TurnBegins(readonly) ==
  /\ ~inTurn /\ inTurn' = TRUE /\ history' = <<>>
  /\ IF readonly THEN question' = profile /\ profile' = "readonly"
                 ELSE UNCHANGED <<question, profile>>
  /\ UNCHANGED <<mode, artifact, skill>>

TurnEnds ==
  /\ inTurn /\ inTurn' = FALSE /\ history' = <<>>
  /\ question' = "none"
  /\ profile' = IF question = "none" THEN profile ELSE question
  /\ UNCHANGED <<mode, artifact, skill>>

(* A steering message is a user message: the repetition limits start anew. *)
Steered ==
  /\ inTurn /\ history # <<>> /\ history' = <<>>
  /\ UNCHANGED <<mode, artifact, profile, turnVars>>

(* A new runtime opens the session, or the runtime is rebound to it.       *)
Rebind ==
  /\ ~inTurn
  /\ profile' = FirstProfile(mode) /\ skill' = "none" /\ question' = "none"
  /\ UNCHANGED <<mode, artifact, inTurn, history>>

ToolGatesNext ==
  \/ \E c \in Calls : RunTool(c)
  \/ ReadBatch
  \/ \E tool \in Modes : ModeTool(tool)
  \/ Slash \/ SkillBegins \/ SkillEnds \/ TurnEnds \/ Steered \/ Rebind
  \/ \E readonly \in BOOLEAN : TurnBegins(readonly)

ToolGatesSpec == ToolGatesInit /\ [][ToolGatesNext]_gateVars

-----------------------------------------------------------------------------
ToolGatesTypeOK ==
  /\ mode \in {"default", "plan"} /\ artifact \in Artifacts \cup {"none"}
  /\ profile \in {"default", "plan", "readonly", "skill"}
  /\ \A i \in DOMAIN history :
       history[i].tool \in AllTools /\ history[i].ok \in BOOLEAN

(* The same successful write is never done twice in a turn unless the file *)
(* was read in between.                                                    *)
RepeatNeedsRead ==
  \A i, j \in DOMAIN history :
    /\ i < j /\ history[i].ok /\ history[j].ok
    /\ history[i].tool \in Writes
    /\ <<history[i].tool, history[i].path, history[i].arg>>
         = <<history[j].tool, history[j].path, history[j].arg>>
    => \E k \in i..j : /\ history[k].tool = "read_file" /\ history[k].ok
                       /\ history[k].path = history[i].path

(* The limits on reads of a path and on searches hold up to one batch,     *)
(* whose calls do not see each other.                                      *)
CallsBounded ==
  /\ \A p \in Targets : Cardinality(ReadsSince(p)) < MaxReads + MaxBatch
  /\ Cardinality({i \in DOMAIN history : history[i].tool = "search"
                                         /\ history[i].ok})
       < MaxSearches + MaxBatch

(* A turn repeats no write and no read without bound.                      *)
CallsAreGated == RepeatNeedsRead /\ CallsBounded

(* In plan mode nothing but the active artifact is written and no tool     *)
(* call makes another file the active artifact, whatever profile a skill   *)
(* or a question left behind - unless a skill may enter plan mode itself.  *)
PlanModeHolds ==
  [][mode = "plan" /\ Len(history') > Len(history) =>
       /\ mode' = "plan" /\ SkillTools \cap Modes = {} => artifact' = artifact
       /\ \A i \in Len(history) + 1..Len(history') :
            history'[i].ok /\ history'[i].tool \in Writes \cup {"run_shell"} =>
              history'[i].path = artifact]_gateVars
=============================================================================
