---------------------------- MODULE SessionState ----------------------------
(***************************************************************************)
(* What a runtime knows of the files it has read, and how that survives    *)
(* the process: working memory, checkpoints and the saved session          *)
(* (core/runtime/runtime.py, session/runtime_checkpoints.py,               *)
(* session/session_lifecycle.py, persistence/session_store.py,             *)
(* features/memory.py).  A content is a number, its hash the number        *)
(* itself.  A tool changes the memory first; its result is then recorded   *)
(* and the session saved; then a checkpoint is taken and the session saved *)
(* again.  Definitions marked faulty are changes to the code under which a *)
(* property fails; nothing else uses them.                                 *)
(***************************************************************************)
EXTENDS Integers, Sequences, SequencesExt, Lists

CONSTANTS
  KnownFiles,
  Sessions,      \* ids of sessions
  Home,          \* the session a workspace starts with
  RecentLimit,   \* WORKING_FILE_LIMIT
  MaxContents,   \* bound: contents a file goes through
  MaxRuns,      \* bound: tools that run
  MaxLoads       \* bound: restarts and switches of the session

ASSUME SessionStateAssumptions ==
  /\ Home \in Sessions /\ "none" \notin Sessions
  /\ {RecentLimit, MaxContents} \subseteq Nat \ {0} /\ {MaxRuns, MaxLoads} \subseteq Nat

VARIABLES
  content,   \* file -> its content
  before,    \* file -> what an undo gives it back, or 0
  mem,       \* the session in memory
  stored,      \* the saved sessions
  cur,       \* the session the runtime is in
  identity,  \* the configuration the process runs with
  step,      \* where the runtime is in its turn
  wrote,     \* the file the last tool read or wrote, and its kind
  turnReads, \* files read in this turn and not written since
  stale,     \* resume_state["stale_paths"]
  resumed,   \* resume_state["status"]
  excused,   \* session -> files found stale while it was loaded or undone
  tools, loads
sessionVars == <<content, before, mem, stored, cur, identity, step, wrote, turnReads,
                 stale, resumed, excused, tools, loads>>

(* A file never read, or gone from the notes, has content 0 there.  told   *)
(* has the files whose readings a prompt called stale.                     *)
Nothing == [f \in KnownFiles |-> 0]
NoCheckpoint == [files |-> Nothing, identity |-> 0]
NewSession == [read |-> Nothing, told |-> {}, summary |-> Nothing, recent |-> <<>>,
               checkpoint |-> NoCheckpoint]

SessionStateInit ==
  /\ content = [f \in KnownFiles |-> 1] /\ before = Nothing
  /\ mem = NewSession /\ cur = Home /\ identity = 1
  /\ stored = [s \in Sessions |-> NewSession]
  /\ step = "idle" /\ wrote = <<"none", "none">> /\ turnReads = {}
  /\ stale = {} /\ resumed = "no-checkpoint"
  /\ excused = [s \in Sessions |-> {}]
  /\ tools = 0 /\ loads = 0

-----------------------------------------------------------------------------
(* invalidate_stale_file_summaries                                         *)
Invalidated(s) == {f \in KnownFiles : s.summary[f] # 0 /\ s.summary[f] # content[f]}
Pruned(s) ==
  [s EXCEPT !.summary = [f \in KnownFiles |-> IF f \in Invalidated(s) THEN 0 ELSE @[f]]]

(* evaluate_resume_state                                                   *)
KeyFiles(s) == {f \in KnownFiles : s.checkpoint.files[f] # 0}
KeyFilesOnly(s) == {f \in KeyFiles(s) : s.checkpoint.files[f] # content[f]}  \* faulty
StalePaths(s) ==
  Invalidated(s) \cup {f \in KeyFiles(s) : s.checkpoint.files[f] # content[f]}

Status(s, i) ==
  CASE s.checkpoint = NoCheckpoint -> "no-checkpoint"
    [] s.checkpoint # NoCheckpoint /\ StalePaths(s) # {} -> "partial-stale"
    [] s.checkpoint # NoCheckpoint /\ StalePaths(s) = {}
         /\ s.checkpoint.identity # i -> "workspace-mismatch"
    [] OTHER -> "full-valid"

Evaluate(s, i) == stale' = StalePaths(s) /\ resumed' = Status(s, i)

(* create_checkpoint: the files as they are now, whatever was read of them. *)
WithCheckpoint(s) ==
  LET key == ToSet(s.recent) \cup turnReads
  IN  [s EXCEPT !.checkpoint =
         [files |-> [f \in KnownFiles |-> IF f \in key THEN content[f] ELSE 0],
          identity |-> identity]]

RememberedAll(s, f) == Append(Only(s.recent, KnownFiles \ {f}), f)   \* faulty
Remembered(s, f) ==
  LET files == Append(Only(s.recent, KnownFiles \ {f}), f)
  IN  IF Len(files) > RecentLimit THEN Tail(files) ELSE files

Save(s) == mem' = s /\ stored' = [stored EXCEPT ![cur] = s]

-----------------------------------------------------------------------------
StartTurn ==
  /\ step = "idle" /\ step' = "prompting" /\ turnReads' = {}
  /\ UNCHANGED <<content, before, mem, stored, cur, identity, wrote, stale, resumed,
                 excused, tools, loads>>

(* _build_prompt_and_metadata: what is stale is dropped and named.         *)
BuildPrompt ==
  /\ step = "prompting" /\ step' = "prompted"
  /\ Evaluate(mem, identity)
  /\ mem' = [Pruned(mem) EXCEPT !.told = @ \cup StalePaths(mem)]
  /\ UNCHANGED <<content, before, stored, cur, identity, wrote, turnReads, excused,
                 tools, loads>>

(* handle_prompt_checkpoints                                               *)
PromptCheckpoint ==
  /\ step = "prompted" /\ step' = "asking"
  /\ IF resumed \in {"partial-stale", "workspace-mismatch"}
     THEN Save(WithCheckpoint(mem))
     ELSE UNCHANGED <<mem, stored>>
  /\ UNCHANGED <<content, before, cur, identity, wrote, turnReads, stale, resumed,
                 excused, tools, loads>>

Runs(kind, f) ==
  /\ step = "asking" /\ step' = "ran" /\ wrote' = <<kind, f>>
  /\ tools < MaxRuns /\ tools' = tools + 1
  /\ UNCHANGED <<cur, identity, turnReads, stale, resumed, loads>>

(* update_memory_after_tool: the hash is taken of the file as it now is.   *)
RunRead(f) ==
  /\ Runs("read", f)
  /\ mem' = [mem EXCEPT !.summary[f] = content[f], !.recent = Remembered(mem, f)]
  /\ UNCHANGED <<content, before, stored, excused>>

RunWrite(f) ==
  /\ Runs("write", f)
  /\ content[f] < MaxContents
  /\ content' = [content EXCEPT ![f] = @ + 1] /\ before' = [before EXCEPT ![f] = content[f]]
  /\ mem' = [mem EXCEPT !.summary[f] = 0, !.recent = Remembered(mem, f)]
  /\ UNCHANGED <<stored, excused>>

(* A tool without a path; a shell command may change any file.             *)
RunShell(f) ==
  /\ Runs("other", f)
  /\ \/ content[f] < MaxContents /\ content' = [content EXCEPT ![f] = @ + 1]
     \/ UNCHANGED content
  /\ UNCHANGED <<before, mem, stored, excused>>

(* record_tool_result                                                      *)
RecordResult ==
  /\ step = "ran" /\ step' = "recorded"
  /\ LET f == wrote[2]
     IN  CASE wrote[1] = "read" ->
                /\ Save([mem EXCEPT !.read[f] = mem.summary[f], !.told = @ \ {f}])
                /\ turnReads' = turnReads \cup {f}
                /\ excused' = [excused EXCEPT ![cur] = @ \ {f}]
           [] wrote[1] = "write" ->
                /\ Save([mem EXCEPT !.read[f] = 0])
                /\ turnReads' = turnReads \ {f} /\ UNCHANGED excused
           [] OTHER -> Save(mem) /\ UNCHANGED <<turnReads, excused>>
  /\ UNCHANGED <<content, before, cur, identity, wrote, stale, resumed, tools, loads>>

ToolCheckpoint ==
  /\ step = "recorded" /\ step' = "prompting"
  /\ Save(WithCheckpoint(mem))
  /\ UNCHANGED <<content, before, cur, identity, wrote, turnReads, stale, resumed,
                 excused, tools, loads>>

(* The turn ends: the answer is recorded, and a checkpoint of it taken.    *)
FinishTurn ==
  /\ step = "asking" /\ step' = "idle"
  /\ Save(WithCheckpoint(mem))
  /\ UNCHANGED <<content, before, cur, identity, wrote, turnReads, stale, resumed,
                 excused, tools, loads>>

-----------------------------------------------------------------------------
(* A session is loaded, evaluated and saved: by __init__ in a new process, *)
(* perhaps of another configuration, or by /resume; /clear is the load of  *)
(* a session nothing was said in.                                          *)
Load(s, i) ==
  /\ loads < MaxLoads /\ loads' = loads + 1
  /\ step' = "idle" /\ cur' = s /\ identity' = i
  /\ Evaluate(stored[s], i)
  /\ excused' = [excused EXCEPT ![s] = @ \cup Invalidated(stored[s])]
  /\ mem' = Pruned(stored[s]) /\ stored' = [stored EXCEPT ![s] = Pruned(stored[s])]
  /\ UNCHANGED <<content, before, wrote, turnReads, tools>>

Reload == \E i \in {1, 2} : Load(cur, i)
Resume == step = "idle" /\ \E s \in Sessions : Load(s, identity)

(* /reset leaves the checkpoints.                                          *)
ResetSession ==
  /\ step = "idle" /\ mem # NewSession
  /\ Save([NewSession EXCEPT !.checkpoint = mem.checkpoint])
  /\ UNCHANGED <<content, before, cur, identity, step, wrote, turnReads, stale,
                 resumed, excused, tools, loads>>

(* undo_last_git_commit: the file is as it was; summaries of it go.        *)
Undo(f) ==
  /\ step = "idle" /\ before[f] # 0
  /\ content' = [content EXCEPT ![f] = before[f]] /\ before' = [before EXCEPT ![f] = 0]
  /\ step' = "undone"
  /\ UNCHANGED <<mem, stored, cur, identity, wrote, turnReads, stale, resumed, excused,
                 tools, loads>>

AfterUndo ==
  /\ step = "undone" /\ step' = "idle"
  /\ Save(Pruned(mem)) /\ excused' = [excused EXCEPT ![cur] = @ \cup Invalidated(mem)]
  /\ UNCHANGED <<content, before, cur, identity, wrote, turnReads, stale, resumed,
                 tools, loads>>

(* Somebody else changes a file, but not while a tool has it open.         *)
UserChanges(f) ==
  /\ step # "ran" /\ content[f] < MaxContents
  /\ content' = [content EXCEPT ![f] = @ + 1] /\ before' = [before EXCEPT ![f] = 0]
  /\ UNCHANGED <<mem, stored, cur, identity, step, wrote, turnReads, stale, resumed,
                 excused, tools, loads>>

SessionStateNext ==
  \/ StartTurn \/ BuildPrompt \/ PromptCheckpoint \/ RecordResult \/ ToolCheckpoint
  \/ FinishTurn \/ Reload \/ Resume \/ ResetSession \/ AfterUndo
  \/ \E f \in KnownFiles : RunRead(f) \/ RunWrite(f) \/ RunShell(f) \/ Undo(f) \/ UserChanges(f)

SessionStateSpec == SessionStateInit /\ [][SessionStateNext]_sessionVars

-----------------------------------------------------------------------------
(* Every variable has its type.                                            *)
SessionStateTypeOK ==
  LET Contents == 0..MaxContents
      Noted == [KnownFiles -> Contents]
      Saved(s) ==
        /\ s.read \in Noted /\ s.told \subseteq KnownFiles /\ s.summary \in Noted
        /\ ToSet(s.recent) \subseteq KnownFiles /\ Len(s.recent) <= RecentLimit
        /\ s.checkpoint \in [files : Noted, identity : 0..2]
  IN  /\ content \in [KnownFiles -> 1..MaxContents] /\ before \in Noted
      /\ Saved(mem) /\ \A s \in Sessions : Saved(stored[s])
      /\ cur \in Sessions /\ identity \in {1, 2}
      /\ step \in {"idle", "undone", "prompting", "prompted", "asking", "ran", "recorded"}
      /\ turnReads \subseteq KnownFiles /\ stale \subseteq KnownFiles
      /\ excused \in [Sessions -> SUBSET KnownFiles]
      /\ resumed \in {"no-checkpoint", "partial-stale", "workspace-mismatch", "full-valid"}
      /\ tools \in 0..MaxRuns /\ loads \in 0..MaxLoads

(* What the agent last read of a file, if it has not written it since, is  *)
(* no longer what the file holds, and no prompt has said so.               *)
Outdated == {f \in KnownFiles \ mem.told : mem.read[f] \notin {0, content[f]}}
Prompting == step = "prompting" /\ step' = "prompted"

(* A prompt never goes out with an outdated reading in it unmentioned,     *)
(* however checkpoints and edits alternate, unless the change came to      *)
(* light while the session was being loaded or undone.                     *)
StaleReported == [][Prompting => Outdated \subseteq stale' \cup excused[cur]]_sessionVars

(* A saved summary, which later lets a tool write the file unread, comes   *)
(* with the reading it sums up: a process that dies between the two saves  *)
(* of a tool never leaves one without the other.                           *)
SummaryHasReading ==
  \A s \in Sessions, f \in KnownFiles :
    stored[s].summary[f] # 0 => stored[s].read[f] = stored[s].summary[f]

(* The model works from readings that are current, or were called stale.   *)
ReadingsAreHonest == StaleReported /\ []SummaryHasReading
=============================================================================
