------------------------------- MODULE ToolGit -------------------------------
(***************************************************************************)
(* One agent's tool calls on a Git workspace, in the order                 *)
(* tool_execution.py runs them - gate, approval, snapshot, tool,           *)
(* finalisation - with the commits and the automatic undo of               *)
(* git_integration.py, beside a user who edits and commits at any moment   *)
(* between two of those steps (but not between two git commands of one     *)
(* operation).  A file's content is the set of marks left in it: equal     *)
(* sets stand for equal hashes, a write_file keeps no earlier mark.  A     *)
(* commit is identified with the history that ends in it.  The index is    *)
(* left out: commit --only takes the listed paths from the working tree.   *)
(* Definitions marked faulty are changes to the code under which a         *)
(* property fails; nothing else uses them.                                 *)
(***************************************************************************)
EXTENDS Integers, Sequences, SequencesExt, Lists

CONSTANTS
  Paths,      \* files of the workspace
  AsksFirst,   \* the runtime asks before it writes (approval_policy "ask")
  MaxTools,   \* bound: tool calls
  MaxTurns,   \* bound: turns
  MaxUser     \* bound: actions of the user

ASSUME ToolGitAssumptions ==
  /\ AsksFirst \in BOOLEAN
  /\ {MaxTools, MaxTurns, MaxUser} \subseteq Nat

VARIABLES
  disk,      \* content of each file of the working tree
  log,       \* the commits HEAD leads to, oldest first
  ownCommits,   \* GitIntegration._commits
  gitTurn,   \* GitIntegration._turn: head, dirty_paths and baseline_clean
  call,      \* the tool call that is being executed
  seen,      \* freshness in memory.file_summaries
  authored,  \* self_authored_file_freshness
  orphan,    \* a process of a shell that timed out still runs
  count,     \* turns, tool calls and user actions so far
  shown,     \* history: contents the model was shown or wrote itself
  raced      \* history: paths that changed between a tool and its record

gitVars == <<disk, log, ownCommits, gitTurn, call, seen, authored, orphan, count,
             shown, raced>>

Unknown == {<<"unknown", 0>>}   \* no freshness recorded
NoFile  == {<<"absent", 0>>}
NoCall  == [phase |-> "none"]
NoTurn  == [active |-> FALSE]

Tools     == {"read_file", "write_file", "patch_file", "run_shell"}
Modifying == Tools \ {"read_file"}
Exists(p) == disk[p] # NoFile
TreeOf(h) == IF h = <<>> THEN [p \in Paths |-> NoFile] ELSE Last(h).tree
HeadTree      == TreeOf(log)

(* status_paths: what differs from HEAD, untracked files included.         *)
Dirty == {p \in Paths : disk[p] # HeadTree[p]}

ToolGitInit ==
  /\ log \in {<<>>, <<[by |-> "user",
                       tree |-> [p \in Paths |-> {<<"base", 0>>}]]>>}
  /\ disk = HeadTree
  /\ ownCommits = <<>> /\ gitTurn = NoTurn /\ call = NoCall
  /\ seen = [p \in Paths |-> Unknown] /\ authored = [p \in Paths |-> Unknown]
  /\ orphan = FALSE
  /\ count = [turns |-> 0, tools |-> 0, user |-> 0]
  /\ shown = [p \in Paths |-> {}] /\ raced = {}

Count(what) == count' = [count EXCEPT ![what] = @ + 1]
Git == <<log, ownCommits>>
Evidence == <<seen, authored, shown>>

-----------------------------------------------------------------------------
(* The user.  Synchronous steps of the runtime are not interrupted.        *)
UserMay == count.user < MaxUser /\ call.phase # "verdict" /\ Count("user")

Disturb(p) == raced' = IF call.phase = "ran" /\ call.path = p
                       THEN raced \cup {p} ELSE raced

UserEdits(p) ==
  /\ UserMay
  /\ disk' = [disk EXCEPT ![p] =
       (IF Exists(p) THEN @ ELSE {}) \cup {<<"user", count.user>>}]
  /\ Disturb(p)
  /\ UNCHANGED <<Git, gitTurn, call, Evidence, orphan>>

UserCommits ==
  /\ UserMay /\ Dirty # {}
  /\ log' = Append(log, [by |-> "user", tree |-> disk])
  /\ UNCHANGED <<disk, ownCommits, gitTurn, call, Evidence, orphan, raced>>

-----------------------------------------------------------------------------
(* begin_turn, from the engine; the runtime forgets its turn only when it  *)
(* is replaced.                                                            *)
BeginTurn ==
  /\ ~gitTurn.active /\ count.turns < MaxTurns
  /\ gitTurn' = [active |-> TRUE, head |-> log, dirty |-> Dirty,
                 clean |-> Dirty = {}, run |-> count.turns + 1]
  /\ Count("turns")
  /\ UNCHANGED <<disk, Git, call, Evidence, orphan, raced>>

EndTurn ==
  /\ gitTurn.active /\ call = NoCall
  /\ gitTurn' = NoTurn
  /\ UNCHANGED <<disk, Git, call, Evidence, orphan, count, raced>>

(* _has_fresh_read and ToolPolicyChecker.check.                            *)
FreshOnce(p) == seen[p] # Unknown \/ authored[p] # Unknown          \* faulty
Fresh(p) == Exists(p) /\ disk[p] \in {seen[p], authored[p]}

PolicyAllows(tool, p) ==
  /\ tool = "patch_file" => Fresh(p)
  /\ tool = "write_file" /\ Exists(p) => Fresh(p)

(* prepare_tool_call for a call that is not refused (a refused one changes *)
(* nothing here).  run_shell names no file: its path is the one it will    *)
(* change, if any.  verify: the command looks like tests or lint.          *)
Prepare(tool, p, verify) ==
  /\ gitTurn.active /\ call = NoCall /\ count.tools < MaxTools
  /\ tool \in {"read_file", "patch_file"} => Exists(p)
  /\ PolicyAllows(tool, p)
  /\ call' = [phase |-> IF AsksFirst /\ tool \in Modifying
                        THEN "asking" ELSE "ready",
              tool |-> tool, path |-> p, verify |-> verify, was |-> disk[p],
              before |-> disk, ok |-> TRUE]
  /\ Count("tools")
  /\ UNCHANGED <<disk, Git, gitTurn, Evidence, orphan, raced>>

ApproveCall ==
  /\ call.phase = "asking"
  /\ call' = [call EXCEPT !.phase = "ready"]
  /\ UNCHANGED <<disk, Git, gitTurn, Evidence, orphan, count, raced>>

Refuse ==
  /\ call.phase = "asking"
  /\ call' = NoCall
  /\ UNCHANGED <<disk, Git, gitTurn, Evidence, orphan, count, raced>>

(* begin_tool_execution: the snapshot.                                     *)
Begin ==
  /\ call.phase = "ready"
  /\ call' = [call EXCEPT !.phase = "running", !.before = disk]
  /\ UNCHANGED <<disk, Git, gitTurn, Evidence, orphan, count, raced>>

(* What the tool leaves in its file; a shell may leave the file alone,     *)
(* add to it or delete it, and any tool may fail before it changes it.     *)
Effects ==
  LET mark == {<<"tool", count.tools>>} IN
  CASE call.tool = "read_file"  -> {disk[call.path]}
    [] call.tool = "write_file" -> {mark}
    [] call.tool = "patch_file" ->
         IF Exists(call.path) THEN {disk[call.path] \cup mark} ELSE {}
    [] call.tool = "run_shell"  ->
         {disk[call.path], NoFile,
          (IF Exists(call.path) THEN disk[call.path] ELSE {}) \cup mark}

(* execute_tool_raw: the tool ends well, with an error, by the timeout or  *)
(* by cancellation; a write that has begun is awaited, a shell is killed   *)
(* and what it started may go on.                                          *)
Works ==
  /\ call.phase = "running"
  /\ \E c \in Effects, good \in BOOLEAN :
       /\ disk' = [disk EXCEPT ![call.path] = c]
       /\ call' = [call EXCEPT !.phase = "ran", !.ok = good]
       /\ ~good => call.tool # "read_file"
       /\ shown' = IF good /\ call.tool # "run_shell"
                   THEN [shown EXCEPT ![call.path] = @ \cup {c}] ELSE shown
       /\ orphan' \in IF call.tool = "run_shell" /\ ~good
                      THEN BOOLEAN ELSE {orphan}
  /\ UNCHANGED <<Git, gitTurn, seen, authored, count, raced>>

Fails ==
  /\ call.phase = "running"
  /\ call' = [call EXCEPT !.phase = "ran", !.ok = FALSE]
  /\ UNCHANGED <<disk, Git, gitTurn, Evidence, orphan, count, raced>>

OrphanWrites(p) ==
  /\ orphan /\ call.phase # "verdict"
  /\ disk' = [disk EXCEPT ![p] = {<<"orphan", 0>>}]
  /\ orphan' = FALSE
  /\ Disturb(p)
  /\ UNCHANGED <<Git, gitTurn, call, Evidence, count>>

-----------------------------------------------------------------------------
(* commit_changes: the affected paths that were not dirty when the turn    *)
(* began, as they are now.                                                 *)
Affected == {p \in Paths : call.before[p] # disk[p]}
StagedWithUsers == Affected \cap Dirty                              \* faulty
Staged == (Affected \ gitTurn.dirty) \cap Dirty

Commit(paths) ==
  LET tree == [p \in Paths |-> IF p \in paths THEN disk[p] ELSE HeadTree[p]]
      next == Append(log, [by |-> "agent", tree |-> tree])
  IN /\ log' = next
     /\ ownCommits' = Append(ownCommits,
          [sha |-> next, parent |-> log, paths |-> paths,
           clean |-> gitTurn.clean, run |-> gitTurn.run])

(* update_memory_after_tool, of a call that ended well.                    *)
Remember ==
  LET p == call.path IN
  CASE call.ok /\ call.tool = "read_file" ->
         /\ seen' = [seen EXCEPT ![p] = IF Exists(p) THEN disk[p] ELSE Unknown]
         /\ authored' = authored
    [] call.ok /\ call.tool \in {"write_file", "patch_file"} ->
         /\ seen' = [seen EXCEPT ![p] = Unknown]
         /\ authored' = [authored EXCEPT ![p] = IF Exists(p) THEN disk[p] ELSE @]
    [] OTHER -> UNCHANGED <<seen, authored>>

(* finalize_tool_call up to the undo; git may refuse the commit.           *)
FailedCheck == call.tool = "run_shell" /\ ~call.ok /\ call.verify

Finalize ==
  /\ call.phase = "ran"
  /\ Remember
  /\ \/ call.tool \in Modifying /\ Staged # {} /\ Commit(Staged)
     \/ UNCHANGED Git
  /\ call' = IF FailedCheck THEN [call EXCEPT !.phase = "verdict"] ELSE NoCall
  /\ UNCHANGED <<disk, gitTurn, orphan, count, shown, raced>>

(* undo_last_commit: the last record (of this turn, if automatic) is reset *)
(* if it is HEAD and nothing is dirty; its parent's tree replaces the      *)
(* working tree.  Without a parent only the ref goes: the files stay.      *)
Candidates == Only(ownCommits, {r \in ToSet(ownCommits) : r.run = gitTurn.run})
Safe(r) == r.sha = log /\ Dirty = {}

ResetTo(r) ==
  /\ log' = r.parent
  /\ disk' = IF r.parent = <<>> THEN disk ELSE TreeOf(r.parent)
  /\ ownCommits' = Only(ownCommits, ToSet(ownCommits) \ {r})
  /\ seen' = [p \in Paths |-> IF seen[p] = disk'[p] THEN seen[p] ELSE Unknown]

AutoUndo ==
  /\ call.phase = "verdict"
  /\ \/ /\ Candidates # <<>> /\ Last(Candidates).clean /\ Safe(Last(Candidates))
        /\ ResetTo(Last(Candidates))
     \/ UNCHANGED <<disk, Git, seen>>    \* no candidate, unsafe, or git fails
  /\ call' = NoCall
  /\ UNCHANGED <<gitTurn, authored, shown, orphan, count, raced>>

(* /undo between turns: without a record, a HEAD that an agent made is     *)
(* found again by its subject line.                                        *)
ManualUndo ==
  /\ ~gitTurn.active /\ log # <<>>
  /\ LET found == [sha |-> log, parent |-> Front(log), paths |-> {},
                   clean |-> TRUE, run |-> 0]
         r == IF ownCommits # <<>> THEN Last(ownCommits) ELSE found
     IN /\ ownCommits # <<>> \/ Last(log).by = "agent"
        /\ Safe(r) /\ ResetTo(r)
  /\ UNCHANGED <<gitTurn, call, authored, shown, orphan, count, raced>>

(* invalidate_stale_memory, whenever a prompt is built.                    *)
DropStale ==
  /\ gitTurn.active /\ call = NoCall
  /\ seen' = [p \in Paths |-> IF seen[p] = disk[p] THEN seen[p] ELSE Unknown]
  /\ UNCHANGED <<disk, Git, gitTurn, call, authored, shown, orphan, count, raced>>

(* The process ends; a new runtime opens the saved session.                *)
RestartRuntime ==
  /\ ownCommits' = <<>> /\ gitTurn' = NoTurn /\ call' = NoCall
  /\ authored' = [p \in Paths |-> Unknown]
  /\ UNCHANGED <<disk, log, seen, shown, orphan, count, raced>>

UserActs == (\E p \in Paths : UserEdits(p)) \/ UserCommits
ToolGitNext ==
  \/ UserActs
  \/ BeginTurn \/ EndTurn \/ ApproveCall \/ Refuse \/ Begin \/ Works \/ Fails
  \/ Finalize \/ AutoUndo \/ ManualUndo \/ DropStale \/ RestartRuntime
  \/ \E tool \in Tools, p \in Paths, v \in BOOLEAN :
       (v => tool = "run_shell") /\ Prepare(tool, p, v)
  \/ \E p \in Paths : OrphanWrites(p)

ToolGitSpec == ToolGitInit /\ [][ToolGitNext]_gitVars

-----------------------------------------------------------------------------
ToolGitTypeOK ==
  /\ \A p \in Paths : disk[p] = NoFile \/ NoFile \cap disk[p] = {}
  /\ gitTurn.active => gitTurn.dirty \subseteq Paths
  /\ call # NoCall => /\ call.phase \in {"asking", "ready", "running", "ran",
                                         "verdict"}
                      /\ call.tool \in Tools /\ call.path \in Paths
  /\ raced \subseteq Paths

(* What was uncommitted when the turn began is neither committed nor reset *)
(* by the integration, whatever the tools and the user do to it meanwhile. *)
BaselineUntouched ==
  [][Finalize \/ AutoUndo =>
       \A p \in gitTurn.dirty : /\ disk'[p] = disk[p]
                               /\ TreeOf(log')[p] = HeadTree[p]]_gitVars

(* No undo, automatic or not, takes a commit of the user off the branch.   *)
UserCommitsStay ==
  [][\A i \in DOMAIN log : log[i].by = "user" =>
       i \in DOMAIN log' /\ log'[i] = log[i]]_gitVars

(* A failed check of this turn never undoes the work of an earlier turn,   *)
(* whose commits the same runtime still has on record.                     *)
EarlierTurnsStay == gitTurn.active => IsPrefix(gitTurn.head, log)

(* An automatic undo changes no file but those of the commit it takes back *)
(* (the working tree may have changed since).                              *)
UndoTakesBackItsPaths ==
  [][AutoUndo => \A p \in Paths :
       disk'[p] = disk[p] \/ p \in Last(Candidates).paths]_gitVars

(* A write gets past the gate only on a content that the model was shown   *)
(* or wrote, unless the file changed between a tool and its record: the    *)
(* freshness is computed after the tool, not with its result.              *)
GateHasEvidence ==
  call # NoCall /\ call.tool \in {"write_file", "patch_file"}
    /\ call.was # NoFile /\ call.path \notin raced
  => call.was \in shown[call.path]

(* A turn overwrites what it has seen, and undoes what it did itself.      *)
TurnKeepsToItsOwn == GateHasEvidence /\ EarlierTurnsStay

(* The work of others - dirty when the turn began, committed by the user,  *)
(* or in other files - survives the commits and the undos of a turn.       *)
OthersWorkStays == BaselineUntouched /\ UserCommitsStay /\ UndoTakesBackItsPaths
=============================================================================
