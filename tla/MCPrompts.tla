------------------------------ MODULE MCPrompts ------------------------------
(* Finite instances of what goes to the model and comes back: the history   *)
(* with its compaction, the notes, the chunks and the evidence for a        *)
(* prompt, the prompt that is built, the settings of the model it goes to,  *)
(* the stream of a reply, the part of it that is shown, and whether it may  *)
(* end the turn.  They share no state; part, chosen at the start, says      *)
(* which of them moves.                                                     *)
EXTENDS ChatHistory, PromptBudget, VisibleText, ModelStream,
        Evidence, Chunking, Notes, Readiness, Settings

VARIABLE part
requestVars == <<chatVars, promptVars, textVars, streamVars>>
retrievalVars == <<evidenceVars, chunkingVars, notesVars>>
endVars == <<readinessVars, settingsVars>>
vars == <<part, requestVars, retrievalVars, endVars>>

(* Lengths of a prompt in units of about 50 characters: the shares of the   *)
(* sections in the budget, and what no reduction goes below.                *)
MCRatio == [s \in Sections |->
  CASE s = "prefix" -> 20 [] s = "memory" -> 13 [] s = "skills" -> 7
    [] s = "relevant_memory" -> 10 [] s = "repo_map" -> 3 [] OTHER -> 47]
MCMin == [s \in Sections |->
  CASE s = "prefix" -> 8 [] s = "memory" -> 4 [] s = "skills" -> 2
    [] s = "relevant_memory" -> 6 [] s = "repo_map" -> 3 [] OTHER -> 14]
MCLimits == <<8, 6, 4, 2>>

(* Short and long messages, notes and Specs, with and without a repo map.   *)
MCInputs ==
  {[message |-> m, memory |-> mem, spec |-> spec, notes |-> ns,
    texts |-> [s \in Sections |->
      CASE s = "prefix" -> pre [] s = "skills" -> 9 [] s = "repo_map" -> rm
        [] OTHER -> 0]] :
   m \in {4, 40}, mem \in {6, 20}, spec \in {0, 20}, ns \in {<<>>, <<3, 9>>},
   pre \in {6, 30}, rm \in {0, 5}}

(* A short turn, one with a long read, one with a failed command and a      *)
(* change of the file that was read.                                        *)
Past(kind, path, ok, edited, size) ==
  [kind |-> kind, path |-> path, ok |-> ok, changed |-> edited, size |-> size]
MCTurns ==
  {<<Past("user", "", TRUE, FALSE, 5)>>,
   <<Past("user", "", TRUE, FALSE, 30), Past("read_file", "f", TRUE, FALSE, 20)>>,
   <<Past("user", "", TRUE, FALSE, 4), Past("run_shell", "", FALSE, FALSE, 9),
     Past("patch_file", "f", TRUE, TRUE, 3)>>}

(* <final> and </final> by their first letters, and a tool tag.             *)
MCFinal == <<"<", "f">>
MCClosing == <<"<", "/">>
MCOther == {<<"<", "t", ">">>}
MCWord == <<"<", "t">>

(* Chunks of two versions of the sources: the third lost to the first,     *)
(* whose key it has, and the fourth may not be shown.                      *)
MCChunk(parent, sectionOf, keyOf, supersedes, revision, active, sectionLength) ==
  [parent |-> parent, section |-> sectionOf, key |-> keyOf, supersedes |-> supersedes,
   revision |-> revision, active |-> active, length |-> 2, sectionLength |-> sectionLength]
MCChunkOf == [c \in 1..4 |->
  CASE c = 1 -> MCChunk(1, 1, 1, 0, 1, TRUE, 4)
    [] c = 2 -> MCChunk(1, 2, 2, 0, 1, TRUE, 9)
    [] c = 3 -> MCChunk(2, 3, 1, 1, 0, TRUE, 4)
    [] OTHER -> MCChunk(3, 4, 3, 0, 1, FALSE, 4)]
MCVersions == <<{1, 2}, {1, 3, 4}>>

(* A wide and a narrow character, a line break and a blank.                *)
MCWeight == [s \in {"w", "n", "/", "_"} |-> IF s = "w" THEN 4 ELSE 1]
MCSeparators == << <<"/", "/">>, <<"/">>, <<"_">> >>

(* What a prompt says of its budget: easy, at its limit after a compaction *)
(* that saved nothing, and pruned by a provider that names no usage.       *)
MCPrompt(estimated, tierNow, called, by, named, pre, post) ==
  [window |-> 100, reserved |-> 20, estimated |-> estimated, tier |-> tierNow, saved |-> 0,
   called |-> called, delta |-> 0, mode |-> by, steps |-> by # "llm", files |-> TRUE,
   provider |-> named, cost |-> IF called THEN 3 ELSE 0, pre |-> pre, post |-> post]
MCBudgets ==
  {MCPrompt(20, "", FALSE, "", TRUE, 0, 0),
   MCPrompt(78, "tier3_summary", TRUE, "llm", FALSE, 78, 79),
   MCPrompt(60, "tier2_prune", FALSE, "deterministic", FALSE, 0, 0)}

(* Two built-in providers, one of which has no model for images, and one    *)
(* that only a file or the environment can describe; --provider names the   *)
(* first by its other name, .env the third.                                 *)
MCGeneral == [f \in {"model", "api_key"} |-> IF f = "model" THEN "GENCODE_MODEL" ELSE "GENCODE_API_KEY"]
MCProviders == {"openai", "deepseek", "local"}
MCOwn == [p \in MCProviders |-> [f \in {"model", "api_key"} |->
  CASE p = "local" -> <<>>
    [] f = "model" -> IF p = "openai" THEN <<"OPENAI_MODEL">> ELSE <<>>
    [] OTHER -> IF p = "openai" THEN <<"OPENAI_API_KEY">> ELSE <<"DEEPSEEK_API_KEY">>]]
MCOlder == [p \in MCProviders |-> [f \in {"model", "api_key"} |->
  CASE p = "local" -> <<>>
    [] f = "model" -> <<>>
    [] OTHER -> IF p = "openai" THEN <<"GENCODE_OPENAI_API_KEY", "OPENAI_API_KEY">> ELSE <<"DEEPSEEK_API_KEY">>]]
MCForVision == [f \in {"model", "api_key"} |-> IF f = "model" THEN <<"GENCODE_VISION_MODEL">> ELSE <<>>]
MCCanonical == [n \in {"gpt", "openai", "deepseek", "local"} |-> IF n = "gpt" THEN "openai" ELSE n]
MCVisionBy == [p \in {"deepseek"} |-> "openai"]
MCNames == {"GENCODE_PROVIDER", "GENCODE_PROTOCOL", "GENCODE_VISION_PROVIDER",
            "GENCODE_EMBEDDING_MODEL", "GENCODE_MODEL", "GENCODE_API_KEY", "OPENAI_MODEL",
            "OPENAI_API_KEY", "DEEPSEEK_API_KEY", "GENCODE_OPENAI_API_KEY", "GENCODE_VISION_MODEL"}
MCNamed == [s \in {"arg", "env", "user", "project", "explicit", "dotenv"} |->
  CASE s = "arg" -> "gpt" [] s = "dotenv" -> "local" [] OTHER -> "deepseek"]
MCSees == [s \in {"arg", "env", "user", "project", "explicit"} |-> IF s = "env" THEN "local" ELSE "gpt"]
MCBoxed == [s \in {"arg", "user", "project", "explicit"} |->
  CASE s = "arg" -> "required" [] s = "project" -> "best_effort" [] s = "user" -> "off" [] OTHER -> "on"]
MCArgs == <<{}, {<<"top", "provider">>, <<"text", "model">>},
            {<<"top", "sandbox">>, <<"vision", "provider">>, <<"vision", "model">>}>>
MCEnvs == <<{}, {"OPENAI_API_KEY", "GENCODE_VISION_PROVIDER"},
            {"GENCODE_MODEL", "DEEPSEEK_API_KEY"}>>
MCDotenvs == <<{}, {"GENCODE_PROVIDER", "GENCODE_PROTOCOL"}, {"GENCODE_MODEL", "DEEPSEEK_API_KEY"},
               {"OPENAI_API_KEY", "GENCODE_OPENAI_API_KEY", "GENCODE_VISION_MODEL",
                "GENCODE_EMBEDDING_MODEL"}>>
MCBroken == <<{}, {"user"}, {"dotenv"}>>
MCUsers == <<{}, {<<"top", "provider">>, <<"deepseek", "api_key">>, <<"top", "embedding_model">>}>>
MCProjects == <<{}, {<<"top", "sandbox">>, <<"openai", "model">>, <<"deepseek", "model">>},
                {<<"top", "provider">>, <<"deepseek", "supports_vision">>}>>
MCExplicit == {<<"top", "provider">>, <<"top", "sandbox">>, <<"deepseek", "model">>}
MCWorlds == (1..3) \X (1..3) \X (1..4) \X BOOLEAN \X (1..3) \X (1..2) \X (1..3)
MCWorld == [w \in MCWorlds |->
  [arg |-> MCArgs[w[1]], env |-> MCEnvs[w[2]], dotenv |-> MCDotenvs[w[3]], config |-> w[4],
   unreadable |-> MCBroken[w[5]],
   files |-> [n \in {"user", "project", "explicit"} |->
     CASE n = "user" -> MCUsers[w[6]] [] n = "project" -> MCProjects[w[7]] [] OTHER -> MCExplicit],
   named |-> MCNamed, sees |-> MCSees, boxed |-> MCBoxed]]

Init ==
  /\ part \in {"history", "prompt", "text", "stream", "evidence", "chunks", "notes", "end",
              "settings"}
  /\ ChatHistoryInit /\ PromptBudgetInit /\ VisibleTextInit /\ ModelStreamInit
  /\ EvidenceInit /\ ChunkingInit /\ NotesInit /\ ReadinessInit /\ SettingsInit
  /\ part # "stream" => client = "openai"
  /\ part # "notes" => notes = <<>> /\ contents = [f \in NoteFiles |-> "x"]
  /\ part # "end" => mode = "off"
  /\ part # "settings" => world = <<1, 1, 1, FALSE, 1, 1, 1>>

HistoryMoves == part = "history" /\ ChatHistoryNext
  /\ UNCHANGED <<part, promptVars, textVars, streamVars, retrievalVars, endVars>>
PromptMoves == part = "prompt" /\ PromptBudgetNext
  /\ UNCHANGED <<part, chatVars, textVars, streamVars, retrievalVars, endVars>>
TextMoves == part = "text" /\ VisibleTextNext
  /\ UNCHANGED <<part, chatVars, promptVars, streamVars, retrievalVars, endVars>>
StreamMoves == part = "stream" /\ ModelStreamNext
  /\ UNCHANGED <<part, chatVars, promptVars, textVars, retrievalVars, endVars>>
EvidenceMoves == part = "evidence" /\ EvidenceNext
  /\ UNCHANGED <<part, requestVars, chunkingVars, notesVars, endVars>>
ChunksMove == part = "chunks" /\ ChunkingNext
  /\ UNCHANGED <<part, requestVars, evidenceVars, notesVars, endVars>>
NotesMove == part = "notes" /\ NotesNext
  /\ UNCHANGED <<part, requestVars, evidenceVars, chunkingVars, endVars>>
EndMoves == part = "end" /\ ReadinessNext
  /\ UNCHANGED <<part, requestVars, retrievalVars, settingsVars>>
SettingsMove == part = "settings" /\ SettingsNext
  /\ UNCHANGED <<part, requestVars, retrievalVars, readinessVars>>
Next == HistoryMoves \/ PromptMoves \/ TextMoves \/ StreamMoves
        \/ EvidenceMoves \/ ChunksMove \/ NotesMove \/ EndMoves
        \/ SettingsMove

Spec == Init /\ [][Next]_vars

-----------------------------------------------------------------------------
(* The type invariants of the nine modules.                                 *)
TypesOK == ChatHistoryTypeOK /\ PromptBudgetTypeOK /\ VisibleTextTypeOK
           /\ ModelStreamTypeOK /\ EvidenceTypeOK /\ ChunkingTypeOK /\ NotesTypeOK
           /\ ReadinessTypeOK /\ SettingsTypeOK
=============================================================================
