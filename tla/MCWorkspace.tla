----------------------------- MODULE MCWorkspace -----------------------------
(* Finite instances of what turns share in a workspace: the tool calls on   *)
(* its Git tree, the gates a call must pass, the saved sessions, the        *)
(* knowledge and the Dreams about it, the index of the code, and the map of *)
(* its symbols.  They share no state; part, chosen at the start, says which *)
(* of them moves.                                                           *)
EXTENDS ToolGit, ToolGates, SessionState, Knowledge, Dream, CodeIndex, RepoMap

(* two texts of a source file                                               *)
TwoTexts ==
  [t \in {"u", "v"} |-> IF t = "u" THEN [defines |-> {"s"}, refers |-> {"t"}]
                                  ELSE [defines |-> {"s", "t"}, refers |-> {}]]

VARIABLE part
vars == <<part, gitVars, gateVars, sessionVars, knowledgeVars, dreamVars, indexVars, mapVars>>

Init ==
  /\ part \in {"git", "gates", "session", "knowledge", "dream", "index", "map"}
  /\ ToolGitInit /\ ToolGatesInit /\ SessionStateInit /\ KnowledgeInit
  /\ DreamInit /\ CodeIndexInit /\ RepoMapInit
  /\ part # "git" => log = <<>>
  /\ part # "map" => parses

GitMoves == part = "git" /\ ToolGitNext
  /\ UNCHANGED <<part, gateVars, sessionVars, knowledgeVars, dreamVars, indexVars, mapVars>>
GatesMove == part = "gates" /\ ToolGatesNext
  /\ UNCHANGED <<part, gitVars, sessionVars, knowledgeVars, dreamVars, indexVars, mapVars>>
SessionMoves == part = "session" /\ SessionStateNext
  /\ UNCHANGED <<part, gitVars, gateVars, knowledgeVars, dreamVars, indexVars, mapVars>>
KnowledgeMoves == part = "knowledge" /\ KnowledgeNext
  /\ UNCHANGED <<part, gitVars, gateVars, sessionVars, dreamVars, indexVars, mapVars>>
DreamMoves == part = "dream" /\ DreamNext
  /\ UNCHANGED <<part, gitVars, gateVars, sessionVars, knowledgeVars, indexVars, mapVars>>
IndexMoves == part = "index" /\ CodeIndexNext
  /\ UNCHANGED <<part, gitVars, gateVars, sessionVars, knowledgeVars, dreamVars, mapVars>>
MapMoves == part = "map" /\ RepoMapNext
  /\ UNCHANGED <<part, gitVars, gateVars, sessionVars, knowledgeVars, dreamVars, indexVars>>
Next == GitMoves \/ GatesMove \/ SessionMoves \/ KnowledgeMoves \/ DreamMoves \/ IndexMoves
        \/ MapMoves

Spec == Init /\ [][Next]_vars

(* The type invariants of the seven modules.                                 *)
TypesOK == ToolGitTypeOK /\ ToolGatesTypeOK /\ SessionStateTypeOK /\ KnowledgeTypeOK
           /\ DreamTypeOK /\ CodeIndexTypeOK /\ RepoMapTypeOK
=============================================================================
