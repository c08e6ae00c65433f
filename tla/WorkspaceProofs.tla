-------------------------- MODULE WorkspaceProofs ---------------------------
(***************************************************************************)
(* What is proved of the workspace and of what the agent keeps beyond a    *)
(* session: a turn's commits and what an undo takes back, the gates before *)
(* a tool, what a session says of the files it read, the approved          *)
(* knowledge, the Dreams that propose it, the index and the map of the     *)
(* code; and of these seven parts of MCWorkspace together.                 *)
(***************************************************************************)
EXTENDS MCWorkspace, DataProofs, FiniteSetTheorems

(***************************************************************************)
(* ToolGit, for any files, any number of turns and of commits, and any     *)
(* order of the user's writes and the agent's: a write gets past the gate  *)
(* only on a content that was shown or written, a turn never takes the     *)
(* branch back behind where it began, and what was dirty, what the user    *)
(* committed and what an undone commit did not touch stays. The invariant  *)
(* keeps for each record of an own commit that its parent and its paths    *)
(* are those of the history, and for a turn that runs that what is dirty   *)
(* and not its own was there when it began.                                *)
(***************************************************************************)

(* What a file can hold, and what the branch and the records are made of.   *)
Writers == {"base", "orphan", "user", "tool", "unknown"}
Contents == {NoFile} \cup ((SUBSET (Writers \X Int)) \ {Unknown})
Trees == [Paths -> Contents]
CommitsOf == [by : {"user", "agent"}, tree : Trees]
Histories == Seq(CommitsOf)
OwnRecords == [sha : Histories, parent : Histories, paths : SUBSET Paths,
               clean : BOOLEAN, run : Nat]
TurnRecords == [active : {TRUE}, head : Histories, dirty : SUBSET Paths,
                clean : BOOLEAN, run : Nat]
Phases == {"asking", "ready", "running", "ran", "verdict"}
CallRecords == [phase : Phases, tool : Tools, path : Paths, verify : BOOLEAN,
                was : Contents, before : Trees, ok : BOOLEAN]

GitShape ==
  /\ disk \in Trees /\ log \in Histories /\ ownCommits \in Seq(OwnRecords)
  /\ gitTurn = NoTurn \/ gitTurn \in TurnRecords
  /\ call = NoCall \/ call \in CallRecords
  /\ DOMAIN seen = Paths /\ DOMAIN authored = Paths /\ DOMAIN shown = Paths
  /\ count \in [turns : Nat, tools : Nat, user : Nat] /\ raced \subseteq Paths

(* The history h begins with the history g.                                 *)
Begins(g, h) == Len(g) <= Len(h) /\ \A i \in 1 .. Len(g) : g[i] = h[i]

(* A record of an own commit says what the commit did: one commit of the    *)
(* agent on its parent, which left the tree alone but in its paths.         *)
OwnOK(r) ==
  \E c \in CommitsOf :
    /\ r.sha = Append(r.parent, c) /\ c.by = "agent"
    /\ \A p \in Paths \ r.paths : c.tree[p] = TreeOf(r.parent)[p]

(* A commit of this turn was made on top of where the turn began, and knows *)
(* whether the turn began clean.                                            *)
OfTurn(turn, r) ==
  turn.active /\ r.run = turn.run => Begins(turn.head, r.parent) /\ r.clean = turn.clean

(* What is known of the turn and of its own commits.                        *)
OwnInv ==
  /\ \A i \in DOMAIN ownCommits :
       OwnOK(ownCommits[i]) /\ OfTurn(gitTurn, ownCommits[i])
       /\ ownCommits[i].run <= count.turns
  /\ gitTurn.active => /\ Begins(gitTurn.head, log) /\ gitTurn.run <= count.turns
                       /\ gitTurn.clean <=> (gitTurn.dirty = {})
  /\ call # NoCall => gitTurn.active

(* What the freshness of a file is of, unless it changed before it was      *)
(* recorded, and what a tool that ended well has left.                      *)
KnownOf(p) == {seen[p], authored[p]} \ {Unknown}
SeenInv ==
  /\ \A p \in Paths \ raced : KnownOf(p) \subseteq shown[p]
  /\ call.phase = "ran" /\ call.ok /\ call.tool # "run_shell" /\ call.path \notin raced =>
       disk[call.path] \in shown[call.path]

GitInv == GitShape /\ OwnInv /\ SeenInv /\ GateHasEvidence

-----------------------------------------------------------------------------
(* The contents that the actions write are contents, and none is unknown or  *)
(* has a part that is no file.                                              *)
LEMMA ContentsAre ==
  /\ NoFile \in Contents /\ {<<"base", 0>>} \in Contents /\ {<<"orphan", 0>>} \in Contents
  /\ Unknown \notin Contents
  /\ \A c \in Contents : c = NoFile \/ NoFile \cap c = {}
  /\ \A w \in {"user", "tool"}, n \in Nat, c \in (Contents \ {NoFile}) \cup {{}} :
       c \cup {<<w, n>>} \in Contents
<1>1. \A w, v, n, m : w # v => <<w, n>> # <<v, m>>
  OBVIOUS
<1>2. NoFile # Unknown /\ <<"absent", 0>> \notin Writers \X Int
  BY <1>1 DEF NoFile, Unknown, Writers
<1>3. \A a, X : a \in X /\ a # <<"unknown", 0>> => X # Unknown
  BY DEF Unknown
<1>4. ASSUME NEW w \in {"base", "orphan", "user", "tool"}, NEW n \in Nat,
             NEW c \in (Contents \ {NoFile}) \cup {{}}
      PROVE  c \cup {<<w, n>>} \in Contents
  <2>1. <<w, n>> \in Writers \X Int /\ <<w, n>> # <<"unknown", 0>>
    <3>1. w \in Writers /\ w # "unknown" /\ n \in Int
      BY DEF Writers
    <3> QED BY <1>1, <3>1
  <2>2. c \cup {<<w, n>>} \in SUBSET (Writers \X Int)
    BY <2>1 DEF Contents
  <2>3. c \cup {<<w, n>>} # Unknown
    <3>1. <<w, n>> \in c \cup {<<w, n>>}
      OBVIOUS
    <3> QED BY <1>3, <2>1, <3>1
  <2> QED BY <2>2, <2>3 DEF Contents
<1>5. ASSUME NEW w \in {"base", "orphan"} PROVE {<<w, 0>>} \in Contents
  <2> DEFINE e == {<<w, 0>>}
  <2>1. {} \cup e \in Contents
    BY <1>4
  <2>2. {} \cup e = e
    OBVIOUS
  <2> HIDE DEF e
  <2>3. e \in Contents
    BY <2>1, <2>2
  <2> QED BY <2>3 DEF e
<1>6. NoFile \in Contents /\ {<<"base", 0>>} \in Contents /\ {<<"orphan", 0>>} \in Contents
  BY <1>5 DEF Contents
<1>7. Unknown \notin Contents
  BY <1>2 DEF Contents
<1>8. ASSUME NEW c \in Contents, c # NoFile PROVE NoFile \cap c = {}
  BY <1>2, <1>8 DEF Contents, NoFile
<1> QED BY <1>4, <1>6, <1>7, <1>8

(* The tree a history ends in.                                              *)
LEMMA TreeIs ==
  ASSUME NEW h \in Histories
  PROVE  /\ TreeOf(h) \in Trees
         /\ \A c \in CommitsOf : TreeOf(Append(h, c)) = c.tree /\ Append(h, c) \in Histories
<1>1. TreeOf(h) \in Trees
  <2>1. CASE h = <<>>
    BY <2>1, ContentsAre DEF TreeOf, Trees
  <2>2. CASE h # <<>>
    <3>1. h[Len(h)] \in CommitsOf
      BY <2>2 DEF Histories
    <3> QED BY <2>2, <3>1 DEF TreeOf, Last, CommitsOf
  <2> QED BY <2>1, <2>2
<1>2. ASSUME NEW c \in CommitsOf
      PROVE  TreeOf(Append(h, c)) = c.tree /\ Append(h, c) \in Histories
  <2> DEFINE g == Append(h, c)
  <2>1. g \in Histories /\ g # <<>> /\ g[Len(g)] = c
    BY DEF Histories
  <2> HIDE DEF g
  <2>2. TreeOf(g) = c.tree
    BY <2>1 DEF TreeOf, Last
  <2> QED BY <2>1, <2>2 DEF g
<1> QED BY <1>1, <1>2

(* The commits an automatic undo chooses from are those of this turn.       *)
LEMMA CandidatesAre ==
  ASSUME GitShape, Candidates # <<>>
  PROVE  \E j \in DOMAIN ownCommits :
           Last(Candidates) = ownCommits[j] /\ ownCommits[j].run = gitTurn.run
<1> DEFINE S == {r \in ToSet(ownCommits) : r.run = gitTurn.run}
           t == Only(ownCommits, S)
<1>1. ownCommits \in Seq(OwnRecords)
  BY DEF GitShape
<1>2. /\ t \in Seq(OwnRecords) /\ Len(t) \in Nat /\ DOMAIN t = 1 .. Len(t)
      /\ \A i \in DOMAIN t : t[i] \in S /\ \E j \in DOMAIN ownCommits : t[i] = ownCommits[j]
  <2> HIDE DEF S
  <2> QED BY <1>1, OnlyMembers
<1>3. t # <<>>
  BY DEF Candidates
<1> HIDE DEF t
<1>4. Len(t) \in DOMAIN t
  BY <1>2, <1>3
<1> QED BY <1>2, <1>4 DEF t, Candidates, Last

(* What taking back a record on which the branch ends does.                 *)
LEMMA ResetIs ==
  ASSUME GitShape, NEW r, r.parent \in Histories, ResetTo(r)
  PROVE  /\ log' = r.parent /\ log' \in Histories /\ disk' \in Trees
         /\ ownCommits' \in Seq(OwnRecords)
         /\ \A i \in DOMAIN ownCommits' :
              \E j \in DOMAIN ownCommits : ownCommits'[i] = ownCommits[j]
         /\ DOMAIN seen' = Paths
         /\ \A p \in Paths : seen'[p] \in {seen[p], Unknown}
         /\ disk' = IF r.parent = <<>> THEN disk ELSE TreeOf(r.parent)
<1>1. /\ log' = r.parent
      /\ disk' = IF r.parent = <<>> THEN disk ELSE TreeOf(r.parent)
      /\ ownCommits' = Only(ownCommits, ToSet(ownCommits) \ {r})
      /\ seen' = [p \in Paths |-> IF seen[p] = disk'[p] THEN seen[p] ELSE Unknown]
  BY DEF ResetTo
<1>2. disk' \in Trees
  BY <1>1, TreeIs DEF GitShape
<1>3. /\ ownCommits' \in Seq(OwnRecords)
      /\ \A i \in DOMAIN ownCommits' :
           \E j \in DOMAIN ownCommits : ownCommits'[i] = ownCommits[j]
  <2> DEFINE S == ToSet(ownCommits) \ {r}
  <2>1. ownCommits \in Seq(OwnRecords) /\ ownCommits' = Only(ownCommits, S)
    BY <1>1 DEF GitShape
  <2> HIDE DEF S
  <2> QED BY <2>1, OnlyMembers
<1>4. DOMAIN seen' = Paths /\ \A p \in Paths : seen'[p] \in {seen[p], Unknown}
  BY <1>1
<1> QED BY <1>1, <1>2, <1>3, <1>4

(* An undo, automatic or not, takes back a record whose commit ends the     *)
(* branch and is the agent's.                                               *)
Undone(r) ==
  /\ Safe(r) /\ ResetTo(r) /\ r.parent \in Histories
  /\ \E c \in CommitsOf : r.sha = Append(r.parent, c) /\ c.by = "agent"

(* An automatic undo takes back nothing or a commit of this turn.           *)
LEMMA AutoUndoIs ==
  ASSUME GitShape, OwnInv, AutoUndo
  PROVE  /\ call.phase = "verdict" /\ call' = NoCall
         /\ UNCHANGED <<gitTurn, authored, shown, orphan, count, raced>>
         /\ \/ UNCHANGED <<disk, log, ownCommits, seen>>
            \/ /\ Undone(Last(Candidates)) /\ OwnOK(Last(Candidates))
               /\ Last(Candidates).run = gitTurn.run /\ Last(Candidates).clean
               /\ \E j \in DOMAIN ownCommits : Last(Candidates) = ownCommits[j]
<1>1. CASE UNCHANGED <<disk, Git, seen>>
  BY <1>1 DEF AutoUndo, Git
<1>2. CASE /\ Candidates # <<>> /\ Last(Candidates).clean /\ Safe(Last(Candidates))
           /\ ResetTo(Last(Candidates))
  <2>1. PICK j \in DOMAIN ownCommits :
          Last(Candidates) = ownCommits[j] /\ ownCommits[j].run = gitTurn.run
    BY <1>2, CandidatesAre
  <2>2. OwnOK(ownCommits[j]) /\ ownCommits[j] \in OwnRecords
    BY DEF OwnInv, GitShape
  <2>3. Undone(Last(Candidates))
    BY <1>2, <2>1, <2>2 DEF Undone, OwnOK, OwnRecords
  <2> QED BY <1>2, <2>1, <2>2, <2>3 DEF AutoUndo
<1> QED BY <1>1, <1>2 DEF AutoUndo

(* The same of an undo that the user asks for between turns.                *)
LEMMA ManualUndoIs ==
  ASSUME GitShape, OwnInv, ManualUndo
  PROVE  /\ ~ gitTurn.active /\ UNCHANGED <<gitTurn, call, authored, shown, orphan, count, raced>>
         /\ \E r : Undone(r)
<1> DEFINE found == [sha |-> log, parent |-> Front(log), paths |-> {},
                     clean |-> TRUE, run |-> 0]
           r == IF ownCommits # <<>> THEN Last(ownCommits) ELSE found
<1>1. /\ ~ gitTurn.active /\ log # <<>>
      /\ UNCHANGED <<gitTurn, call, authored, shown, orphan, count, raced>>
      /\ ownCommits # <<>> \/ Last(log).by = "agent"
      /\ Safe(r) /\ ResetTo(r)
  BY DEF ManualUndo
<1>2. CASE ownCommits # <<>>
  <2>1. Len(ownCommits) \in DOMAIN ownCommits /\ r = ownCommits[Len(ownCommits)]
    BY <1>2 DEF GitShape, Last
  <2>2. OwnOK(r) /\ r \in OwnRecords
    BY <2>1 DEF OwnInv, GitShape
  <2> HIDE DEF r
  <2>3. Undone(r)
    BY <1>1, <2>2 DEF Undone, OwnOK, OwnRecords
  <2> QED BY <1>1, <2>3
<1>3. CASE ownCommits = <<>>
  <2>1. log \in Seq(CommitsOf) /\ log # <<>>
    BY <1>1 DEF GitShape, Histories
  <2>2. /\ Front(log) \in Seq(CommitsOf) /\ Last(log) \in CommitsOf
        /\ log = Append(Front(log), Last(log))
    <3>1. Len(log) \in Nat /\ Len(log) > 0
      BY <2>1
    <3>2. Front(log) = SubSeq(log, 1, Len(log) - 1) /\ Last(log) = log[Len(log)]
      BY DEF Front, Last
    <3> QED BY <2>1, <3>1, <3>2
  <2>3. r.sha = log /\ r.parent = Front(log)
    BY <1>3
  <2> HIDE DEF r
  <2>4. Undone(r)
    BY <1>1, <1>3, <2>2, <2>3 DEF Undone, Histories
  <2> QED BY <1>1, <2>4
<1> QED BY <1>2, <1>3

(* The state is of its kind.                                                *)
LEMMA GitInit == ToolGitInit => GitInv
<1> SUFFICES ASSUME ToolGitInit PROVE GitInv
  OBVIOUS
<1> DEFINE base == [by |-> "user", tree |-> [p \in Paths |-> {<<"base", 0>>}]]
<1>1. /\ log \in {<<>>, <<base>>} /\ disk = HeadTree
      /\ ownCommits = <<>> /\ gitTurn = NoTurn /\ call = NoCall
      /\ seen = [p \in Paths |-> Unknown] /\ authored = [p \in Paths |-> Unknown]
      /\ count = [turns |-> 0, tools |-> 0, user |-> 0]
      /\ shown = [p \in Paths |-> {}] /\ raced = {}
  BY DEF ToolGitInit
<1>2. log \in Histories
  <2>1. base \in CommitsOf
    BY ContentsAre DEF CommitsOf, Trees
  <2>2. log = <<>> \/ log = <<base>>
    BY <1>1
  <2> HIDE DEF base
  <2>3. <<>> \in Seq(CommitsOf) /\ <<base>> \in Seq(CommitsOf)
    BY <2>1
  <2> QED BY <2>2, <2>3 DEF Histories
<1>3. disk \in Trees
  BY <1>1, <1>2, TreeIs DEF HeadTree
<1>4. GitShape
  BY <1>1, <1>2, <1>3 DEF GitShape
<1>5. OwnInv
  BY <1>1 DEF OwnInv, NoTurn
<1>6. SeenInv /\ GateHasEvidence
  BY <1>1 DEF SeenInv, KnownOf, NoCall, GateHasEvidence
<1> QED BY <1>4, <1>5, <1>6 DEF GitInv

(* Giving a file a content keeps the tree a tree.                           *)
LEMMA TreeWrite ==
  ASSUME disk \in Trees, NEW p \in Paths, NEW c \in Contents, disk' = [disk EXCEPT ![p] = c]
  PROVE  disk' \in Trees /\ \A q \in Paths : disk'[q] = IF q = p THEN c ELSE disk[q]
BY DEF Trees

(* What a tool leaves is a content, and what the tool wrote is in it.       *)
LEMMA EffectsAre ==
  ASSUME GitShape, call \in CallRecords
  PROVE  Effects \subseteq Contents
<1> DEFINE mark == {<<"tool", count.tools>>}
           d == disk[call.path]
<1>1. d \in Contents /\ count.tools \in Nat /\ call.tool \in Tools
  BY DEF GitShape, Trees, CallRecords
<1>2. (d # NoFile => d \cup mark \in Contents) /\ {} \cup mark \in Contents
  <2> HIDE DEF d
  <2> QED BY <1>1, ContentsAre
<1>3. {} \cup mark = mark
  OBVIOUS
<1> HIDE DEF mark, d
<1>4. mark \in Contents
  BY <1>2, <1>3
<1>5. CASE call.tool = "read_file"
  <2>1. Effects = {d}
    BY <1>5 DEF Effects, d
  <2> QED BY <1>1, <2>1
<1>6. CASE call.tool = "write_file"
  <2>1. Effects = {mark}
    BY <1>6 DEF Effects, mark
  <2> QED BY <1>4, <2>1
<1>7. CASE call.tool = "patch_file"
  <2>1. Effects \subseteq {d \cup mark} /\ (Effects # {} => d # NoFile)
    BY <1>7 DEF Effects, mark, d, Exists
  <2> QED BY <1>2, <2>1
<1>8. CASE call.tool = "run_shell"
  <2>1. Effects = {d, NoFile, (IF Exists(call.path) THEN d ELSE {}) \cup mark}
    BY <1>8 DEF Effects, mark, d
  <2>2. (IF Exists(call.path) THEN d ELSE {}) \cup mark \in Contents
    <3>1. Exists(call.path) <=> d # NoFile
      BY DEF Exists, d
    <3> QED BY <1>2, <3>1
  <2> QED BY <1>1, <2>1, <2>2, ContentsAre
<1> QED BY <1>1, <1>5, <1>6, <1>7, <1>8 DEF Tools

(* A commit of the agent takes paths from the working tree and the others   *)
(* from the branch.                                                         *)
LEMMA CommitIs ==
  ASSUME GitShape, gitTurn \in TurnRecords, NEW paths \in SUBSET Paths, Commit(paths)
  PROVE  \E c \in CommitsOf, r \in OwnRecords :
           /\ log' = Append(log, c) /\ log' \in Histories /\ c.by = "agent"
           /\ \A p \in Paths \ paths : c.tree[p] = HeadTree[p]
           /\ ownCommits' = Append(ownCommits, r) /\ ownCommits' \in Seq(OwnRecords)
           /\ r.sha = log' /\ r.parent = log /\ r.paths = paths
           /\ r.clean = gitTurn.clean /\ r.run = gitTurn.run
<1> DEFINE tree == [p \in Paths |-> IF p \in paths THEN disk[p] ELSE HeadTree[p]]
           c == [by |-> "agent", tree |-> tree]
           r == [sha |-> Append(log, c), parent |-> log, paths |-> paths,
                 clean |-> gitTurn.clean, run |-> gitTurn.run]
<1>1. log \in Histories /\ disk \in Trees /\ HeadTree \in Trees
  BY TreeIs DEF GitShape, HeadTree
<1>2. c \in CommitsOf /\ c.by = "agent" /\ c.tree = tree
  BY <1>1 DEF CommitsOf, Trees
<1>3. \A p \in Paths \ paths : c.tree[p] = HeadTree[p]
  BY <1>2
<1>4. log' = Append(log, c) /\ ownCommits' = Append(ownCommits, r)
  BY DEF Commit
<1> HIDE DEF c
<1>5. Append(log, c) \in Histories
  BY <1>1, <1>2, TreeIs
<1>6. r \in OwnRecords
  BY <1>1, <1>5 DEF OwnRecords, TurnRecords
<1>7. /\ r.sha = Append(log, c) /\ r.parent = log /\ r.paths = paths
      /\ r.clean = gitTurn.clean /\ r.run = gitTurn.run
  OBVIOUS
<1> HIDE DEF r
<1>8. ownCommits' \in Seq(OwnRecords)
  BY <1>4, <1>6 DEF GitShape
<1> QED BY <1>2, <1>3, <1>4, <1>5, <1>6, <1>7, <1>8

(* Every step keeps the kinds of the state.                                 *)
LEMMA GitShapeStep ==
  ASSUME GitInv, [ToolGitNext]_gitVars PROVE GitShape'
<1> USE DEF GitInv
<1>1. \A c \in CallRecords : /\ c.phase \in Phases /\ c.path \in Paths /\ c # NoCall
                            /\ \A x \in Phases : [c EXCEPT !.phase = x] \in CallRecords
  BY DEF CallRecords, NoCall, Phases
<1>2. ASSUME call.phase \in Phases PROVE call \in CallRecords /\ call # NoCall
  BY <1>2 DEF GitShape, NoCall, Phases
<1>3. ASSUME gitTurn.active PROVE gitTurn \in TurnRecords
  BY <1>3 DEF GitShape, NoTurn
<1>4. \A w \in {"turns", "tools", "user"} :
        Count(w) => count' \in [turns : Nat, tools : Nat, user : Nat]
  BY DEF GitShape, Count
<1>5. ASSUME NEW p \in Paths, UserEdits(p) PROVE GitShape'
  <2> DEFINE c == (IF Exists(p) THEN disk[p] ELSE {}) \cup {<<"user", count.user>>}
  <2>1. c \in Contents
    <3>1. disk[p] \in Contents /\ count.user \in Nat
      BY DEF GitShape, Trees
    <3> QED BY <3>1, ContentsAre DEF Exists
  <2>2. disk' = [disk EXCEPT ![p] = c]
    BY <1>5 DEF UserEdits
  <2> HIDE DEF c
  <2>3. disk' \in Trees
    BY <2>1, <2>2, TreeWrite DEF GitShape
  <2>4. raced' \subseteq Paths
    BY <1>5 DEF GitShape, UserEdits, Disturb
  <2> QED BY <1>4, <1>5, <2>3, <2>4 DEF GitShape, UserEdits, UserMay, Git, Evidence
<1>6. ASSUME UserCommits PROVE GitShape'
  <2>1. [by |-> "user", tree |-> disk] \in CommitsOf
    BY DEF GitShape, CommitsOf
  <2>2. log' \in Histories
    BY <1>6, <2>1, TreeIs DEF UserCommits, GitShape
  <2> QED BY <1>4, <1>6, <2>2 DEF GitShape, UserCommits, UserMay, Evidence
<1>7. ASSUME BeginTurn PROVE GitShape'
  <2>1. gitTurn' \in TurnRecords
    BY <1>7 DEF BeginTurn, GitShape, TurnRecords, Dirty
  <2> QED BY <1>4, <1>7, <2>1 DEF GitShape, BeginTurn, Git, Evidence
<1>8. ASSUME EndTurn \/ Refuse \/ DropStale PROVE GitShape'
  BY <1>8 DEF EndTurn, Refuse, DropStale, GitShape, Git, Evidence
<1>9. ASSUME NEW tool \in Tools, NEW p \in Paths, NEW v \in BOOLEAN, Prepare(tool, p, v)
      PROVE  GitShape'
  <2>1. call' \in CallRecords
    BY <1>9 DEF Prepare, GitShape, CallRecords, Phases, Trees
  <2> QED BY <1>4, <1>9, <2>1 DEF GitShape, Prepare, Git, Evidence
<1>10. ASSUME ApproveCall PROVE GitShape'
  <2>1. call.phase \in Phases /\ call' = [call EXCEPT !.phase = "ready"] /\ "ready" \in Phases
    BY <1>10 DEF ApproveCall, Phases
  <2>2. call' \in CallRecords
    BY <1>1, <1>2, <2>1
  <2> QED BY <1>10, <2>2 DEF GitShape, ApproveCall, Git, Evidence
<1>11. ASSUME Begin PROVE GitShape'
  <2>1. call \in CallRecords
    BY <1>2, <1>11 DEF Begin, Phases
  <2>2. call' \in CallRecords
    BY <1>11, <2>1 DEF Begin, CallRecords, Phases, GitShape
  <2> QED BY <1>11, <2>2 DEF GitShape, Begin, Git, Evidence
<1>12. ASSUME Works PROVE GitShape'
  <2>1. call \in CallRecords
    BY <1>2, <1>12 DEF Works, Phases
  <2>2. PICK c \in Effects, good \in BOOLEAN :
          /\ disk' = [disk EXCEPT ![call.path] = c]
          /\ call' = [call EXCEPT !.phase = "ran", !.ok = good]
          /\ shown' = IF good /\ call.tool # "run_shell"
                      THEN [shown EXCEPT ![call.path] = @ \cup {c}] ELSE shown
    BY <1>12 DEF Works
  <2>3. disk' \in Trees
    BY <1>1, <2>1, <2>2, EffectsAre, TreeWrite DEF GitShape
  <2>4. call' \in CallRecords
    BY <2>1, <2>2 DEF CallRecords, Phases
  <2>5. DOMAIN shown' = Paths
    BY <2>2 DEF GitShape
  <2> QED BY <1>12, <2>3, <2>4, <2>5 DEF GitShape, Works, Git
<1>13. ASSUME Fails PROVE GitShape'
  <2>1. call \in CallRecords
    BY <1>2, <1>13 DEF Fails, Phases
  <2>2. call' \in CallRecords
    BY <1>13, <2>1 DEF Fails, CallRecords, Phases
  <2> QED BY <1>13, <2>2 DEF GitShape, Fails, Git, Evidence
<1>14. ASSUME NEW p \in Paths, OrphanWrites(p) PROVE GitShape'
  <2>1. disk' \in Trees
    BY <1>14, ContentsAre, TreeWrite DEF OrphanWrites, GitShape
  <2>2. raced' \subseteq Paths
    BY <1>14 DEF GitShape, OrphanWrites, Disturb
  <2> QED BY <1>14, <2>1, <2>2 DEF GitShape, OrphanWrites, Git, Evidence
<1>15. ASSUME Finalize PROVE GitShape'
  <2>1. call \in CallRecords /\ gitTurn \in TurnRecords
    BY <1>2, <1>3, <1>15 DEF Finalize, Phases, OwnInv
  <2>2. log' \in Histories /\ ownCommits' \in Seq(OwnRecords)
    <3>1. CASE UNCHANGED Git
      BY <3>1 DEF Git, GitShape
    <3>2. CASE Commit(Staged)
      <4>1. Staged \in SUBSET Paths
        BY DEF Staged, Affected
      <4> QED BY <2>1, <3>2, <4>1, CommitIs
    <3> QED BY <1>15, <3>1, <3>2 DEF Finalize
  <2>3. DOMAIN seen' = Paths /\ DOMAIN authored' = Paths
    BY <1>15 DEF Finalize, Remember, GitShape
  <2>4. call' = NoCall \/ call' \in CallRecords
    BY <1>1, <1>15, <2>1 DEF Finalize, Phases
  <2> QED BY <1>15, <2>2, <2>3, <2>4 DEF GitShape, Finalize
<1>16. ASSUME AutoUndo PROVE GitShape'
  <2>1. /\ call' = NoCall /\ UNCHANGED <<gitTurn, authored, shown, orphan, count, raced>>
        /\ \/ UNCHANGED <<disk, log, ownCommits, seen>>
           \/ Undone(Last(Candidates))
    BY <1>16, AutoUndoIs
  <2>2. ASSUME NEW r, Undone(r) PROVE GitShape'
    BY <2>1, <2>2, ResetIs DEF GitShape, Undone
  <2>3. CASE UNCHANGED <<disk, log, ownCommits, seen>>
    BY <2>1, <2>3 DEF GitShape
  <2> QED BY <2>1, <2>2, <2>3
<1>17. ASSUME ManualUndo PROVE GitShape'
  <2>1. PICK r : Undone(r)
    BY <1>17, ManualUndoIs
  <2>2. UNCHANGED <<gitTurn, call, authored, shown, orphan, count, raced>>
    BY <1>17, ManualUndoIs
  <2> QED BY <2>1, <2>2, ResetIs DEF GitShape, Undone
<1>18. ASSUME RestartRuntime PROVE GitShape'
  BY <1>18 DEF RestartRuntime, GitShape
<1>19. CASE UNCHANGED gitVars
  BY <1>19 DEF gitVars, GitShape
<1> QED
  BY <1>5, <1>6, <1>7, <1>8, <1>9, <1>10, <1>11, <1>12, <1>13, <1>14, <1>15, <1>16, <1>17,
     <1>18, <1>19 DEF ToolGitNext, UserActs

(* A step that makes no commit keeps what is known of them, if the branch   *)
(* goes on from where the turn began.                                       *)
LEMMA OwnStays ==
  ASSUME GitShape, GitShape', OwnInv, gitTurn' = gitTurn, count'.turns = count.turns,
         \A i \in DOMAIN ownCommits' : \E j \in DOMAIN ownCommits : ownCommits'[i] = ownCommits[j],
         gitTurn.active => Begins(gitTurn.head, log'),
         call' # NoCall => gitTurn.active
  PROVE  OwnInv'
<1>1. ASSUME NEW i \in DOMAIN ownCommits'
      PROVE  /\ OwnOK(ownCommits'[i]) /\ OfTurn(gitTurn', ownCommits'[i])
             /\ ownCommits'[i].run <= count'.turns
  BY <1>1 DEF OwnInv
<1>2. gitTurn'.active =>
        /\ Begins(gitTurn'.head, log') /\ gitTurn'.run <= count'.turns
        /\ gitTurn'.clean <=> (gitTurn'.dirty = {})
  BY DEF OwnInv
<1>3. call' # NoCall => gitTurn'.active
  OBVIOUS
<1> HIDE DEF OwnInv, OfTurn, Begins, OwnOK
<1> QED BY <1>1, <1>2, <1>3 DEF OwnInv, OfTurn, Begins, OwnOK, TreeOf

(* What follows a history begins with what it began with.                   *)
LEMMA BeginsAppend ==
  ASSUME NEW g \in Histories, NEW h \in Histories, NEW c \in CommitsOf
  PROVE  Begins(g, g) /\ (Begins(g, h) => Begins(g, Append(h, c)))
<1>1. Len(g) \in Nat /\ Len(h) \in Nat /\ Len(Append(h, c)) = Len(h) + 1
  BY DEF Histories
<1>2. \A i \in 1 .. Len(h) : Append(h, c)[i] = h[i]
  BY DEF Histories
<1> QED BY <1>1, <1>2 DEF Begins

(* Every step keeps what is known of the turn and of its commits.           *)
LEMMA OwnStep ==
  ASSUME GitInv, [ToolGitNext]_gitVars PROVE OwnInv'
<1> USE DEF GitInv
<1>1. GitShape'
  BY GitShapeStep
<1>2. ASSUME call.phase \in Phases PROVE call # NoCall /\ gitTurn.active
  BY <1>2 DEF OwnInv, NoCall, Phases
<1>3. \A w \in {"tools", "user"} : Count(w) => count'.turns = count.turns
  BY DEF Count, GitShape
<1>4. ASSUME UNCHANGED <<gitTurn, ownCommits, log>>, count'.turns = count.turns,
             call' # NoCall => call # NoCall \/ gitTurn.active
      PROVE  OwnInv'
  <2>1. /\ \A i \in DOMAIN ownCommits' : \E j \in DOMAIN ownCommits :
             ownCommits'[i] = ownCommits[j]
        /\ gitTurn.active => Begins(gitTurn.head, log')
        /\ call' # NoCall => gitTurn.active
    BY <1>4 DEF OwnInv
  <2> QED BY <1>1, <1>4, <2>1, OwnStays
<1>5. ASSUME NEW p \in Paths, UserEdits(p) \/ OrphanWrites(p) PROVE OwnInv'
  BY <1>3, <1>4, <1>5 DEF UserEdits, UserMay, OrphanWrites, Git
<1>6. ASSUME UserCommits PROVE OwnInv'
  <2>1. [by |-> "user", tree |-> disk] \in CommitsOf
    BY DEF GitShape, CommitsOf
  <2>2. /\ log' = Append(log, [by |-> "user", tree |-> disk])
        /\ UNCHANGED <<gitTurn, ownCommits, call>> /\ count'.turns = count.turns
    BY <1>3, <1>6 DEF UserCommits, UserMay
  <2>3. gitTurn.active => Begins(gitTurn.head, log')
    <3>1. gitTurn.active => gitTurn.head \in Histories
      <4>1. gitTurn.active => gitTurn \in TurnRecords
        BY DEF GitShape, NoTurn
      <4> QED BY <4>1 DEF TurnRecords
    <3>2. gitTurn.active => Begins(gitTurn.head, log)
      BY DEF OwnInv
    <3>3. log \in Histories
      BY DEF GitShape
    <3> QED BY <2>1, <2>2, <3>1, <3>2, <3>3, BeginsAppend
  <2>4. call' # NoCall => gitTurn.active
    BY <2>2 DEF OwnInv
  <2> QED BY <1>1, <2>2, <2>3, <2>4, OwnStays
<1>7. ASSUME BeginTurn PROVE OwnInv'
  <2>1. /\ ~ gitTurn.active /\ count'.turns = count.turns + 1 /\ count.turns \in Nat
        /\ UNCHANGED <<log, ownCommits, call>>
        /\ gitTurn'.active /\ gitTurn'.head = log /\ gitTurn'.run = count.turns + 1
        /\ gitTurn'.dirty = Dirty /\ gitTurn'.clean = (Dirty = {})
    BY <1>7 DEF BeginTurn, Git, Count, GitShape
  <2>2. \A i \in DOMAIN ownCommits :
          /\ OwnOK(ownCommits[i]) /\ ownCommits[i].run \in Nat
          /\ ownCommits[i].run <= count.turns
    <3>1. \A i \in DOMAIN ownCommits : ownCommits[i] \in OwnRecords
      BY DEF GitShape
    <3> QED BY <3>1 DEF OwnInv, OwnRecords
  <2>3. \A i \in DOMAIN ownCommits' :
          /\ OwnOK(ownCommits'[i]) /\ OfTurn(gitTurn', ownCommits'[i])
          /\ ownCommits'[i].run <= count'.turns
    BY <2>1, <2>2 DEF OfTurn
  <2>4. Begins(gitTurn'.head, log')
    BY <2>1, BeginsAppend DEF GitShape, Begins, Histories
  <2>5. gitTurn'.clean <=> (gitTurn'.dirty = {})
    BY <2>1
  <2> HIDE DEF OwnInv, OfTurn, Begins, OwnOK
  <2> QED BY <2>1, <2>3, <2>4, <2>5 DEF OwnInv, OfTurn, Begins, OwnOK, TreeOf
<1>8. ASSUME EndTurn PROVE OwnInv'
  <2>1. gitTurn' = NoTurn /\ ~ NoTurn.active /\ call' = NoCall
        /\ UNCHANGED <<log, ownCommits, count>>
    BY <1>8 DEF EndTurn, Git, NoTurn
  <2>2. \A i \in DOMAIN ownCommits' :
          /\ OwnOK(ownCommits'[i]) /\ OfTurn(gitTurn', ownCommits'[i])
          /\ ownCommits'[i].run <= count'.turns
    BY <2>1 DEF OwnInv, OfTurn
  <2> HIDE DEF OwnInv, OfTurn, Begins, OwnOK
  <2> QED BY <2>1, <2>2 DEF OwnInv, OfTurn, Begins, OwnOK, TreeOf
<1>9. ASSUME NEW tool \in Tools, NEW p \in Paths, NEW v \in BOOLEAN, Prepare(tool, p, v)
      PROVE  OwnInv'
  BY <1>3, <1>4, <1>9 DEF Prepare, Git
<1>10. ASSUME ApproveCall \/ Refuse \/ Begin \/ Works \/ Fails PROVE OwnInv'
  BY <1>2, <1>4, <1>10 DEF ApproveCall, Refuse, Begin, Works, Fails, Git, Phases
<1>11. ASSUME DropStale PROVE OwnInv'
  BY <1>4, <1>11 DEF DropStale, Git
<1>12. ASSUME Finalize PROVE OwnInv'
  <2>1. /\ gitTurn.active /\ gitTurn' = gitTurn /\ count' = count
        /\ (UNCHANGED <<log, ownCommits>> \/ Commit(Staged))
    BY <1>2, <1>12 DEF Finalize, Git, Phases
  <2>2. CASE UNCHANGED <<log, ownCommits>>
    BY <1>4, <2>1, <2>2
  <2>3. CASE Commit(Staged)
    <3>1. gitTurn \in TurnRecords /\ Staged \in SUBSET Paths
      BY <2>1 DEF GitShape, NoTurn, Staged, Affected
    <3>2. PICK c \in CommitsOf, r \in OwnRecords :
           /\ log' = Append(log, c) /\ log' \in Histories /\ c.by = "agent"
           /\ \A p \in Paths \ Staged : c.tree[p] = HeadTree[p]
           /\ ownCommits' = Append(ownCommits, r) /\ ownCommits' \in Seq(OwnRecords)
           /\ r.sha = log' /\ r.parent = log /\ r.paths = Staged
           /\ r.clean = gitTurn.clean /\ r.run = gitTurn.run
      BY <2>3, <3>1, CommitIs
    <3>3. Begins(gitTurn.head, log) /\ gitTurn.run <= count.turns
      BY <2>1 DEF OwnInv
    <3>4. OwnOK(r)
      BY <3>2 DEF OwnOK, HeadTree
    <3>5. OfTurn(gitTurn, r) /\ r.run <= count.turns
      BY <3>2, <3>3 DEF OfTurn
    <3>6. \A i \in DOMAIN ownCommits' :
            ownCommits'[i] = r \/ (i \in DOMAIN ownCommits /\ ownCommits'[i] = ownCommits[i])
      BY <3>2 DEF GitShape
    <3>7. \A i \in DOMAIN ownCommits' :
            /\ OwnOK(ownCommits'[i]) /\ OfTurn(gitTurn', ownCommits'[i])
            /\ ownCommits'[i].run <= count'.turns
      BY <2>1, <3>4, <3>5, <3>6 DEF OwnInv
    <3>8. Begins(gitTurn.head, log')
      BY <3>1, <3>2, <3>3, BeginsAppend DEF TurnRecords, GitShape
    <3>9. gitTurn.clean <=> (gitTurn.dirty = {})
      BY <2>1 DEF OwnInv
    <3> HIDE DEF OwnInv, OfTurn, Begins, OwnOK
    <3> QED BY <2>1, <3>3, <3>7, <3>8, <3>9 DEF OwnInv, OfTurn, Begins, OwnOK, TreeOf
  <2> QED BY <2>1, <2>2, <2>3
<1>13. ASSUME AutoUndo PROVE OwnInv'
  <2>1. /\ call' = NoCall /\ UNCHANGED <<gitTurn, count>> /\ gitTurn.active
        /\ \/ UNCHANGED <<disk, log, ownCommits, seen>>
           \/ /\ Undone(Last(Candidates)) /\ Last(Candidates).run = gitTurn.run
              /\ \E j \in DOMAIN ownCommits : Last(Candidates) = ownCommits[j]
    BY <1>2, <1>13, AutoUndoIs DEF Phases
  <2>2. CASE UNCHANGED <<disk, log, ownCommits, seen>>
    BY <1>4, <2>1, <2>2
  <2>3. CASE \E j \in DOMAIN ownCommits :
               Undone(ownCommits[j]) /\ ownCommits[j].run = gitTurn.run
    <3>1. PICK j \in DOMAIN ownCommits :
            Undone(ownCommits[j]) /\ ownCommits[j].run = gitTurn.run
      BY <2>3
    <3>2. Begins(gitTurn.head, ownCommits[j].parent)
      BY <2>1, <3>1 DEF OwnInv, OfTurn
    <3>3. /\ log' = ownCommits[j].parent
          /\ \A i \in DOMAIN ownCommits' :
               \E k \in DOMAIN ownCommits : ownCommits'[i] = ownCommits[k]
      BY <3>1, ResetIs DEF Undone
    <3> QED BY <1>1, <2>1, <3>2, <3>3, OwnStays
  <2> QED BY <2>1, <2>2, <2>3
<1>14. ASSUME ManualUndo PROVE OwnInv'
  <2>1. PICK r : Undone(r)
    BY <1>14, ManualUndoIs
  <2>2. UNCHANGED <<gitTurn, call, count>> /\ ~ gitTurn.active
    BY <1>14, ManualUndoIs
  <2>3. \A i \in DOMAIN ownCommits' :
          \E k \in DOMAIN ownCommits : ownCommits'[i] = ownCommits[k]
    BY <2>1, ResetIs DEF Undone
  <2>4. call' # NoCall => gitTurn.active
    BY <2>2 DEF OwnInv
  <2> QED BY <1>1, <2>2, <2>3, <2>4, OwnStays
<1>15. ASSUME RestartRuntime PROVE OwnInv'
  BY <1>15 DEF RestartRuntime, OwnInv, NoTurn
<1>16. CASE UNCHANGED gitVars
  BY <1>4, <1>16 DEF gitVars
<1> QED
  BY <1>5, <1>6, <1>7, <1>8, <1>9, <1>10, <1>11, <1>12, <1>13, <1>14, <1>15, <1>16
     DEF ToolGitNext, UserActs

(* Freshness is of what the model was shown, also while files change beside *)
(* the tool: a file that changed between a tool and its record is raced.    *)
LEMMA SeenStep ==
  ASSUME GitInv, [ToolGitNext]_gitVars PROVE SeenInv'
<1> USE DEF GitInv
<1>1. ASSUME call.phase \in Phases PROVE call \in CallRecords /\ call.path \in Paths
  BY <1>1 DEF GitShape, NoCall, Phases, CallRecords
<1>2. NoCall.phase = "none"
  BY DEF NoCall
<1>3. ASSUME UNCHANGED <<seen, authored, shown, raced>>,
             call'.phase # "ran" \/ ~ call'.ok
      PROVE  SeenInv'
  BY <1>3 DEF SeenInv, KnownOf
<1>4. ASSUME UNCHANGED <<seen, authored, shown, raced, disk, call>> PROVE SeenInv'
  BY <1>4 DEF SeenInv, KnownOf
<1>5. ASSUME NEW p \in Paths, UserEdits(p) \/ OrphanWrites(p) PROVE SeenInv'
  <2>1. /\ UNCHANGED <<seen, authored, shown, call>>
        /\ raced' = IF call.phase = "ran" /\ call.path = p THEN raced \cup {p} ELSE raced
        /\ \A q \in Paths : q # p => disk'[q] = disk[q]
    BY <1>5 DEF UserEdits, OrphanWrites, Evidence, Disturb, GitShape, Trees
  <2> QED BY <1>1, <2>1 DEF SeenInv, KnownOf, Phases
<1>6. ASSUME UserCommits \/ BeginTurn PROVE SeenInv'
  BY <1>4, <1>6 DEF UserCommits, BeginTurn, Evidence
<1>7. ASSUME EndTurn \/ Refuse PROVE SeenInv'
  <2>1. call'.phase = "none" /\ UNCHANGED <<seen, authored, shown, raced>>
    BY <1>2, <1>7 DEF EndTurn, Refuse, Evidence
  <2> QED BY <1>3, <2>1
<1>8. ASSUME NEW tool \in Tools, NEW p \in Paths, NEW v \in BOOLEAN, Prepare(tool, p, v)
      PROVE  SeenInv'
  <2>1. call'.phase \in {"asking", "ready"} /\ UNCHANGED <<seen, authored, shown, raced>>
    BY <1>8 DEF Prepare, Evidence
  <2> QED BY <1>3, <2>1
<1>9. ASSUME ApproveCall \/ Begin \/ Fails PROVE SeenInv'
  <2>1. call \in CallRecords
    BY <1>1, <1>9 DEF ApproveCall, Begin, Fails, Phases
  <2>2. /\ call'.phase # "ran" \/ ~ call'.ok
        /\ UNCHANGED <<seen, authored, shown, raced>>
    BY <1>9, <2>1 DEF ApproveCall, Begin, Fails, Evidence, CallRecords
  <2> QED BY <1>3, <2>2
<1>10. ASSUME Works PROVE SeenInv'
  <2>1. call \in CallRecords /\ call.path \in Paths
    BY <1>1, <1>10 DEF Works, Phases
  <2>2. PICK c \in Effects, good \in BOOLEAN :
          /\ disk' = [disk EXCEPT ![call.path] = c]
          /\ call' = [call EXCEPT !.phase = "ran", !.ok = good]
          /\ shown' = IF good /\ call.tool # "run_shell"
                      THEN [shown EXCEPT ![call.path] = @ \cup {c}] ELSE shown
    BY <1>10 DEF Works
  <2>3. call'.path = call.path /\ call'.tool = call.tool /\ call'.ok = good
    BY <2>1, <2>2 DEF CallRecords
  <2>4. disk'[call.path] = c
    BY <2>1, <2>2 DEF GitShape, Trees
  <2>5. /\ \A p \in Paths : shown[p] \subseteq shown'[p]
        /\ good /\ call.tool # "run_shell" => c \in shown'[call.path]
    BY <2>1, <2>2 DEF GitShape
  <2>6. UNCHANGED <<seen, authored, raced>>
    BY <1>10 DEF Works
  <2> QED BY <2>3, <2>4, <2>5, <2>6 DEF SeenInv, KnownOf
<1>11. ASSUME Finalize PROVE SeenInv'
  <2>1. call \in CallRecords /\ call.path \in Paths /\ call.phase = "ran"
    BY <1>1, <1>11 DEF Finalize, Phases
  <2>2. call'.phase # "ran"
    BY <1>2, <1>11, <2>1 DEF Finalize, CallRecords
  <2>3. Remember /\ UNCHANGED <<disk, shown, raced>>
    BY <1>11 DEF Finalize
  <2>4. call.ok /\ call.tool # "run_shell" /\ call.path \notin raced =>
          disk[call.path] \in shown[call.path]
    BY <2>1 DEF SeenInv
  <2>5. \A p \in Paths :
          /\ seen'[p] \in {seen[p], Unknown, disk[p]}
          /\ authored'[p] \in {authored[p], Unknown, disk[p]}
          /\ \/ seen'[p] = seen[p] /\ authored'[p] = authored[p]
             \/ p = call.path /\ call.ok /\ call.tool # "run_shell"
    <3>1. CASE call.ok /\ call.tool = "read_file"
      BY <2>3, <3>1 DEF Remember, GitShape
    <3>2. CASE call.ok /\ call.tool \in {"write_file", "patch_file"}
      BY <2>3, <3>2 DEF Remember, GitShape
    <3>3. CASE ~ (call.ok /\ call.tool = "read_file")
               /\ ~ (call.ok /\ call.tool \in {"write_file", "patch_file"})
      <4>1. UNCHANGED <<seen, authored>>
        BY <2>3, <3>3 DEF Remember
      <4> QED BY <4>1
    <3> QED BY <3>1, <3>2, <3>3
  <2>6. \A p \in Paths \ raced' : KnownOf(p)' \subseteq shown'[p]
    BY <2>3, <2>4, <2>5 DEF SeenInv, KnownOf
  <2> QED BY <2>2, <2>6 DEF SeenInv
<1>12. ASSUME NEW n, call' = NoCall, UNCHANGED <<authored, shown, raced>>,
              \A p \in Paths : seen'[p] \in {seen[p], Unknown}
       PROVE  SeenInv'
  BY <1>2, <1>12 DEF SeenInv, KnownOf
<1>13. ASSUME AutoUndo PROVE SeenInv'
  <2>1. /\ call' = NoCall /\ UNCHANGED <<authored, shown, raced>>
        /\ UNCHANGED seen \/ Undone(Last(Candidates))
    BY <1>13, AutoUndoIs
  <2>2. \A p \in Paths : seen'[p] \in {seen[p], Unknown}
    BY <2>1, ResetIs DEF Undone
  <2> QED BY <1>12, <2>1, <2>2
<1>14. ASSUME ManualUndo PROVE SeenInv'
  <2>1. PICK r : Undone(r)
    BY <1>14, ManualUndoIs
  <2>2. \A p \in Paths : seen'[p] \in {seen[p], Unknown}
    BY <2>1, ResetIs DEF Undone
  <2>3. ~ gitTurn.active /\ UNCHANGED <<call, authored, shown, raced>>
    BY <1>14, ManualUndoIs
  <2>4. call' = NoCall
    BY <2>3 DEF OwnInv
  <2> QED BY <1>12, <2>2, <2>3, <2>4
<1>15. ASSUME DropStale PROVE SeenInv'
  BY <1>12, <1>15 DEF DropStale
<1>16. ASSUME RestartRuntime PROVE SeenInv'
  BY <1>2, <1>16 DEF RestartRuntime, SeenInv, KnownOf
<1>17. CASE UNCHANGED gitVars
  BY <1>4, <1>17 DEF gitVars
<1> QED
  BY <1>5, <1>6, <1>7, <1>8, <1>9, <1>10, <1>11, <1>13, <1>14, <1>15, <1>16, <1>17
     DEF ToolGitNext, UserActs

(* The gate let the call c pass on a content the model was shown.           *)
PassedOn(c, shownTo, racing) ==
  c # NoCall /\ c.tool \in {"write_file", "patch_file"} /\ c.was # NoFile
    /\ c.path \notin racing => c.was \in shownTo[c.path]

(* Every step keeps that of the call that is executed.                      *)
LEMMA GateStep ==
  ASSUME GitInv, [ToolGitNext]_gitVars PROVE GateHasEvidence'
<1> USE DEF GitInv
<1> SUFFICES PassedOn(call', shown', raced')
  BY DEF PassedOn, GateHasEvidence
<1>1. PassedOn(call, shown, raced)
  BY DEF PassedOn, GateHasEvidence
<1>2. call # NoCall => call \in CallRecords
  BY DEF GitShape
<1>3. ASSUME \/ call' = NoCall
             \/ /\ call # NoCall /\ call'.tool = call.tool /\ call'.path = call.path
                /\ call'.was = call.was
             \/ call' = call,
             \A p \in Paths : shown[p] \subseteq shown'[p], raced \subseteq raced'
      PROVE  PassedOn(call', shown', raced')
  BY <1>1, <1>2, <1>3 DEF PassedOn, CallRecords
<1>4. ASSUME call' = NoCall \/ call' = call, UNCHANGED <<shown, raced>>
      PROVE  PassedOn(call', shown', raced')
  BY <1>3, <1>4
<1>5. ASSUME NEW p \in Paths, UserEdits(p) \/ OrphanWrites(p)
      PROVE  PassedOn(call', shown', raced')
  BY <1>3, <1>5 DEF UserEdits, OrphanWrites, Evidence, Disturb
<1>6. ASSUME \/ UserCommits \/ BeginTurn \/ EndTurn \/ Refuse \/ DropStale \/ RestartRuntime
      PROVE  PassedOn(call', shown', raced')
  BY <1>4, <1>6 DEF UserCommits, BeginTurn, EndTurn, Refuse, DropStale, RestartRuntime, Evidence
<1>7. ASSUME NEW tool \in Tools, NEW p \in Paths, NEW v \in BOOLEAN, Prepare(tool, p, v)
      PROVE  PassedOn(call', shown', raced')
  <2>1. /\ call'.tool = tool /\ call'.path = p /\ call'.was = disk[p]
        /\ PolicyAllows(tool, p) /\ UNCHANGED <<shown, raced, seen, authored>>
    BY <1>7 DEF Prepare, Evidence
  <2>2. disk[p] # Unknown
    BY ContentsAre DEF GitShape, Trees
  <2>3. ASSUME tool \in {"write_file", "patch_file"}, disk[p] # NoFile, p \notin raced
        PROVE  disk[p] \in shown[p]
    <3>1. disk[p] \in KnownOf(p)
      BY <2>1, <2>2, <2>3 DEF PolicyAllows, Fresh, Exists, KnownOf
    <3> QED BY <2>3, <3>1 DEF SeenInv
  <2> QED BY <2>1, <2>3 DEF PassedOn
<1>8. ASSUME ApproveCall \/ Begin \/ Fails PROVE PassedOn(call', shown', raced')
  <2>1. call # NoCall
    BY <1>8 DEF ApproveCall, Begin, Fails, NoCall
  <2>2. /\ call'.tool = call.tool /\ call'.path = call.path /\ call'.was = call.was
        /\ UNCHANGED <<shown, raced>>
    BY <1>2, <1>8, <2>1 DEF ApproveCall, Begin, Fails, Evidence, CallRecords
  <2> QED BY <1>3, <2>1, <2>2
<1>9. ASSUME Works PROVE PassedOn(call', shown', raced')
  <2>1. call # NoCall /\ call \in CallRecords
    BY <1>2, <1>9 DEF Works, NoCall
  <2>2. PICK c \in Effects, good \in BOOLEAN :
          /\ call' = [call EXCEPT !.phase = "ran", !.ok = good]
          /\ shown' = IF good /\ call.tool # "run_shell"
                      THEN [shown EXCEPT ![call.path] = @ \cup {c}] ELSE shown
    BY <1>9 DEF Works
  <2>3. call'.tool = call.tool /\ call'.path = call.path /\ call'.was = call.was
    BY <2>1, <2>2 DEF CallRecords
  <2>4. (\A p \in Paths : shown[p] \subseteq shown'[p]) /\ raced' = raced
    BY <1>9, <2>1, <2>2 DEF Works, GitShape
  <2> QED BY <1>3, <2>1, <2>3, <2>4
<1>10. ASSUME Finalize PROVE PassedOn(call', shown', raced')
  <2>1. call # NoCall /\ call \in CallRecords /\ UNCHANGED <<shown, raced>>
    BY <1>2, <1>10 DEF Finalize, NoCall
  <2>2. \/ call' = NoCall
        \/ call'.tool = call.tool /\ call'.path = call.path /\ call'.was = call.was
    BY <1>10, <2>1 DEF Finalize, CallRecords
  <2> QED BY <1>3, <2>1, <2>2
<1>11. ASSUME AutoUndo \/ ManualUndo PROVE PassedOn(call', shown', raced')
  BY <1>4, <1>11, AutoUndoIs, ManualUndoIs
<1>12. CASE UNCHANGED gitVars
  BY <1>4, <1>12 DEF gitVars
<1> QED
  BY <1>5, <1>6, <1>7, <1>8, <1>9, <1>10, <1>11, <1>12 DEF ToolGitNext, UserActs

(* The invariant holds in every state.                                      *)
LEMMA GitInvariant == ToolGitSpec => []GitInv
<1>1. GitInv /\ [ToolGitNext]_gitVars => GitInv'
  BY GitShapeStep, OwnStep, SeenStep, GateStep DEF GitInv
<1> QED BY <1>1, GitInit, PTL DEF ToolGitSpec

(* The types of the module (ToolGitTypeOK).                                 *)
LEMMA GitTypes == GitInv => ToolGitTypeOK
<1> SUFFICES ASSUME GitInv PROVE ToolGitTypeOK
  OBVIOUS
<1>1. GitShape
  BY DEF GitInv
<1>2. \A p \in Paths : disk[p] = NoFile \/ NoFile \cap disk[p] = {}
  BY <1>1, ContentsAre DEF GitShape, Trees
<1>3. ASSUME gitTurn.active PROVE gitTurn.dirty \subseteq Paths
  <2>1. gitTurn \in TurnRecords
    BY <1>1, <1>3 DEF GitShape, NoTurn
  <2> QED BY <2>1 DEF TurnRecords
<1>4. ASSUME call # NoCall
      PROVE  /\ call.phase \in {"asking", "ready", "running", "ran", "verdict"}
             /\ call.tool \in Tools /\ call.path \in Paths
  BY <1>1, <1>4 DEF GitShape, CallRecords, Phases
<1>5. raced \subseteq Paths
  BY <1>1 DEF GitShape
<1> QED BY <1>2, <1>3, <1>4, <1>5 DEF ToolGitTypeOK

(* The branch of a history is a prefix of what begins with it.              *)
LEMMA BeginsIsPrefix ==
  ASSUME NEW g \in Histories, NEW h \in Histories, Begins(g, h)
  PROVE  IsPrefix(g, h)
<1>1. Len(g) \in Nat /\ Len(h) \in Nat /\ Len(g) <= Len(h)
  BY DEF Histories, Begins
<1>2. SubSeq(g, 1, Len(g)) = SubSeq(h, 1, Len(g))
  <2>1. /\ SubSeq(g, 1, Len(g)) \in Seq(CommitsOf) /\ Len(SubSeq(g, 1, Len(g))) = Len(g)
        /\ SubSeq(h, 1, Len(g)) \in Seq(CommitsOf) /\ Len(SubSeq(h, 1, Len(g))) = Len(g)
    BY <1>1 DEF Histories
  <2>2. \A i \in 1 .. Len(g) :
          SubSeq(g, 1, Len(g))[i] = g[i] /\ SubSeq(h, 1, Len(g))[i] = h[i]
    BY <1>1 DEF Histories
  <2>3. \A i \in 1 .. Len(g) : g[i] = h[i]
    BY DEF Begins
  <2> DEFINE a == SubSeq(g, 1, Len(g))
             b == SubSeq(h, 1, Len(g))
  <2>4. a \in Seq(CommitsOf) /\ b \in Seq(CommitsOf) /\ Len(a) = Len(b)
        /\ \A i \in 1 .. Len(a) : a[i] = b[i]
    BY <2>1, <2>2, <2>3
  <2> HIDE DEF a, b
  <2>5. a = b
    BY <2>4, SeqEqual
  <2> QED BY <2>5 DEF a, b
<1> QED BY <1>1, <1>2 DEF IsPrefix

(* For any number of files, calls and user actions, a write gets past the   *)
(* gate only on a content that the model was shown or wrote - unless the    *)
(* file changed between a tool and its record -, and a turn never takes the *)
(* branch back behind where it began.                                       *)
THEOREM TurnsKeepToTheirOwn == ToolGitSpec => []TurnKeepsToItsOwn
<1>1. GitInv => TurnKeepsToItsOwn
  <2> SUFFICES ASSUME GitInv, gitTurn.active PROVE IsPrefix(gitTurn.head, log)
    BY DEF GitInv, TurnKeepsToItsOwn, EarlierTurnsStay
  <2>1. gitTurn \in TurnRecords
    BY DEF GitInv, GitShape, NoTurn
  <2>2. gitTurn.head \in Histories /\ log \in Histories /\ Begins(gitTurn.head, log)
    BY <2>1 DEF GitInv, GitShape, OwnInv, TurnRecords
  <2> QED BY <2>2, BeginsIsPrefix
<1> QED BY <1>1, GitInvariant, PTL

(* A commit or an undo of a turn leaves what was dirty when it began.       *)
LEMMA BaselineStep ==
  ASSUME GitInv, Finalize \/ AutoUndo, NEW p \in gitTurn.dirty
  PROVE  disk'[p] = disk[p] /\ TreeOf(log')[p] = HeadTree[p]
<1>1. gitTurn \in TurnRecords
  <2>1. call.phase \in {"ran", "verdict"}
    BY AutoUndoIs DEF Finalize, GitInv
  <2>2. gitTurn.active
    BY <2>1 DEF GitInv, OwnInv, NoCall
  <2> QED BY <2>2 DEF GitInv, GitShape, NoTurn
<1>2. p \in Paths
  BY <1>1 DEF TurnRecords
<1>3. CASE UNCHANGED <<disk, log>>
  BY <1>3 DEF HeadTree
<1>4. CASE Finalize /\ Commit(Staged)
  <2>1. Staged \in SUBSET Paths /\ p \notin Staged
    BY DEF Staged, Affected
  <2>2. PICK c \in CommitsOf :
           /\ log' = Append(log, c)
           /\ \A q \in Paths \ Staged : c.tree[q] = HeadTree[q]
    BY <1>1, <1>4, <2>1, CommitIs DEF GitInv
  <2>3. TreeOf(log') = c.tree
    BY <2>2, TreeIs DEF GitInv, GitShape
  <2> QED BY <1>2, <1>4, <2>1, <2>2, <2>3 DEF Finalize
<1>5. CASE AutoUndo /\ Undone(Last(Candidates))
  <2>1. UNCHANGED <<disk, log>> \/ \E j \in DOMAIN ownCommits :
          ownCommits[j].run = gitTurn.run /\ ownCommits[j].clean
    BY <1>5, AutoUndoIs DEF GitInv
  <2>2. gitTurn.active
    BY <1>1 DEF TurnRecords
  <2>3. UNCHANGED <<disk, log>> \/ gitTurn.clean
    BY <2>1, <2>2 DEF GitInv, OwnInv, OfTurn
  <2>4. UNCHANGED <<disk, log>>
    BY <2>2, <2>3 DEF GitInv, OwnInv
  <2> QED BY <1>3, <2>4
<1> QED BY <1>3, <1>4, <1>5, AutoUndoIs DEF GitInv, Finalize, Git

(* The commits of the user stay where they are: a commit is added, or one   *)
(* of the agent is taken back from the end.                                 *)
LEMMA UserCommitsStep ==
  ASSUME GitInv, [ToolGitNext]_gitVars, NEW i \in DOMAIN log, log[i].by = "user"
  PROVE  i \in DOMAIN log' /\ log'[i] = log[i]
<1>1. log \in Seq(CommitsOf)
  BY DEF GitInv, GitShape, Histories
<1>2. CASE log' = log
  BY <1>2
<1>3. ASSUME NEW c \in CommitsOf, log' = Append(log, c)
      PROVE  i \in DOMAIN log' /\ log'[i] = log[i]
  BY <1>1, <1>3
<1>4. ASSUME NEW r, Undone(r)
      PROVE  i \in DOMAIN log' /\ log'[i] = log[i]
  <2>1. PICK c \in CommitsOf : log = Append(log', c) /\ c.by = "agent"
    BY <1>4, ResetIs DEF Undone, Safe, GitInv
  <2>2. log' \in Seq(CommitsOf)
    BY <1>4, ResetIs DEF Undone, GitInv, Histories
  <2> QED BY <2>1, <2>2
<1>5. CASE UserCommits
  <2>1. [by |-> "user", tree |-> disk] \in CommitsOf
    BY DEF GitInv, GitShape, CommitsOf
  <2> QED BY <1>3, <1>5, <2>1 DEF UserCommits
<1>6. CASE Finalize
  <2>1. gitTurn \in TurnRecords
    <3>1. gitTurn.active
      BY <1>6 DEF GitInv, OwnInv, NoCall, Finalize
    <3> QED BY <3>1 DEF GitInv, GitShape, NoTurn
  <2>2. Staged \in SUBSET Paths
    BY DEF Staged, Affected
  <2>3. Commit(Staged) => \E c \in CommitsOf : log' = Append(log, c)
    BY <2>1, <2>2, CommitIs DEF GitInv
  <2> QED BY <1>2, <1>3, <1>6, <2>3 DEF Finalize, Git
<1>7. CASE AutoUndo
  BY <1>2, <1>4, <1>7, AutoUndoIs DEF GitInv
<1>8. CASE ManualUndo
  BY <1>4, <1>8, ManualUndoIs DEF GitInv
<1>9. CASE \/ BeginTurn \/ EndTurn \/ ApproveCall \/ Refuse \/ Begin \/ Works \/ Fails
           \/ DropStale \/ RestartRuntime
  BY <1>2, <1>9 DEF BeginTurn, EndTurn, ApproveCall, Refuse, Begin, Works, Fails, DropStale,
     RestartRuntime, Git
<1>10. CASE \E p \in Paths : UserEdits(p) \/ OrphanWrites(p)
  BY <1>2, <1>10 DEF UserEdits, OrphanWrites, Git
<1>11. CASE \E tool \in Tools, p \in Paths, v \in BOOLEAN : Prepare(tool, p, v)
  BY <1>2, <1>11 DEF Prepare, Git
<1>12. CASE UNCHANGED gitVars
  BY <1>2, <1>12 DEF gitVars
<1> QED
  BY <1>5, <1>6, <1>7, <1>8, <1>9, <1>10, <1>11, <1>12 DEF ToolGitNext, UserActs

(* An automatic undo changes the files of its commit only.                  *)
LEMMA UndoStep ==
  ASSUME GitInv, AutoUndo, NEW p \in Paths
  PROVE  disk'[p] = disk[p] \/ p \in Last(Candidates).paths
<1> DEFINE r == Last(Candidates)
<1>1. CASE UNCHANGED disk
  BY <1>1
<1>2. CASE Undone(r) /\ OwnOK(r)
  <2>1. PICK c \in CommitsOf :
           /\ r.sha = Append(r.parent, c)
           /\ \A q \in Paths \ r.paths : c.tree[q] = TreeOf(r.parent)[q]
    BY <1>2 DEF OwnOK
  <2>2. /\ r.sha = log /\ Dirty = {} /\ r.parent \in Histories
        /\ disk' = IF r.parent = <<>> THEN disk ELSE TreeOf(r.parent)
    BY <1>2, ResetIs DEF Undone, Safe, GitInv
  <2> HIDE DEF r
  <2>3. HeadTree = c.tree
    BY <2>1, <2>2, TreeIs DEF HeadTree
  <2>4. disk[p] = HeadTree[p]
    BY <2>2 DEF Dirty
  <2>5. disk'[p] = disk[p] \/ p \in r.paths
    BY <2>1, <2>2, <2>3, <2>4
  <2> QED BY <2>5 DEF r
<1> QED BY <1>1, <1>2, AutoUndoIs DEF GitInv

(* For any number of files, calls and user actions, the work of others      *)
(* survives a turn's commits and undos: what was dirty when it began, what  *)
(* the user committed, and the files that an undone commit did not touch.   *)
THEOREM OthersWorkSurvives == ToolGitSpec => OthersWorkStays
<1>1. GitInv /\ [ToolGitNext]_gitVars =>
        [Finalize \/ AutoUndo =>
           \A p \in gitTurn.dirty : /\ disk'[p] = disk[p]
                                   /\ TreeOf(log')[p] = HeadTree[p]]_gitVars
  BY BaselineStep
<1>2. GitInv /\ [ToolGitNext]_gitVars =>
        [\A i \in DOMAIN log : log[i].by = "user" =>
           i \in DOMAIN log' /\ log'[i] = log[i]]_gitVars
  BY UserCommitsStep
<1>3. GitInv /\ [ToolGitNext]_gitVars =>
        [AutoUndo => \A p \in Paths :
           disk'[p] = disk[p] \/ p \in Last(Candidates).paths]_gitVars
  BY UndoStep
<1>4. ToolGitSpec => BaselineUntouched
  BY <1>1, GitInvariant, PTL DEF ToolGitSpec, BaselineUntouched
<1>5. ToolGitSpec => UserCommitsStay
  BY <1>2, GitInvariant, PTL DEF ToolGitSpec, UserCommitsStay
<1>6. ToolGitSpec => UndoTakesBackItsPaths
  BY <1>3, GitInvariant, PTL DEF ToolGitSpec, UndoTakesBackItsPaths
<1> QED BY <1>4, <1>5, <1>6 DEF OthersWorkStays

-----------------------------------------------------------------------------
(***************************************************************************)
(* ToolGates, for any tools, places and limits: no successful write is     *)
(* repeated without a read in between, reads and searches exceed their     *)
(* limits by less than a batch, and in plan mode nothing but the artifact  *)
(* is written. What the gates count is a property of the history, which    *)
(* every call goes to whether or not it succeeds.                          *)
(***************************************************************************)

(* To append is to put a sequence of one behind.                            *)
LEMMA AppendIs ==
  ASSUME NEW S, NEW s \in Seq(S), NEW x \in S
  PROVE  <<x>> \in [1..1 -> S] /\ <<x>>[1] = x /\ Append(s, x) = s \o <<x>>
<1>1. <<x>> \in Seq(S) /\ Len(<<x>>) = 1 /\ <<x>>[1] = x
  OBVIOUS
<1>2. <<x>> \in [1..1 -> S]
  OBVIOUS
<1>3. Append(s, x) = s \o <<x>>
  OBVIOUS
<1> QED BY <1>1, <1>2, <1>3

(* The items a turn's history is made of. *)
Places == Targets \cup {""}
Items == [tool : AllTools, path : Places, arg : Lines, ok : BOOLEAN, lines : Lines \cup {{}}]

HistoryTypeOK == history \in Seq(Items)

ModeCalls == {Call(t, "", {1}) : t \in Modes}
Asked == Calls \cup ModeCalls

(* A call has the fields it was made with.                                  *)
LEMMA CallFields ==
  ASSUME NEW t, NEW p, NEW a
  PROVE  Call(t, p, a).tool = t /\ Call(t, p, a).path = p /\ Call(t, p, a).arg = a
BY DEF Call

(* The tools that read, write and run are tools, and none switches the      *)
(* mode.                                                                    *)
LEMMA ToolKinds ==
  /\ "read_file" \in AllTools \ Modes
  /\ \A t \in Writes : t \in AllTools \ Modes
  /\ \A t \in {"search", "run_shell"} : t \in AllTools \ Modes
  /\ \A t \in Modes : t \in AllTools
BY DEF AllTools, Modes, Reads, Writes

Sound(c) == c.tool \in AllTools /\ c.path \in Places /\ c.arg \in Lines

(* A call of a tool on a place is sound.                                    *)
LEMMA CallSound ==
  ASSUME NEW t \in AllTools, NEW p \in Places, NEW a \in Lines
  PROVE  Sound(Call(t, p, a)) /\ Call(t, p, a).tool = t
<1>1. Call(t, p, a).tool = t /\ Call(t, p, a).path = p /\ Call(t, p, a).arg = a
  BY CallFields
<1> QED BY <1>1 DEF Sound

(* The calls a model makes are sound, and none switches the mode.           *)
LEMMA CallIs ==
  ASSUME NEW c \in Calls
  PROVE  Sound(c) /\ c.tool \notin Modes
<1>1. {1} \in Lines /\ "" \in Places /\ \A p \in Targets : p \in Places
  BY DEF Lines, Places
<1>2. ASSUME c \in ReadCalls
      PROVE  Sound(c) /\ c.tool \notin Modes
  <2>1. PICK p \in Targets, r \in Lines : c = Call("read_file", p, r)
    BY <1>2 DEF ReadCalls
  <2> QED BY <1>1, <2>1, CallSound, ToolKinds, ZenonT(40)
<1>3. ASSUME c \in WriteCalls
      PROVE  Sound(c) /\ c.tool \notin Modes
  <2>1. PICK t \in Writes, p \in Targets : c = Call(t, p, {1})
    BY <1>3 DEF WriteCalls
  <2> QED BY <1>1, <2>1, CallSound, ToolKinds, ZenonT(40)
<1>4. ASSUME c \in {Call(t, "", {1}) : t \in {"search", "run_shell"}}
      PROVE  Sound(c) /\ c.tool \notin Modes
  <2>1. PICK t \in {"search", "run_shell"} : c = Call(t, "", {1})
    BY <1>4, Zenon
  <2>2. t \in AllTools \ Modes
    BY <2>1, ToolKinds
  <2> QED BY <1>1, <2>1, <2>2, CallSound, Zenon
<1> QED BY <1>2, <1>3, <1>4 DEF Calls

(* Those that switch it are sound too.                                      *)
LEMMA ModeCallIs ==
  ASSUME NEW c \in ModeCalls
  PROVE  Sound(c) /\ c.tool \in Modes
<1>1. {1} \in Lines /\ "" \in Places
  BY DEF Lines, Places
<1>2. PICK t \in Modes : c = Call(t, "", {1})
  BY Zenon DEF ModeCalls
<1> QED BY <1>1, <1>2, CallSound, ToolKinds, Zenon

(* The item that the history keeps of a call has its fields.                *)
LEMMA ItemIs ==
  ASSUME NEW c, Sound(c), NEW ok \in BOOLEAN, NEW item \in Item(c, ok)
  PROVE  /\ item \in Items
         /\ item.tool = c.tool /\ item.path = c.path /\ item.arg = c.arg /\ item.ok = ok
<1> DEFINE L == Lines \cup {{}}
           lines == IF ok /\ c.tool = "read_file" THEN {c.arg, {}} ELSE {{}}
<1>1. c.tool \in AllTools /\ c.path \in Places /\ c.arg \in Lines
  BY Zenon DEF Sound
<1>2. \A l \in lines : l \in L
  BY <1>1, Zenon
<1>3. item \in {[tool |-> c.tool, path |-> c.path, arg |-> c.arg, ok |-> ok, lines |-> l] : l \in lines}
  BY DEF Item
<1> HIDE DEF lines, L
<1>4. PICK l \in L :
        item = [tool |-> c.tool, path |-> c.path, arg |-> c.arg, ok |-> ok, lines |-> l]
  BY <1>2, <1>3
<1>5. Items = [tool : AllTools, path : Places, arg : Lines, ok : BOOLEAN, lines : L]
  BY DEF Items, L
<1>6. item \in Items
  BY <1>1, <1>4, <1>5, Zenon
<1> QED BY <1>4, <1>6

(* What may be added to the history at once: the items of calls that passed *)
(* the gates as they are, alone or as a batch of reads.                     *)
Added(items, n) ==
  /\ n \in 1..MaxBatch /\ items \in [1..n -> Items] /\ history' = history \o items
  /\ \A i \in 1..n : items[i].ok =>
       \E c \in Asked :
         /\ items[i].tool = c.tool /\ items[i].path = c.path /\ items[i].arg = c.arg
         /\ TRUE \in Outcomes(c)
  /\ n > 1 => \A i \in 1..n : items[i].tool \in Reads

(* Every step empties the history, leaves it or adds to it.                 *)
LEMMA HistoryStep ==
  ASSUME HistoryTypeOK, [ToolGatesNext]_gateVars
  PROVE  \/ history' = <<>> \/ history' = history
         \/ \E n \in 1..MaxBatch : \E items \in [1..n -> Items] : Added(items, n)
<1> USE ToolGatesAssumptions
<1>1. ASSUME NEW c, c \in Asked,
             NEW ok \in BOOLEAN, ok => TRUE \in Outcomes(c),
             NEW item \in Item(c, ok), history' = Append(history, item)
      PROVE  \E n \in 1..MaxBatch : \E items \in [1..n -> Items] : Added(items, n)
  <2>1. Sound(c)
    <3>1. CASE c \in Calls
      BY <3>1, CallIs
    <3>2. CASE c \in ModeCalls
      BY <3>2, ModeCallIs
    <3> QED BY <1>1, <3>1, <3>2 DEF Asked
  <2>2. /\ item \in Items
        /\ item.tool = c.tool /\ item.path = c.path /\ item.arg = c.arg /\ item.ok = ok
    BY <1>1, <2>1, ItemIs
  <2> DEFINE items == <<item>>
  <2>3. items \in [1..1 -> Items] /\ items[1] = item /\ history' = history \o items
    BY <1>1, <2>2, AppendIs DEF HistoryTypeOK
  <2> HIDE DEF items
  <2>4. 1 \in 1..MaxBatch
    OBVIOUS
  <2>5. \A i \in 1..1 : items[i] = item
    BY <2>3
  <2>6. \A i \in 1..1 : items[i].ok =>
          \E d \in Asked :
            /\ items[i].tool = d.tool /\ items[i].path = d.path /\ items[i].arg = d.arg
            /\ TRUE \in Outcomes(d)
    BY <1>1, <2>2, <2>5, Zenon
  <2>7. ~ (1 > 1)
    OBVIOUS
  <2>8. Added(items, 1)
    BY <2>3, <2>4, <2>6, <2>7, Zenon DEF Added
  <2> QED BY <2>3, <2>4, <2>8
<1>2. ASSUME NEW c \in Calls, RunTool(c)
      PROVE  \E n \in 1..MaxBatch : \E items \in [1..n -> Items] : Added(items, n)
  <2>1. PICK allowed \in Outcomes(c), works \in BOOLEAN :
          \E item \in Item(c, allowed /\ works) : history' = Append(history, item)
    BY <1>2 DEF RunTool
  <2> DEFINE ok == allowed /\ works
  <2>2. ok \in BOOLEAN /\ (ok => TRUE \in Outcomes(c))
    <3>1. Outcomes(c) \subseteq BOOLEAN
      <4>1. PlanAllows(c) \in BOOLEAN /\ (c.path \in Scope) \in BOOLEAN
        BY DEF PlanAllows
      <4>2. {PlanAllows(c)} \subseteq BOOLEAN /\ {c.path \in Scope} \subseteq BOOLEAN
        BY <4>1, Zenon
      <4>3. {TRUE} \subseteq BOOLEAN /\ {FALSE} \subseteq BOOLEAN
        OBVIOUS
      <4>4. Permits(c) \subseteq BOOLEAN
        BY <4>2, <4>3, Zenon DEF Permits
      <4> QED BY <4>3, <4>4, Zenon DEF Outcomes
    <3> QED BY <2>1, <3>1
  <2>3. PICK item \in Item(c, ok) : history' = Append(history, item)
    BY <2>1
  <2>4. c \in Asked
    BY DEF Asked
  <2> HIDE DEF ok
  <2> QED BY <1>1, <2>2, <2>3, <2>4
<1>3. ASSUME NEW tool \in Modes, ModeTool(tool)
      PROVE  \E n \in 1..MaxBatch : \E items \in [1..n -> Items] : Added(items, n)
  <2> DEFINE c == Call(tool, "", {1})
  <2>1. TRUE \in Outcomes(c) /\ \E item \in Item(c, TRUE) : history' = Append(history, item)
    BY <1>3 DEF ModeTool
  <2>2. c \in Asked
    BY DEF ModeCalls, Asked
  <2> HIDE DEF c
  <2> QED BY <1>1, <2>1, <2>2
<1>4. CASE ReadBatch
  <2>1. PICK n \in 2..MaxBatch : \E batch \in [1..n -> {c \in Calls : c.tool \in Reads}] :
         \E ok \in [1..n -> BOOLEAN] :
              /\ \A i \in 1..n : ok[i] => TRUE \in Outcomes(batch[i])
              /\ \E items \in [1..n -> UNION {Item(batch[i], ok[i]) : i \in 1..n}] :
                   /\ \A i \in 1..n : items[i] \in Item(batch[i], ok[i])
                   /\ history' = history \o items
    BY <1>4, Zenon DEF ReadBatch
  <2>2. PICK batch \in [1..n -> {c \in Calls : c.tool \in Reads}] :
         \E ok \in [1..n -> BOOLEAN] :
              /\ \A i \in 1..n : ok[i] => TRUE \in Outcomes(batch[i])
              /\ \E items \in [1..n -> UNION {Item(batch[i], ok[i]) : i \in 1..n}] :
                   /\ \A i \in 1..n : items[i] \in Item(batch[i], ok[i])
                   /\ history' = history \o items
    BY <2>1, Zenon
  <2>3. PICK ok \in [1..n -> BOOLEAN] :
              /\ \A i \in 1..n : ok[i] => TRUE \in Outcomes(batch[i])
              /\ \E items \in [1..n -> UNION {Item(batch[i], ok[i]) : i \in 1..n}] :
                   /\ \A i \in 1..n : items[i] \in Item(batch[i], ok[i])
                   /\ history' = history \o items
    BY <2>2, Zenon
  <2>4. PICK items \in [1..n -> UNION {Item(batch[i], ok[i]) : i \in 1..n}] :
                   /\ \A i \in 1..n : items[i] \in Item(batch[i], ok[i])
                   /\ history' = history \o items
    BY <2>3, Zenon
  <2>5. \A i \in 1..n : batch[i] \in Calls /\ batch[i].tool \in Reads /\ ok[i] \in BOOLEAN
    BY Zenon
  <2>6. \A i \in 1..n :
          /\ items[i] \in Items /\ items[i].tool = batch[i].tool
          /\ items[i].path = batch[i].path /\ items[i].arg = batch[i].arg /\ items[i].ok = ok[i]
    BY <2>4, <2>5, CallIs, ItemIs, ZenonT(40)
  <2>7. items \in [1..n -> Items] /\ n \in 1..MaxBatch
    BY <2>6
  <2>8. \A i \in 1..n : items[i].ok =>
       \E c \in Asked :
         /\ items[i].tool = c.tool /\ items[i].path = c.path /\ items[i].arg = c.arg
         /\ TRUE \in Outcomes(c)
    <3> SUFFICES ASSUME NEW i \in 1..n, items[i].ok
                 PROVE  \E c \in Asked :
                   /\ items[i].tool = c.tool /\ items[i].path = c.path /\ items[i].arg = c.arg
                   /\ TRUE \in Outcomes(c)
      OBVIOUS
    <3>1. ok[i]
      BY <2>6, Zenon
    <3>2. batch[i] \in Asked /\ TRUE \in Outcomes(batch[i])
      BY <2>3, <2>5, <3>1 DEF Asked
    <3> QED BY <2>6, <3>2, Zenon
  <2>9. \A i \in 1..n : items[i].tool \in Reads
    BY <2>5, <2>6, Zenon
  <2>10. Added(items, n)
    BY <2>4, <2>7, <2>8, <2>9 DEF Added
  <2> QED BY <2>7, <2>10
<1> QED BY <1>2, <1>3, <1>4
     DEF ToolGatesNext, gateVars, Slash, SkillBegins, SkillEnds, TurnBegins, TurnEnds, Steered, Rebind

(* Every step keeps the history a sequence of items.                        *)
LEMMA HistoryTypeStep ==
  ASSUME HistoryTypeOK, [ToolGatesNext]_gateVars PROVE HistoryTypeOK'
<1>1. ASSUME NEW n \in 1..MaxBatch, NEW items \in [1..n -> Items], Added(items, n)
      PROVE  HistoryTypeOK'
  <2>1. n \in Nat
    BY ToolGatesAssumptions
  <2>2. items \in Seq(Items)
    BY <2>1
  <2>3. history \o items \in Seq(Items)
    BY <2>2 DEF HistoryTypeOK
  <2> QED BY <1>1, <2>3 DEF HistoryTypeOK, Added
<1>2. <<>> \in Seq(Items)
  OBVIOUS
<1> QED BY <1>1, <1>2, HistoryStep DEF HistoryTypeOK

(* The limits are positive numbers.                                         *)
LEMMA ToolGatesBounds ==
  /\ MaxReads \in Nat /\ MaxReads > 0 /\ MaxSearches \in Nat /\ MaxSearches > 0
  /\ MaxBatch \in Nat /\ MaxBatch > 0
<1> QED BY ToolGatesAssumptions

(* What a history that grew has where.                                      *)
LEMMA GrownIs ==
  ASSUME HistoryTypeOK, NEW n \in 1..MaxBatch, NEW items \in [1..n -> Items], Added(items, n)
  PROVE  /\ n \in Nat /\ Len(history) \in Nat /\ Len(history') = Len(history) + n
         /\ DOMAIN history = 1..Len(history) /\ DOMAIN history' = 1..(Len(history) + n)
         /\ \A i \in 1..Len(history) : history'[i] = history[i]
         /\ \A i \in (Len(history) + 1)..(Len(history) + n) :
              i - Len(history) \in 1..n /\ history'[i] = items[i - Len(history)]
<1>1. n \in Nat
  BY ToolGatesBounds
<1>2. items \in Seq(Items) /\ Len(items) = n
  BY <1>1
<1>3. history \in Seq(Items) /\ history' = history \o items
  BY DEF HistoryTypeOK, Added
<1>4. history \o items \in Seq(Items)
  BY <1>2, <1>3
<1>5. /\ Len(history) \in Nat /\ Len(history') = Len(history) + n
      /\ \A i \in 1..Len(history) : history'[i] = history[i]
      /\ \A i \in (Len(history) + 1)..(Len(history) + n) :
           i - Len(history) \in 1..n /\ history'[i] = items[i - Len(history)]
  <2> QED BY <1>1, <1>2, <1>3, ConcatIs
<1>6. DOMAIN history = 1..Len(history) /\ DOMAIN history' = 1..Len(history')
  BY <1>3, <1>4
<1> QED BY <1>1, <1>5, <1>6

(* A set of positions that grows by at most n of the new ones, and only     *)
(* while it is below the limit, stays below the limit and a batch.          *)
LEMMA CountGrows ==
  ASSUME NEW A, NEW B, NEW L \in Nat, NEW n \in Nat, NEW limit \in Nat, NEW most \in Nat,
         A \subseteq 1..L, n <= most, B \subseteq A \cup ((L + 1)..(L + n)),
         Cardinality(A) < limit + most,
         (\E i \in (L + 1)..(L + n) : i \in B) => Cardinality(A) < limit
  PROVE  Cardinality(B) < limit + most
<1> DEFINE N == (L + 1)..(L + n)
<1>1. IsFiniteSet(A) /\ Cardinality(A) \in Nat
  <2>1. IsFiniteSet(1..L)
    BY FS_Interval
  <2> QED BY <2>1, FS_Subset, FS_CardinalityType
<1>2. CASE \E i \in N : i \in B
  <2>1. IsFiniteSet(N) /\ Cardinality(N) = n
    <3>1. L + 1 \in Int /\ L + n \in Int
      OBVIOUS
    <3>2. /\ IsFiniteSet(N)
          /\ Cardinality(N) = IF L + 1 > L + n THEN 0 ELSE (L + n) - (L + 1) + 1
      BY <3>1, FS_Interval
    <3> QED BY <3>2
  <2>2. Cardinality(A \cap N) \in Nat /\ IsFiniteSet(A \cap N)
    BY <1>1, FS_Intersection, FS_CardinalityType
  <2>3. /\ IsFiniteSet(A \cup N)
        /\ Cardinality(A \cup N) = Cardinality(A) + Cardinality(N) - Cardinality(A \cap N)
    <3> HIDE DEF N
    <3> QED BY <1>1, <2>1, FS_Union
  <2>4. Cardinality(B) \in Nat /\ Cardinality(B) <= Cardinality(A \cup N)
    BY <2>3, FS_Subset, FS_CardinalityType
  <2>5. Cardinality(A \cup N) \in Nat
    BY <2>3, FS_CardinalityType
  <2> QED BY <1>1, <1>2, <2>1, <2>2, <2>3, <2>4, <2>5
<1>3. CASE ~ \E i \in N : i \in B
  <2>1. B \subseteq A
    BY <1>3
  <2>2. Cardinality(B) \in Nat /\ Cardinality(B) <= Cardinality(A)
    BY <1>1, <2>1, FS_Subset, FS_CardinalityType
  <2> QED BY <1>1, <2>2
<1> QED BY <1>2, <1>3

(* A call that passed was not refused as a repetition.                      *)
LEMMA PassedIsNew == ASSUME NEW c, TRUE \in Outcomes(c) PROVE ~ Repeated(c)
<1> QED BY Zenon DEF Outcomes

(* The limits on reads and searches survive what is added.                  *)
LEMMA BoundedStep ==
  ASSUME HistoryTypeOK, CallsBounded, [ToolGatesNext]_gateVars PROVE CallsBounded'
<1>1. ASSUME NEW n \in 1..MaxBatch, NEW items \in [1..n -> Items], Added(items, n)
      PROVE  CallsBounded'
  <2> DEFINE L == Len(history)
             N == (L + 1)..(L + n)
  <2>1. /\ n \in Nat /\ L \in Nat /\ Len(history') = L + n
        /\ DOMAIN history = 1..L /\ DOMAIN history' = 1..(L + n)
        /\ \A i \in 1..L : history'[i] = history[i]
        /\ \A i \in N : i - L \in 1..n /\ history'[i] = items[i - L]
    BY <1>1, GrownIs
  <2>2. n <= MaxBatch /\ MaxReads \in Nat /\ MaxSearches \in Nat /\ MaxBatch \in Nat
    BY ToolGatesBounds
  <2>3. \A i \in N : history'[i].ok =>
          \E c \in Asked :
            /\ history'[i].tool = c.tool /\ history'[i].path = c.path
            /\ history'[i].arg = c.arg /\ TRUE \in Outcomes(c)
    BY <1>1, <2>1, Zenon DEF Added
  <2>4. \A i \in 1..(L + n) : i \in 1..L \/ i \in N
    BY <2>1
  <2>5. \A i \in 1..L : i \in 1..(L + n)
    BY <2>1
  <2> HIDE DEF L, N
  <2>6. ASSUME NEW p \in Targets
        PROVE  Cardinality(ReadsSince(p)') < MaxReads + MaxBatch
    <3> DEFINE A == ReadsSince(p)
               B == ReadsSince(p)'
    <3>1. A \subseteq 1..L
      BY <2>1 DEF ReadsSince
    <3>2. B \subseteq A \cup N
      <4> SUFFICES ASSUME NEW i \in B, i \notin N PROVE i \in A
        OBVIOUS
      <4>1. /\ i \in DOMAIN history' /\ history'[i].tool = "read_file"
            /\ history'[i].path = p /\ history'[i].ok
            /\ \A j \in (i + 1)..Len(history') : ~Changes(history'[j], p)
        BY DEF ReadsSince
      <4>2. i \in 1..L
        BY <2>1, <2>4, <4>1
      <4>3. history'[i] = history[i]
        BY <2>1, <4>2
      <4>4. \A j \in (i + 1)..Len(history) :
              j \in (i + 1)..Len(history') /\ history'[j] = history[j]
        BY <2>1, <4>2 DEF L
      <4>5. \A j \in (i + 1)..Len(history) : ~Changes(history[j], p)
        BY <4>1, <4>4
      <4> QED BY <2>1, <4>1, <4>2, <4>3, <4>5 DEF ReadsSince
    <3>3. ASSUME NEW i \in N, i \in B
          PROVE  Cardinality(A) < MaxReads
      <4>1. history'[i].tool = "read_file" /\ history'[i].path = p /\ history'[i].ok
        BY <3>3 DEF ReadsSince
      <4>2. PICK c \in Asked :
              /\ history'[i].tool = c.tool /\ history'[i].path = c.path /\ TRUE \in Outcomes(c)
        BY <2>3, <4>1
      <4>3. ~ Repeated(c) /\ c.tool = "read_file" /\ c.path = p
        BY <4>1, <4>2, PassedIsNew
      <4>4. ~ ReadRefused(c)
        <5>1. "read_file" # "search" /\ "read_file" \notin Writes
          BY DEF Writes
        <5> QED BY <4>3, <5>1, Zenon DEF Repeated
      <4>5. ~ (Cardinality(A) >= MaxReads)
        BY <4>3, <4>4 DEF ReadRefused
      <4>6. Cardinality(A) \in Nat
        <5>1. IsFiniteSet(1..L)
          <6>1. L \in Int /\ 1 \in Int
            BY <2>1
          <6> HIDE DEF L
          <6> QED BY <6>1, FS_Interval
        <5> HIDE DEF A
        <5> QED BY <3>1, <5>1, FS_Subset, FS_CardinalityType
      <4> QED BY <2>2, <4>5, <4>6
    <3>4. Cardinality(A) < MaxReads + MaxBatch
      BY DEF CallsBounded
    <3> HIDE DEF A, B
    <3>5. Cardinality(B) < MaxReads + MaxBatch
      BY <2>1, <2>2, <3>1, <3>2, <3>3, <3>4, CountGrows DEF N
    <3> QED BY <3>5 DEF B
  <2>7. Cardinality({i \in DOMAIN history' : history'[i].tool = "search" /\ history'[i].ok})
          < MaxSearches + MaxBatch
    <3> DEFINE A == {i \in DOMAIN history : history[i].tool = "search" /\ history[i].ok}
               B == {i \in DOMAIN history' : history'[i].tool = "search" /\ history'[i].ok}
               all == {i \in DOMAIN history : history[i].tool = "search"}
    <3>1. A \subseteq 1..L /\ A \subseteq all /\ all \subseteq 1..L
      BY <2>1
    <3>2. B \subseteq A \cup N
      BY <2>1, <2>4
    <3>3. Cardinality(A) \in Nat /\ Cardinality(all) \in Nat /\ Cardinality(A) <= Cardinality(all)
      <4>1. IsFiniteSet(1..L)
        BY <2>1, FS_Interval
      <4> HIDE DEF A, all
      <4>2. IsFiniteSet(all)
        BY <3>1, <4>1, FS_Subset
      <4> QED BY <3>1, <4>2, FS_Subset, FS_CardinalityType
    <3>4. ASSUME NEW i \in N, i \in B
          PROVE  Cardinality(A) < MaxSearches
      <4>1. history'[i].tool = "search" /\ history'[i].ok
        BY <3>4
      <4>2. PICK c \in Asked : history'[i].tool = c.tool /\ TRUE \in Outcomes(c)
        BY <2>3, <4>1
      <4>3. ~ Repeated(c) /\ c.tool = "search"
        BY <4>1, <4>2, PassedIsNew
      <4>4. ~ (Cardinality(all) >= MaxSearches)
        <5>1. "search" # "read_file" /\ "search" \notin Writes
          BY DEF Writes
        <5> QED BY <4>3, <5>1, Zenon DEF Repeated
      <4> HIDE DEF A, all
      <4> QED BY <2>2, <3>3, <4>4
    <3>5. Cardinality(A) < MaxSearches + MaxBatch
      BY DEF CallsBounded
    <3> HIDE DEF A, B
    <3>6. Cardinality(B) < MaxSearches + MaxBatch
      BY <2>1, <2>2, <3>1, <3>2, <3>4, <3>5, CountGrows DEF N
    <3> QED BY <3>6 DEF B
  <2> QED BY <2>6, <2>7 DEF CallsBounded
<1>2. CASE history' = history
  BY <1>2 DEF CallsBounded, ReadsSince, Changes
<1>3. CASE history' = <<>>
  <2>1. DOMAIN history' = {}
    BY <1>3
  <2>2. \A p \in Targets : ReadsSince(p)' = {}
    BY <2>1 DEF ReadsSince
  <2>3. {i \in DOMAIN history' : history'[i].tool = "search" /\ history'[i].ok} = {}
    BY <2>1
  <2>4. Cardinality({}) = 0 /\ 0 < MaxReads + MaxBatch /\ 0 < MaxSearches + MaxBatch
    BY FS_EmptySet, ToolGatesBounds
  <2> QED BY <2>2, <2>3, <2>4 DEF CallsBounded
<1> QED BY <1>1, <1>2, <1>3, HistoryStep

(* A write that passed although it is in the history was refused or failed  *)
(* the last time, and its file was read after that.                         *)
LEMMA WriteWasInformed ==
  ASSUME HistoryTypeOK, NEW c, c.tool \in Writes, TRUE \in Outcomes(c),
         NEW i \in Same(c)
  PROVE  \E k \in i..Len(history) :
           history[k].tool = "read_file" /\ history[k].path = c.path /\ history[k].ok
<1> DEFINE L == Len(history)
           last == CHOOSE m \in Same(c) : \A j \in Same(c) : j <= m
<1>1. L \in Nat /\ DOMAIN history = 1..L
  BY DEF HistoryTypeOK
<1>2. Same(c) \in SUBSET Nat /\ Same(c) # {} /\ \A j \in Same(c) : j <= L
  BY <1>1 DEF Same
<1>3. last \in Same(c) /\ \A j \in Same(c) : j <= last
  <2>1. \E m \in Same(c) : \A j \in Same(c) : j <= m
    <3> HIDE DEF L
    <3> QED BY <1>1, <1>2, GreatestMember
  <2> QED BY <2>1
<1>4. Informed(c, last)
  <2>1. ~ Repeated(c)
    BY PassedIsNew
  <2>2. c.tool # "search" /\ c.tool # "read_file"
    BY DEF Writes
  <2>3. ~ WriteRefused(c)
    BY <2>1, <2>2, Zenon DEF Repeated
  <2> QED BY <1>2, <2>3, Zenon DEF WriteRefused
<1>5. PICK k \in (last + 1)..L :
        history[k].tool = "read_file" /\ history[k].path = c.path /\ history[k].ok
  BY <1>4 DEF Informed
<1>6. i \in Nat /\ last \in Nat /\ i <= last
  BY <1>2, <1>3
<1> HIDE DEF last, L
<1>7. k \in i..L
  BY <1>1, <1>5, <1>6
<1> QED BY <1>5, <1>7 DEF L

(* What is added repeats no write that succeeded.                           *)
LEMMA RepeatStep ==
  ASSUME HistoryTypeOK, RepeatNeedsRead, [ToolGatesNext]_gateVars PROVE RepeatNeedsRead'
<1>1. ASSUME NEW n \in 1..MaxBatch, NEW items \in [1..n -> Items], Added(items, n)
      PROVE  RepeatNeedsRead'
  <2> DEFINE L == Len(history)
             N == (L + 1)..(L + n)
             ReadAt(h, k, p) == h[k].tool = "read_file" /\ h[k].ok /\ h[k].path = p
  <2>1. /\ n \in Nat /\ L \in Nat /\ Len(history') = L + n
        /\ DOMAIN history = 1..L /\ DOMAIN history' = 1..(L + n)
        /\ \A i \in 1..L : history'[i] = history[i]
        /\ \A i \in N : i - L \in 1..n /\ history'[i] = items[i - L]
    BY <1>1, GrownIs
  <2>2. \A i \in 1..(L + n) : i \in 1..L \/ i \in N
    BY <2>1
  <2> SUFFICES ASSUME NEW i \in DOMAIN history', NEW j \in DOMAIN history',
                      i < j, history'[i].ok, history'[j].ok, history'[i].tool \in Writes,
                      history'[i].tool = history'[j].tool, history'[i].path = history'[j].path,
                      history'[i].arg = history'[j].arg
               PROVE  \E k \in i..j : ReadAt(history', k, history'[i].path)
    BY DEF RepeatNeedsRead
  <2>3. CASE j \in 1..L
    <3>1. i \in 1..L
      BY <2>1, <2>3
    <3>2. history'[i] = history[i] /\ history'[j] = history[j]
      BY <2>1, <2>3, <3>1
    <3>3. PICK k \in i..j : ReadAt(history, k, history[i].path)
      BY <2>1, <2>3, <3>1, <3>2 DEF RepeatNeedsRead
    <3>4. k \in 1..L
      BY <2>1, <2>3, <3>1
    <3> QED BY <2>1, <3>2, <3>3, <3>4
  <2>4. CASE j \in N
    <3>1. history'[j] = items[j - L] /\ j - L \in 1..n
      BY <2>1, <2>4
    <3>2. n = 1
      <4>1. \A t \in Writes : t \notin Reads
        BY DEF Reads, Writes
      <4>2. ~ (n > 1)
        BY <1>1, <3>1, <4>1 DEF Added
      <4> QED BY <2>1, <4>2, <1>1
    <3>3. j = L + 1 /\ i \in 1..L
      BY <2>1, <2>4, <3>2
    <3>4. PICK c \in Asked :
            /\ history'[j].tool = c.tool /\ history'[j].path = c.path
            /\ history'[j].arg = c.arg /\ TRUE \in Outcomes(c)
      BY <1>1, <3>1, ZenonT(40) DEF Added
    <3>5. history'[i] = history[i]
      BY <2>1, <3>3
    <3>6. i \in Same(c)
      BY <2>1, <3>3, <3>4, <3>5 DEF Same
    <3>7. c.tool \in Writes /\ c.path = history'[i].path
      BY <3>4
    <3>8. PICK k \in i..L : ReadAt(history, k, c.path)
      BY <3>4, <3>6, <3>7, WriteWasInformed
    <3>9. k \in i..j /\ k \in 1..L
      BY <2>1, <3>3, <3>8
    <3>10. ReadAt(history', k, history'[i].path)
      BY <2>1, <3>7, <3>8, <3>9
    <3> QED BY <3>9, <3>10
  <2> QED BY <2>1, <2>2, <2>3, <2>4
<1>2. CASE history' = history
  BY <1>2 DEF RepeatNeedsRead
<1>3. CASE history' = <<>>
  BY <1>3 DEF RepeatNeedsRead
<1> QED BY <1>1, <1>2, <1>3, HistoryStep

(* As long as no skill may change the mode, no profile that a skill or a    *)
(* question will put back leads out of plan mode.                           *)
Profiles == {"default", "plan", "readonly", "skill"}
ProfileTypeOK ==
  /\ mode \in {"default", "plan"} /\ artifact \in Artifacts \cup {"none"}
  /\ profile \in Profiles /\ skill \in Profiles \cup {"none"}
  /\ question \in Profiles \cup {"none"}

ProfileHolds ==
  SkillTools \cap Modes = {} =>
    /\ question # "none" => inTurn /\ profile = "readonly"
    /\ skill # "none" =>
         profile \in {"skill", "readonly"} /\ question \in {"none", "skill", "readonly"}
    /\ mode = "plan" => profile # "default" /\ skill # "default" /\ question # "default"

GatesInv ==
  HistoryTypeOK /\ ProfileTypeOK /\ RepeatNeedsRead /\ CallsBounded /\ ProfileHolds

(* A turn begins with every gate satisfied.                                 *)
LEMMA ToolGatesInitInv == ToolGatesInit => GatesInv
<1> SUFFICES ASSUME ToolGatesInit PROVE GatesInv
  OBVIOUS
<1>1. history = <<>> /\ DOMAIN history = {}
  BY DEF ToolGatesInit
<1>2. HistoryTypeOK /\ RepeatNeedsRead
  BY <1>1 DEF HistoryTypeOK, RepeatNeedsRead
<1>3. CallsBounded
  <2>1. \A p \in Targets : ReadsSince(p) = {}
    BY <1>1 DEF ReadsSince
  <2>2. {i \in DOMAIN history : history[i].tool = "search" /\ history[i].ok} = {}
    BY <1>1
  <2>3. Cardinality({}) = 0 /\ 0 < MaxReads + MaxBatch /\ 0 < MaxSearches + MaxBatch
    BY FS_EmptySet, ToolGatesBounds
  <2> QED BY <2>1, <2>2, <2>3 DEF CallsBounded
<1>4. ProfileTypeOK /\ ProfileHolds
  BY DEF ToolGatesInit, FirstProfile, ProfileTypeOK, Profiles, ProfileHolds
<1> QED BY <1>2, <1>3, <1>4 DEF GatesInv

(* What profile a mode tool can be called under, when skills have none.     *)
LEMMA ModeToolIs ==
  ASSUME NEW tool \in Modes, ModeTool(tool), SkillTools \cap Modes = {}, profile \in Profiles
  PROVE  /\ profile \in {"default", "plan"}
         /\ tool = "enter_plan_mode" => profile = "default"
<1> DEFINE c == Call(tool, "", {1})
<1>1. TRUE \in Outcomes(c) /\ c.tool = tool
  BY CallFields, ZenonT(40) DEF ModeTool
<1> HIDE DEF c
<1>2. TRUE \in Permits(c)
  <2>1. ~ Repeated(c) /\ c.tool \notin Writes \cup {"run_shell"}
    BY <1>1, PassedIsNew DEF Modes, Writes
  <2> QED BY <1>1, <2>1, Zenon DEF Outcomes
<1>3. tool \in ToolsOf(profile)
  BY <1>1, <1>2, Zenon DEF Permits
<1>4. \A t \in Modes : t \notin Reads /\ t \notin SkillTools
  BY DEF Reads, Modes
<1>5. "enter_plan_mode" \notin Reads \cup Writes \cup {"exit_plan_mode"}
  BY DEF Reads, Writes
<1>6. profile # "readonly" /\ profile # "skill"
  BY <1>3, <1>4 DEF ToolsOf
<1>7. tool = "enter_plan_mode" => profile # "plan"
  BY <1>3, <1>5 DEF ToolsOf
<1> QED BY <1>6, <1>7 DEF Profiles

(* Every step keeps the mode and the profiles as they must be.              *)
LEMMA ProfileStep ==
  ASSUME ProfileTypeOK, ProfileHolds, [ToolGatesNext]_gateVars
  PROVE  ProfileTypeOK' /\ ProfileHolds'
<1> USE DEF ProfileTypeOK, ProfileHolds, Profiles
<1>1. CASE UNCHANGED <<mode, artifact, profile, skill, question, inTurn>>
  BY <1>1
<1>2. ASSUME NEW tool \in Modes, ModeTool(tool) PROVE ProfileTypeOK' /\ ProfileHolds'
  <2>1. UNCHANGED <<skill, question, inTurn>>
    BY <1>2 DEF ModeTool, turnVars
  <2>2. \/ /\ tool = "enter_plan_mode" /\ mode' = "plan" /\ profile' = "plan"
           /\ artifact' \in Artifacts
        \/ /\ tool # "enter_plan_mode" /\ mode' = "default" /\ profile' = "default"
           /\ artifact' = "none"
    BY <1>2 DEF ModeTool, Enter, Exit
  <2>3. SkillTools \cap Modes = {} =>
          profile \in {"default", "plan"} /\ (tool = "enter_plan_mode" => profile = "default")
    BY <1>2, ModeToolIs
  <2> QED BY <2>1, <2>2, <2>3
<1>3. CASE Slash
  <2>1. /\ UNCHANGED <<skill, question, inTurn>> /\ ~ inTurn /\ skill = "none"
        /\ \/ mode' = "plan" /\ profile' = "plan" /\ artifact' \in Artifacts
           \/ mode' = "default" /\ profile' = "default" /\ artifact' = "none"
    BY <1>3 DEF Slash, turnVars, Enter, Exit
  <2> QED BY <2>1
<1>4. CASE SkillBegins
  BY <1>4 DEF SkillBegins
<1>5. CASE SkillEnds
  BY <1>5 DEF SkillEnds
<1>6. ASSUME NEW readonly \in BOOLEAN, TurnBegins(readonly)
      PROVE  ProfileTypeOK' /\ ProfileHolds'
  <2>1. /\ UNCHANGED <<mode, artifact, skill>> /\ ~ inTurn /\ inTurn'
        /\ \/ question' = profile /\ profile' = "readonly"
           \/ UNCHANGED <<question, profile>>
    BY <1>6 DEF TurnBegins
  <2> QED BY <2>1
<1>7. CASE TurnEnds
  <2>1. /\ UNCHANGED <<mode, artifact, skill>> /\ inTurn /\ question' = "none"
        /\ \/ question = "none" /\ profile' = profile
           \/ question # "none" /\ profile' = question
    BY <1>7 DEF TurnEnds
  <2> QED BY <2>1
<1>8. CASE Rebind
  BY <1>8 DEF Rebind, FirstProfile
<1>9. ASSUME NEW c \in Calls, RunTool(c)
      PROVE  UNCHANGED <<mode, artifact, profile, skill, question, inTurn>>
  BY <1>9 DEF RunTool, turnVars
<1>10. CASE ReadBatch
  <2>1. UNCHANGED <<mode, artifact, profile, skill, question, inTurn>>
    BY <1>10 DEF ReadBatch, turnVars
  <2> QED BY <1>1, <2>1
<1>11. CASE Steered
  <2>1. UNCHANGED <<mode, artifact, profile, skill, question, inTurn>>
    BY <1>11 DEF Steered, turnVars
  <2> QED BY <1>1, <2>1
<1> HIDE DEF ProfileTypeOK, ProfileHolds
<1> QED BY <1>1, <1>2, <1>3, <1>4, <1>5, <1>6, <1>7, <1>8, <1>9, <1>10, <1>11
     DEF ToolGatesNext, gateVars

(* The invariant holds throughout a turn.                                   *)
LEMMA ToolGatesInvariant == ToolGatesSpec => []GatesInv
<1>1. ToolGatesInit => GatesInv
  BY ToolGatesInitInv
<1>2. GatesInv /\ [ToolGatesNext]_gateVars => GatesInv'
  BY HistoryTypeStep, RepeatStep, BoundedStep, ProfileStep DEF GatesInv
<1> QED BY <1>1, <1>2, PTL DEF ToolGatesSpec

(* A turn repeats no successful write without having read the file in       *)
(* between, and no read or search beyond its limit by more than a batch,    *)
(* whose calls do not see each other (tool_repetition.py,                   *)
(* parallel_tools.py).                                                      *)
THEOREM RepeatedCallsAreRefused == ToolGatesSpec => []CallsAreGated
<1>1. GatesInv => CallsAreGated
  BY DEF GatesInv, CallsAreGated
<1> QED BY <1>1, ToolGatesInvariant, PTL

(* The type invariant of the gates.                                         *)
LEMMA ToolGatesTypes == GatesInv => ToolGatesTypeOK
<1> SUFFICES ASSUME GatesInv PROVE ToolGatesTypeOK
  OBVIOUS
<1>1. ASSUME NEW i \in DOMAIN history
      PROVE  history[i].tool \in AllTools /\ history[i].ok \in BOOLEAN
  <2>1. history[i] \in Items
    BY DEF GatesInv, HistoryTypeOK
  <2> QED BY <2>1, Zenon DEF Items
<1> QED BY <1>1 DEF GatesInv, ProfileTypeOK, Profiles, ToolGatesTypeOK

(* In plan mode nothing but the active artifact is written, and no call     *)
(* makes another file the active artifact, unless a skill may enter plan    *)
(* mode itself (plan_mode.py, permissions.py).                              *)
THEOREM PlanModeIsKept == ToolGatesSpec => PlanModeHolds
<1> DEFINE Kept == mode = "plan" /\ Len(history') > Len(history) =>
       /\ mode' = "plan" /\ SkillTools \cap Modes = {} => artifact' = artifact
       /\ \A i \in Len(history) + 1..Len(history') :
            history'[i].ok /\ history'[i].tool \in Writes \cup {"run_shell"} =>
              history'[i].path = artifact
<1>1. ASSUME GatesInv, [ToolGatesNext]_gateVars PROVE Kept
  <2> SUFFICES ASSUME mode = "plan", Len(history') > Len(history)
               PROVE  /\ mode' = "plan" /\ SkillTools \cap Modes = {} => artifact' = artifact
                      /\ \A i \in Len(history) + 1..Len(history') :
                           history'[i].ok /\ history'[i].tool \in Writes \cup {"run_shell"} =>
                             history'[i].path = artifact
    OBVIOUS
  <2>1. PICK n \in 1..MaxBatch : \E items \in [1..n -> Items] : Added(items, n)
    <3>1. Len(history) \in Nat /\ Len(<<>>) = 0
      BY <1>1 DEF GatesInv, HistoryTypeOK
    <3>2. history' # <<>> /\ history' # history
      BY <3>1
    <3> QED BY <1>1, <3>2, HistoryStep DEF GatesInv
  <2> PICK items \in [1..n -> Items] : Added(items, n)
    BY <2>1
  <2>2. ASSUME NEW i \in Len(history) + 1..Len(history'),
               history'[i].ok, history'[i].tool \in Writes \cup {"run_shell"}
        PROVE  history'[i].path = artifact
    <3>1. i - Len(history) \in 1..n /\ history'[i] = items[i - Len(history)]
      BY <1>1, <2>1, GrownIs DEF GatesInv
    <3>2. PICK c \in Asked :
            /\ history'[i].tool = c.tool /\ history'[i].path = c.path /\ TRUE \in Outcomes(c)
      BY <2>1, <2>2, <3>1, ZenonT(40) DEF Added
    <3>3. TRUE \in Permits(c)
      <4>1. ~ Repeated(c)
        BY <3>2, PassedIsNew
      <4> QED BY <3>2, <4>1, Zenon DEF Outcomes
    <3>4. PlanAllows(c)
      BY <3>3, Zenon DEF Permits
    <3>5. c.tool \notin Reads \cup Modes
      BY <2>2, <3>2 DEF Reads, Modes, Writes
    <3> QED BY <3>2, <3>4, <3>5 DEF PlanAllows
  <2>3. ASSUME mode' = "plan", SkillTools \cap Modes = {} PROVE artifact' = artifact
    <3>1. history' # <<>> /\ history' # history
      <4>1. Len(history) \in Nat /\ Len(<<>>) = 0
        BY <1>1 DEF GatesInv, HistoryTypeOK
      <4> QED BY <4>1
    <3>2. ASSUME NEW tool \in Modes, ModeTool(tool) PROVE artifact' = artifact
      <4>1. tool # "enter_plan_mode"
        BY <1>1, <2>3, <3>2, ModeToolIs DEF GatesInv, ProfileTypeOK, ProfileHolds
      <4>2. mode' = "default"
        BY <3>2, <4>1 DEF ModeTool, Exit
      <4> QED BY <2>3, <4>2
    <3>3. ASSUME NEW c \in Calls, RunTool(c) PROVE artifact' = artifact
      BY <3>3 DEF RunTool
    <3>4. CASE ReadBatch
      BY <3>4 DEF ReadBatch
    <3> QED BY <1>1, <3>1, <3>2, <3>3, <3>4
         DEF ToolGatesNext, gateVars, Slash, SkillBegins, SkillEnds, TurnBegins, TurnEnds, Steered,
             Rebind
  <2> QED BY <2>2, <2>3
<1>2. GatesInv /\ [ToolGatesNext]_gateVars => [Kept]_gateVars
  BY <1>1
<1> QED BY <1>2, ToolGatesInvariant, PTL DEF ToolGatesSpec, PlanModeHolds

-----------------------------------------------------------------------------
(***************************************************************************)
(* SessionState, for any files, sessions and changes: no prompt goes out   *)
(* with an outdated reading unmentioned, and no summary is saved without   *)
(* the reading it sums up.                                                 *)
(***************************************************************************)

(* A session has the notes of every file. *)
IsSession(s) ==
  /\ s = [read |-> s.read, told |-> s.told, summary |-> s.summary, recent |-> s.recent,
          checkpoint |-> s.checkpoint]
  /\ DOMAIN s.read = KnownFiles /\ DOMAIN s.summary = KnownFiles
  /\ s.read = [f \in KnownFiles |-> s.read[f]]
  /\ s.summary = [f \in KnownFiles |-> s.summary[f]]

(* Of file f: a summary comes with its reading, and a reading without its   *)
(* summary was called stale or is excused.                                  *)
Honest(s, f, e) ==
  /\ s.summary[f] # 0 => s.read[f] = s.summary[f]
  /\ f \notin s.told /\ f \notin e => s.read[f] \in {0, s.summary[f]}

(* The tool that ran last changed the notes of one file, and nothing is     *)
(* recorded yet.                                                            *)
NotesAhead(f) == step = "ran" /\ wrote[1] \in {"read", "write"} /\ wrote[2] = f
ToolResults == {"read", "write", "other"} \X KnownFiles

SessionInv ==
  /\ IsSession(mem) /\ cur \in Sessions
  /\ DOMAIN stored = Sessions /\ \A s \in Sessions : IsSession(stored[s])
  /\ DOMAIN excused = Sessions
  /\ step = "ran" =>
       wrote \in ToolResults /\ (wrote[1] = "write" => mem.summary[wrote[2]] = 0)
  /\ \A s \in Sessions, f \in KnownFiles : Honest(stored[s], f, excused[s])
  /\ \A f \in KnownFiles : NotesAhead(f) \/ Honest(mem, f, excused[cur])

(* A new session has read nothing, and so says nothing wrong.               *)
LEMMA NewSessionIs ==
  /\ IsSession(NewSession)
  /\ \A e : \A f \in KnownFiles : Honest(NewSession, f, e)
<1>1. /\ NewSession.read = Nothing /\ NewSession.summary = Nothing
      /\ NewSession.told = {} /\ NewSession.recent = <<>>
      /\ NewSession.checkpoint = NoCheckpoint
  BY DEF NewSession
<1>2. DOMAIN Nothing = KnownFiles /\ Nothing = [f \in KnownFiles |-> Nothing[f]]
      /\ \A f \in KnownFiles : Nothing[f] = 0
  BY DEF Nothing
<1>3. NewSession = [read |-> NewSession.read, told |-> NewSession.told,
                    summary |-> NewSession.summary, recent |-> NewSession.recent,
                    checkpoint |-> NewSession.checkpoint]
  BY <1>1 DEF NewSession
<1> QED BY <1>1, <1>2, <1>3 DEF IsSession, Honest

(* What a change of one part of a session leaves. *)
SameNotes(t, s) == t.read = s.read /\ t.told = s.told /\ t.summary = s.summary

(* A checkpoint leaves what a session knows of its files alone.             *)
LEMMA WithCheckpointIs ==
  ASSUME NEW s, IsSession(s), NEW c
  PROVE  LET t == [s EXCEPT !.checkpoint = c] IN IsSession(t) /\ SameNotes(t, s)
<1> DEFINE t == [s EXCEPT !.checkpoint = c]
<1>1. s = [read |-> s.read, told |-> s.told, summary |-> s.summary, recent |-> s.recent,
           checkpoint |-> s.checkpoint]
  BY DEF IsSession
<1>2. t = [read |-> s.read, told |-> s.told, summary |-> s.summary, recent |-> s.recent,
           checkpoint |-> c]
  BY <1>1
<1>3. /\ t.read = s.read /\ t.told = s.told /\ t.summary = s.summary /\ t.recent = s.recent
      /\ t.checkpoint = c
  BY <1>2
<1> HIDE DEF t
<1> QED BY <1>2, <1>3 DEF IsSession, SameNotes, t

(* So does what the session was told, except for that.                      *)
LEMMA WithToldIs ==
  ASSUME NEW s, IsSession(s), NEW told
  PROVE  LET t == [s EXCEPT !.told = told]
         IN  IsSession(t) /\ t.read = s.read /\ t.told = told /\ t.summary = s.summary
<1> DEFINE t == [s EXCEPT !.told = told]
<1>1. s = [read |-> s.read, told |-> s.told, summary |-> s.summary, recent |-> s.recent,
           checkpoint |-> s.checkpoint]
  BY DEF IsSession
<1>2. t = [read |-> s.read, told |-> told, summary |-> s.summary, recent |-> s.recent,
           checkpoint |-> s.checkpoint]
  BY <1>1
<1>3. /\ t.read = s.read /\ t.told = told /\ t.summary = s.summary /\ t.recent = s.recent
      /\ t.checkpoint = s.checkpoint
  BY <1>2
<1> HIDE DEF t
<1> QED BY <1>2, <1>3 DEF IsSession, t

(* The summaries whose files have changed are dropped, and only those.      *)
LEMMA PrunedIs ==
  ASSUME NEW s, IsSession(s)
  PROVE  LET t == Pruned(s)
         IN  /\ IsSession(t) /\ t.read = s.read /\ t.told = s.told
             /\ \A f \in KnownFiles :
                  t.summary[f] = IF f \in Invalidated(s) THEN 0 ELSE s.summary[f]
<1> DEFINE t == Pruned(s)
           sums == [f \in KnownFiles |-> IF f \in Invalidated(s) THEN 0 ELSE s.summary[f]]
<1>1. s = [read |-> s.read, told |-> s.told, summary |-> s.summary, recent |-> s.recent,
           checkpoint |-> s.checkpoint]
  BY DEF IsSession
<1>2. t = [s EXCEPT !.summary = sums]
  BY DEF Pruned
<1>3. DOMAIN sums = KnownFiles /\ sums = [f \in KnownFiles |-> sums[f]]
  OBVIOUS
<1>4. \A f \in KnownFiles : sums[f] = IF f \in Invalidated(s) THEN 0 ELSE s.summary[f]
  OBVIOUS
<1> HIDE DEF sums, t
<1>5. t = [read |-> s.read, told |-> s.told, summary |-> sums, recent |-> s.recent,
           checkpoint |-> s.checkpoint]
  BY <1>1, <1>2
<1>6. /\ t.read = s.read /\ t.told = s.told /\ t.summary = sums /\ t.recent = s.recent
      /\ t.checkpoint = s.checkpoint
  BY <1>5
<1> QED BY <1>3, <1>4, <1>5, <1>6 DEF IsSession, t

(* The recent files are no part of what a session says of a file.           *)
LEMMA WithRecentIs ==
  ASSUME NEW s, IsSession(s), NEW c
  PROVE  LET t == [s EXCEPT !.recent = c] IN IsSession(t) /\ SameNotes(t, s)
<1> DEFINE t == [s EXCEPT !.recent = c]
<1>1. s = [read |-> s.read, told |-> s.told, summary |-> s.summary, recent |-> s.recent,
           checkpoint |-> s.checkpoint]
  BY DEF IsSession
<1>2. t = [read |-> s.read, told |-> s.told, summary |-> s.summary, recent |-> c,
           checkpoint |-> s.checkpoint]
  BY <1>1
<1>3. /\ t.read = s.read /\ t.told = s.told /\ t.summary = s.summary /\ t.recent = c
      /\ t.checkpoint = s.checkpoint
  BY <1>2
<1> HIDE DEF t
<1> QED BY <1>2, <1>3 DEF IsSession, SameNotes, t

(* A summary is set for one file.                                           *)
LEMMA WithSummaryIs ==
  ASSUME NEW s, IsSession(s), NEW f \in KnownFiles, NEW v
  PROVE  LET t == [s EXCEPT !.summary[f] = v]
         IN  /\ IsSession(t) /\ t.read = s.read /\ t.told = s.told
             /\ \A g \in KnownFiles : t.summary[g] = IF g = f THEN v ELSE s.summary[g]
<1> DEFINE t == [s EXCEPT !.summary[f] = v]
           sums == [s.summary EXCEPT ![f] = v]
<1>1. s = [read |-> s.read, told |-> s.told, summary |-> s.summary, recent |-> s.recent,
           checkpoint |-> s.checkpoint]
  BY DEF IsSession
<1>2. /\ DOMAIN sums = KnownFiles /\ sums = [g \in KnownFiles |-> sums[g]]
      /\ \A g \in KnownFiles : sums[g] = IF g = f THEN v ELSE s.summary[g]
  BY DEF IsSession
<1>3. t = [read |-> s.read, told |-> s.told, summary |-> sums, recent |-> s.recent,
           checkpoint |-> s.checkpoint]
  BY <1>1
<1> HIDE DEF sums, t
<1>4. /\ t.read = s.read /\ t.told = s.told /\ t.summary = sums /\ t.recent = s.recent
      /\ t.checkpoint = s.checkpoint
  BY <1>3
<1> QED BY <1>2, <1>3, <1>4 DEF IsSession, t

(* A reading is noted for one file.                                         *)
LEMMA WithReadIs ==
  ASSUME NEW s, IsSession(s), NEW f \in KnownFiles, NEW v
  PROVE  LET t == [s EXCEPT !.read[f] = v]
         IN  /\ IsSession(t) /\ t.summary = s.summary /\ t.told = s.told
             /\ \A g \in KnownFiles : t.read[g] = IF g = f THEN v ELSE s.read[g]
<1> DEFINE t == [s EXCEPT !.read[f] = v]
           reads == [s.read EXCEPT ![f] = v]
<1>1. s = [read |-> s.read, told |-> s.told, summary |-> s.summary, recent |-> s.recent,
           checkpoint |-> s.checkpoint]
  BY DEF IsSession
<1>2. /\ DOMAIN reads = KnownFiles /\ reads = [g \in KnownFiles |-> reads[g]]
      /\ \A g \in KnownFiles : reads[g] = IF g = f THEN v ELSE s.read[g]
  BY DEF IsSession
<1>3. t = [read |-> reads, told |-> s.told, summary |-> s.summary, recent |-> s.recent,
           checkpoint |-> s.checkpoint]
  BY <1>1
<1> HIDE DEF reads, t
<1>4. /\ t.read = reads /\ t.told = s.told /\ t.summary = s.summary /\ t.recent = s.recent
      /\ t.checkpoint = s.checkpoint
  BY <1>3
<1> QED BY <1>2, <1>3, <1>4 DEF IsSession, t

-----------------------------------------------------------------------------
(* Honesty of the same notes, and of what is left of them.                  *)
LEMMA HonestSame ==
  ASSUME NEW s, NEW t, NEW f, NEW e, NEW more, Honest(s, f, e), SameNotes(t, s), e \subseteq more
  PROVE  Honest(t, f, more)
<1> QED BY DEF Honest, SameNotes

(* A session that drops a summary and says so stays honest.                 *)
LEMMA HonestPruned ==
  ASSUME NEW s, NEW t, NEW f, NEW e, NEW more, Honest(s, f, e), NEW gone,
         t.read = s.read, s.told \subseteq t.told, e \subseteq more,
         t.summary[f] = (IF f \in gone THEN 0 ELSE s.summary[f]),
         gone \subseteq t.told \cup more
  PROVE  Honest(t, f, more)
<1>1. CASE f \in gone
  BY <1>1 DEF Honest
<1>2. CASE f \notin gone
  BY <1>2 DEF Honest
<1> QED BY <1>1, <1>2

(* Nothing of the notes changes, and no tool ran. *)
LEMMA KeepsNotes ==
  ASSUME SessionInv, UNCHANGED <<mem, stored, cur, excused>>, step # "ran", step' # "ran"
  PROVE  SessionInv'
<1> QED BY DEF SessionInv, NotesAhead, Honest, IsSession

(* The session in memory is changed and saved. *)
LEMMA SavesNotes ==
  ASSUME SessionInv, cur' = cur, step' # "ran", NEW m, Save(m), IsSession(m),
         DOMAIN excused' = Sessions,
         \A s \in Sessions : s # cur => excused'[s] = excused[s],
         \A f \in KnownFiles : Honest(m, f, excused'[cur])
  PROVE  SessionInv'
<1>1. mem' = m /\ stored' = [stored EXCEPT ![cur] = m] /\ cur \in Sessions
  BY DEF Save, SessionInv
<1>2. /\ DOMAIN stored' = Sessions
      /\ \A s \in Sessions : stored'[s] = IF s = cur THEN m ELSE stored[s]
  BY <1>1 DEF SessionInv
<1>3. \A s \in Sessions : IsSession(stored'[s])
  BY <1>2 DEF SessionInv
<1>4. \A s \in Sessions, f \in KnownFiles : Honest(stored'[s], f, excused'[s])
  BY <1>2 DEF SessionInv
<1>5. /\ IsSession(mem') /\ cur' \in Sessions
      /\ \A f \in KnownFiles : Honest(mem', f, excused'[cur'])
  BY <1>1
<1> QED BY <1>2, <1>3, <1>4, <1>5 DEF SessionInv, IsSession, Honest

(* Sessions that begin are honest.                                          *)
LEMMA SessionInitInv == SessionStateInit => SessionInv
<1> SUFFICES ASSUME SessionStateInit PROVE SessionInv
  OBVIOUS
<1>1. mem = NewSession /\ cur = Home /\ step = "idle" /\ \A s \in Sessions : stored[s] = NewSession
  BY DEF SessionStateInit
<1>2. DOMAIN stored = Sessions /\ DOMAIN excused = Sessions
  BY DEF SessionStateInit
<1> QED BY <1>1, <1>2, NewSessionIs, SessionStateAssumptions DEF SessionInv

(* A checkpoint is taken and the session saved. *)
LEMMA CheckpointStep ==
  ASSUME SessionInv, Save(WithCheckpoint(mem)), UNCHANGED <<cur, excused>>,
         step # "ran", step' # "ran"
  PROVE  SessionInv'
<1>1. PICK c : WithCheckpoint(mem) = [mem EXCEPT !.checkpoint = c]
  BY DEF WithCheckpoint
<1>2. IsSession(WithCheckpoint(mem)) /\ SameNotes(WithCheckpoint(mem), mem)
  BY <1>1, WithCheckpointIs DEF SessionInv
<1>3. \A f \in KnownFiles : Honest(mem, f, excused[cur])
  BY DEF SessionInv, NotesAhead
<1>4. \A f \in KnownFiles : Honest(WithCheckpoint(mem), f, excused'[cur])
  BY <1>2, <1>3, HonestSame
<1> HIDE DEF SessionInv
<1>5. DOMAIN excused' = Sessions
  BY DEF SessionInv
<1> QED BY <1>2, <1>4, <1>5, SavesNotes

(* A prompt is built of what the session knows, pruned.                     *)
LEMMA BuildStep == ASSUME SessionInv, BuildPrompt PROVE SessionInv'
<1> DEFINE s == Pruned(mem)
           t == [s EXCEPT !.told = @ \cup StalePaths(mem)]
<1>1. /\ IsSession(s) /\ s.read = mem.read /\ s.told = mem.told
      /\ \A f \in KnownFiles : s.summary[f] = IF f \in Invalidated(mem) THEN 0 ELSE mem.summary[f]
  BY PrunedIs DEF SessionInv
<1>2. /\ mem' = t /\ UNCHANGED <<stored, cur, excused>> /\ step = "prompting" /\ step' = "prompted"
  BY DEF BuildPrompt
<1>3. t = [s EXCEPT !.told = s.told \cup StalePaths(mem)]
  OBVIOUS
<1> HIDE DEF s, t
<1>4. /\ IsSession(t) /\ t.read = s.read /\ t.told = s.told \cup StalePaths(mem)
      /\ t.summary = s.summary
  BY <1>1, <1>3, WithToldIs
<1>5. Invalidated(mem) \subseteq t.told
  BY <1>4 DEF StalePaths
<1>6. \A f \in KnownFiles : Honest(mem, f, excused[cur])
  BY <1>2 DEF SessionInv, NotesAhead
<1>7. \A f \in KnownFiles : Honest(t, f, excused[cur])
  BY <1>1, <1>4, <1>5, <1>6, HonestPruned
<1>8. /\ IsSession(mem') /\ cur' \in Sessions /\ step' # "ran"
      /\ \A f \in KnownFiles : Honest(mem', f, excused'[cur'])
  BY <1>2, <1>4, <1>7 DEF SessionInv
<1> QED BY <1>2, <1>8 DEF SessionInv, Honest, IsSession

(* A tool runs: the notes of its file change, and are not saved yet. *)
LEMMA RunStep ==
  ASSUME SessionInv, NEW f \in KnownFiles, RunRead(f) \/ RunWrite(f) \/ RunShell(f)
  PROVE  SessionInv'
<1>1. ASSUME NEW kind \in {"read", "write", "other"}, Runs(kind, f), UNCHANGED <<stored, excused>>,
             IsSession(mem'),
             kind = "write" => mem'.summary[f] = 0,
             \A g \in KnownFiles : (g = f /\ kind # "other") \/ Honest(mem', g, excused[cur])
      PROVE  SessionInv'
  <2>1. wrote' = <<kind, f>> /\ cur' = cur /\ step' = "ran"
    BY <1>1 DEF Runs
  <2>2. wrote' \in ToolResults /\ wrote'[1] = kind /\ wrote'[2] = f
    BY <2>1 DEF ToolResults
  <2>3. \A g \in KnownFiles : NotesAhead(g)' \/ Honest(mem', g, excused'[cur'])
    BY <1>1, <2>1, <2>2 DEF NotesAhead
  <2> QED BY <1>1, <2>1, <2>2, <2>3 DEF SessionInv, Honest, IsSession
<1>2. step = "asking" /\ \A g \in KnownFiles : Honest(mem, g, excused[cur])
  BY DEF RunRead, RunWrite, RunShell, Runs, SessionInv, NotesAhead
<1>3. ASSUME NEW v, NEW r, mem' = [mem EXCEPT !.summary[f] = v, !.recent = r]
      PROVE  /\ IsSession(mem') /\ mem'.summary[f] = v
             /\ \A g \in KnownFiles : g = f \/ Honest(mem', g, excused[cur])
  <2> DEFINE t == [mem EXCEPT !.summary[f] = v, !.recent = r]
  <2>1. /\ IsSession(t) /\ t.read = mem.read /\ t.told = mem.told
        /\ \A g \in KnownFiles : t.summary[g] = IF g = f THEN v ELSE mem.summary[g]
    <3> DEFINE u == [mem EXCEPT !.summary[f] = v]
    <3>1. IsSession(mem)
      BY DEF SessionInv
    <3>2. /\ IsSession(u) /\ u.read = mem.read /\ u.told = mem.told
          /\ \A g \in KnownFiles : u.summary[g] = IF g = f THEN v ELSE mem.summary[g]
      BY <3>1, WithSummaryIs
    <3>3. t = [u EXCEPT !.recent = r]
      OBVIOUS
    <3> HIDE DEF u, t
    <3>4. IsSession(t) /\ SameNotes(t, u)
      BY <3>2, <3>3, WithRecentIs
    <3> QED BY <3>2, <3>4 DEF SameNotes
  <2>2. mem' = t
    BY <1>3
  <2> HIDE DEF t
  <2> QED BY <1>2, <2>1, <2>2 DEF Honest
<1>4. CASE RunRead(f)
  <2>1. mem' = [mem EXCEPT !.summary[f] = content[f], !.recent = Remembered(mem, f)]
        /\ Runs("read", f) /\ UNCHANGED <<stored, excused>>
    BY <1>4 DEF RunRead
  <2> QED BY <1>1, <1>3, <2>1
<1>5. CASE RunWrite(f)
  <2>1. mem' = [mem EXCEPT !.summary[f] = 0, !.recent = Remembered(mem, f)]
        /\ Runs("write", f) /\ UNCHANGED <<stored, excused>>
    BY <1>5 DEF RunWrite
  <2>2. IsSession(mem') /\ mem'.summary[f] = 0
    BY <1>3, <2>1
  <2> QED BY <1>1, <1>3, <2>1, <2>2
<1>6. CASE RunShell(f)
  <2>1. mem' = mem /\ Runs("other", f) /\ UNCHANGED <<stored, excused>>
    BY <1>6 DEF RunShell
  <2> QED BY <1>1, <1>2, <2>1 DEF SessionInv
<1> QED BY <1>4, <1>5, <1>6

(* Its result is recorded: the reading next to its summary. *)
LEMMA RecordStep == ASSUME SessionInv, RecordResult PROVE SessionInv'
<1> DEFINE f == wrote[2]
<1>1. /\ step = "ran" /\ step' = "recorded" /\ cur' = cur
      /\ wrote \in ToolResults /\ f \in KnownFiles
      /\ wrote[1] = "write" => mem.summary[f] = 0
  BY DEF RecordResult, SessionInv, ToolResults
<1>2. \A g \in KnownFiles : (g = f /\ wrote[1] # "other") \/ Honest(mem, g, excused[cur])
  BY <1>1 DEF SessionInv, NotesAhead
<1>3. wrote[1] \in {"read", "write", "other"}
  BY <1>1 DEF ToolResults
<1>4. IsSession(mem) /\ DOMAIN excused = Sessions /\ cur \in Sessions
  BY DEF SessionInv
<1> HIDE DEF f
<1>5. CASE wrote[1] = "read"
  <2> DEFINE s == [mem EXCEPT !.read[f] = mem.summary[f]]
             t == [s EXCEPT !.told = s.told \ {f}]
  <2>1. Save([mem EXCEPT !.read[f] = mem.summary[f], !.told = @ \ {f}])
        /\ excused' = [excused EXCEPT ![cur] = @ \ {f}]
    BY <1>5 DEF RecordResult, f
  <2>2. /\ IsSession(s) /\ s.summary = mem.summary /\ s.told = mem.told
        /\ \A g \in KnownFiles : s.read[g] = IF g = f THEN mem.summary[f] ELSE mem.read[g]
    BY <1>1, <1>4, WithReadIs
  <2>3. [mem EXCEPT !.read[f] = mem.summary[f], !.told = @ \ {f}] = [s EXCEPT !.told = mem.told \ {f}]
    OBVIOUS
  <2>4. [mem EXCEPT !.read[f] = mem.summary[f], !.told = @ \ {f}] = t
    BY <2>2, <2>3
  <2> HIDE DEF s
  <2>5. IsSession(t) /\ t.read = s.read /\ t.told = s.told \ {f} /\ t.summary = s.summary
    BY <2>2, WithToldIs
  <2>6. /\ DOMAIN excused' = Sessions /\ excused'[cur] = excused[cur] \ {f}
        /\ \A q \in Sessions : q # cur => excused'[q] = excused[q]
    BY <1>4, <2>1
  <2> HIDE DEF t
  <2>7. \A g \in KnownFiles : Honest(t, g, excused'[cur])
    BY <1>1, <1>2, <2>2, <2>5, <2>6 DEF Honest
  <2>8. Save(t)
    BY <2>1, <2>4
  <2> HIDE DEF SessionInv
  <2> QED BY <1>1, <2>5, <2>6, <2>7, <2>8, SavesNotes
<1>6. CASE wrote[1] = "write"
  <2> DEFINE t == [mem EXCEPT !.read[f] = 0]
  <2>1. Save(t) /\ excused' = excused
    BY <1>6 DEF RecordResult, f
  <2>2. /\ IsSession(t) /\ t.summary = mem.summary /\ t.told = mem.told
        /\ \A g \in KnownFiles : t.read[g] = IF g = f THEN 0 ELSE mem.read[g]
    BY <1>1, <1>4, WithReadIs
  <2> HIDE DEF t
  <2>3. \A g \in KnownFiles : Honest(t, g, excused'[cur])
    BY <1>1, <1>2, <1>6, <2>1, <2>2 DEF Honest, f
  <2>4. DOMAIN excused' = Sessions
    BY <1>4, <2>1
  <2> QED BY <1>1, <2>1, <2>2, <2>3, <2>4, SavesNotes
<1>7. CASE wrote[1] = "other"
  <2>1. Save(mem) /\ excused' = excused
    BY <1>7 DEF RecordResult
  <2>2. DOMAIN excused' = Sessions
    BY <1>4, <2>1
  <2>3. \A g \in KnownFiles : Honest(mem, g, excused'[cur])
    BY <1>2, <1>7, <2>1
  <2> QED BY <1>1, <1>4, <2>1, <2>2, <2>3, SavesNotes
<1> QED BY <1>3, <1>5, <1>6, <1>7

(* A session is loaded: what it drops is excused. *)
LEMMA SessionLoadStep == ASSUME SessionInv, NEW s \in Sessions, NEW i, Load(s, i) PROVE SessionInv'
<1> DEFINE t == Pruned(stored[s])
           gone == Invalidated(stored[s])
<1>1. /\ step' = "idle" /\ cur' = s /\ mem' = t
      /\ stored' = [stored EXCEPT ![s] = t]
      /\ excused' = [excused EXCEPT ![s] = @ \cup gone]
  BY DEF Load
<1>2. /\ IsSession(stored[s]) /\ DOMAIN stored = Sessions /\ DOMAIN excused = Sessions
      /\ \A f \in KnownFiles : Honest(stored[s], f, excused[s])
  BY DEF SessionInv
<1>3. /\ IsSession(t) /\ t.read = stored[s].read /\ t.told = stored[s].told
      /\ \A f \in KnownFiles : t.summary[f] = IF f \in gone THEN 0 ELSE stored[s].summary[f]
  BY <1>2, PrunedIs
<1> HIDE DEF t, gone
<1>4. /\ DOMAIN excused' = Sessions /\ excused'[s] = excused[s] \cup gone
      /\ \A q \in Sessions : q # s => excused'[q] = excused[q]
  BY <1>1, <1>2
<1>5. \A f \in KnownFiles : Honest(t, f, excused'[s])
  BY <1>2, <1>3, <1>4, HonestPruned
<1>6. /\ DOMAIN stored' = Sessions
      /\ \A q \in Sessions : stored'[q] = IF q = s THEN t ELSE stored[q]
  BY <1>1, <1>2
<1>7. /\ \A q \in Sessions : IsSession(stored'[q])
      /\ \A q \in Sessions, f \in KnownFiles : Honest(stored'[q], f, excused'[q])
  BY <1>3, <1>4, <1>5, <1>6 DEF SessionInv
<1>8. /\ IsSession(mem') /\ cur' \in Sessions /\ step' # "ran"
      /\ \A f \in KnownFiles : Honest(mem', f, excused'[cur'])
  BY <1>1, <1>3, <1>5
<1> QED BY <1>4, <1>6, <1>7, <1>8 DEF SessionInv, IsSession, Honest

(* A reset forgets what was read; an undo drops what it makes stale. *)
LEMMA ResetStep == ASSUME SessionInv, ResetSession PROVE SessionInv'
<1> DEFINE t == [NewSession EXCEPT !.checkpoint = mem.checkpoint]
<1>1. Save(t) /\ cur' = cur /\ excused' = excused /\ step' # "ran"
  BY DEF ResetSession
<1>2. IsSession(t) /\ SameNotes(t, NewSession)
  BY NewSessionIs, WithCheckpointIs
<1>3. DOMAIN excused' = Sessions
  BY <1>1 DEF SessionInv
<1> HIDE DEF t
<1>4. \A f \in KnownFiles : Honest(t, f, excused'[cur])
  BY <1>2, NewSessionIs DEF Honest, SameNotes
<1> QED BY <1>1, <1>2, <1>3, <1>4, SavesNotes

(* Files that an undo put back are told to the session or excused.          *)
LEMMA AfterUndoStep == ASSUME SessionInv, AfterUndo PROVE SessionInv'
<1> DEFINE t == Pruned(mem)
           gone == Invalidated(mem)
<1>1. /\ Save(t) /\ cur' = cur /\ step = "undone" /\ step' = "idle"
      /\ excused' = [excused EXCEPT ![cur] = @ \cup gone]
  BY DEF AfterUndo
<1>2. /\ IsSession(mem) /\ DOMAIN excused = Sessions /\ cur \in Sessions
      /\ \A f \in KnownFiles : Honest(mem, f, excused[cur])
  BY <1>1 DEF SessionInv, NotesAhead
<1>3. /\ IsSession(t) /\ t.read = mem.read /\ t.told = mem.told
      /\ \A f \in KnownFiles : t.summary[f] = IF f \in gone THEN 0 ELSE mem.summary[f]
  BY <1>2, PrunedIs
<1> HIDE DEF t, gone
<1>4. /\ DOMAIN excused' = Sessions /\ excused'[cur] = excused[cur] \cup gone
      /\ \A q \in Sessions : q # cur => excused'[q] = excused[q]
  BY <1>1, <1>2
<1>5. \A f \in KnownFiles : Honest(t, f, excused'[cur])
  BY <1>2, <1>3, <1>4, HonestPruned
<1>6. step' # "ran"
  BY <1>1
<1> QED BY <1>1, <1>3, <1>4, <1>5, <1>6, SavesNotes

-----------------------------------------------------------------------------
(* Every step of a session keeps it honest.                                 *)
LEMMA SessionStep ==
  ASSUME SessionInv, [SessionStateNext]_sessionVars
  PROVE  SessionInv'
<1>1. CASE StartTurn
  BY <1>1, KeepsNotes DEF StartTurn
<1>2. CASE PromptCheckpoint
  <2>1. UNCHANGED <<cur, excused>> /\ step # "ran" /\ step' # "ran"
    BY <1>2 DEF PromptCheckpoint
  <2>2. Save(WithCheckpoint(mem)) \/ UNCHANGED <<mem, stored>>
    BY <1>2 DEF PromptCheckpoint
  <2> QED BY <2>1, <2>2, CheckpointStep, KeepsNotes
<1>3. CASE ToolCheckpoint
  BY <1>3, CheckpointStep DEF ToolCheckpoint
<1>4. CASE FinishTurn
  BY <1>4, CheckpointStep DEF FinishTurn
<1>5. CASE Reload
  <2>1. cur \in Sessions
    BY DEF SessionInv
  <2> QED BY <1>5, <2>1, SessionLoadStep DEF Reload
<1>6. CASE Resume
  BY <1>6, SessionLoadStep DEF Resume
<1>7. ASSUME NEW f \in KnownFiles, RunRead(f) \/ RunWrite(f) \/ RunShell(f) PROVE SessionInv'
  BY <1>7, RunStep
<1>8. ASSUME NEW f \in KnownFiles, Undo(f) PROVE SessionInv'
  BY <1>8, KeepsNotes DEF Undo
<1>9. ASSUME NEW f \in KnownFiles, UserChanges(f) PROVE SessionInv'
  BY <1>9, KeepsNotes DEF UserChanges
<1>10. CASE UNCHANGED sessionVars
  BY <1>10 DEF sessionVars, SessionInv, Honest, IsSession, NotesAhead
<1> QED BY <1>1, <1>2, <1>3, <1>4, <1>5, <1>6, <1>7, <1>8, <1>9, <1>10,
        BuildStep, RecordStep, ResetStep, AfterUndoStep DEF SessionStateNext

(* A prompt that goes out names what is outdated. *)
LEMMA PromptIsHonest ==
  ASSUME SessionInv, [SessionStateNext]_sessionVars, Prompting
  PROVE  Outdated \subseteq stale' \cup excused[cur]
<1>1. step = "prompting" /\ step' = "prompted"
  BY DEF Prompting
<1>2. BuildPrompt
  BY <1>1 DEF SessionStateNext, sessionVars, StartTurn, PromptCheckpoint, RecordResult,
     ToolCheckpoint, FinishTurn, Reload, Resume, Load, ResetSession, AfterUndo, RunRead, RunWrite,
     RunShell, Runs, Undo, UserChanges
<1>3. stale' = StalePaths(mem)
  BY <1>2 DEF BuildPrompt, Evaluate
<1>4. ASSUME NEW f \in KnownFiles, f \notin mem.told, mem.read[f] \notin {0, content[f]},
             f \notin excused[cur]
      PROVE  f \in StalePaths(mem)
  <2>1. Honest(mem, f, excused[cur])
    BY <1>1 DEF SessionInv, NotesAhead
  <2>2. mem.summary[f] = mem.read[f]
    BY <1>4, <2>1 DEF Honest
  <2> QED BY <1>4, <2>2 DEF StalePaths, Invalidated
<1> QED BY <1>3, <1>4 DEF Outdated

(* A prompt never goes out with an outdated reading in it unmentioned, and  *)
(* a saved summary never comes without its reading.                         *)
THEOREM StaleReadingsAreNamed == SessionStateSpec => ReadingsAreHonest
<1>1. SessionInv => SummaryHasReading
  BY DEF SessionInv, SummaryHasReading, Honest
<1>2. SessionStateSpec => []SessionInv
  BY SessionInitInv, SessionStep, PTL DEF SessionStateSpec
<1>3. ASSUME SessionInv, [SessionStateNext]_sessionVars
      PROVE  [Prompting => Outdated \subseteq stale' \cup excused[cur]]_sessionVars
  BY <1>3, PromptIsHonest
<1> QED BY <1>1, <1>2, <1>3, PTL DEF SessionStateSpec, ReadingsAreHonest, StaleReported
-----------------------------------------------------------------------------
(* The types, of the saved sessions as of the one in memory. *)
TextNumbers == 0 .. MaxContents
Noted == [KnownFiles -> TextNumbers]
RecentLists == {r \in Seq(KnownFiles) : Len(r) <= RecentLimit}
Checkpoints == [files : Noted, identity : 0 .. 2]
SavedSessions ==
  [read : Noted, told : SUBSET KnownFiles, summary : Noted, recent : RecentLists,
   checkpoint : Checkpoints]

FilesTyped == content \in [KnownFiles -> 1 .. MaxContents] /\ before \in Noted
NotesTyped ==
  /\ mem \in SavedSessions /\ stored \in [Sessions -> SavedSessions] /\ cur \in Sessions
TurnTyped ==
  /\ identity \in {1, 2}
  /\ step \in {"idle", "undone", "prompting", "prompted", "asking", "ran", "recorded"}
  /\ step = "ran" => wrote \in ToolResults
  /\ turnReads \subseteq KnownFiles /\ stale \subseteq KnownFiles
  /\ excused \in [Sessions -> SUBSET KnownFiles]
  /\ resumed \in {"no-checkpoint", "partial-stale", "workspace-mismatch", "full-valid"}
  /\ tools \in 0 .. MaxRuns /\ loads \in 0 .. MaxLoads
SessionTypes == FilesTyped /\ NotesTyped /\ TurnTyped

LEMMA SavedIs ==
  ASSUME NEW s \in SavedSessions
  PROVE  /\ s.read \in Noted /\ s.told \subseteq KnownFiles /\ s.summary \in Noted
         /\ s.recent \in RecentLists /\ s.checkpoint \in Checkpoints
<1> QED BY DEF SavedSessions

(* Another value of the right type in one place leaves a session one. *)
LEMMA SavedKeeps ==
  ASSUME NEW s \in SavedSessions
  PROVE  /\ \A c \in Checkpoints : [s EXCEPT !.checkpoint = c] \in SavedSessions
         /\ \A t \in SUBSET KnownFiles : [s EXCEPT !.told = t] \in SavedSessions
         /\ \A n \in Noted : [s EXCEPT !.summary = n] \in SavedSessions
         /\ \A n \in Noted : [s EXCEPT !.read = n] \in SavedSessions
         /\ \A r \in RecentLists : [s EXCEPT !.recent = r] \in SavedSessions
<1> QED BY DEF SavedSessions

LEMMA NotedKeeps ==
  ASSUME NEW n \in Noted, NEW f \in KnownFiles, NEW v \in TextNumbers
  PROVE  [n EXCEPT ![f] = v] \in Noted
<1> QED BY DEF Noted

LEMMA TextNumbersAre == FilesTyped => \A f \in KnownFiles : content[f] \in TextNumbers
<1> QED BY SessionStateAssumptions DEF FilesTyped, TextNumbers

LEMMA NewSessionTyped == NewSession \in SavedSessions /\ Nothing \in Noted
<1>1. Nothing \in Noted
  BY SessionStateAssumptions DEF Nothing, Noted, TextNumbers
<1>2. NoCheckpoint \in Checkpoints
  BY <1>1 DEF NoCheckpoint, Checkpoints
<1>3. <<>> \in RecentLists
  <2>1. <<>> \in Seq(KnownFiles) /\ Len(<<>>) = 0
    OBVIOUS
  <2> QED BY <2>1, SessionStateAssumptions DEF RecentLists
<1> QED BY <1>1, <1>2, <1>3 DEF NewSession, SavedSessions

LEMMA PrunedTyped == ASSUME NEW s \in SavedSessions PROVE Pruned(s) \in SavedSessions
<1> DEFINE sums == [f \in KnownFiles |-> IF f \in Invalidated(s) THEN 0 ELSE s.summary[f]]
<1>1. s.summary \in Noted /\ 0 \in TextNumbers
  BY SavedIs, SessionStateAssumptions DEF TextNumbers
<1>2. sums \in Noted
  BY <1>1 DEF Noted
<1>3. Pruned(s) = [s EXCEPT !.summary = sums]
  BY DEF Pruned
<1> HIDE DEF sums
<1> QED BY <1>2, <1>3, SavedKeeps

LEMMA CheckpointTyped ==
  ASSUME SessionTypes, NEW s \in SavedSessions
  PROVE  WithCheckpoint(s) \in SavedSessions
<1> DEFINE key == ToSet(s.recent) \cup turnReads
           noted == [f \in KnownFiles |-> IF f \in key THEN content[f] ELSE 0]
           c == [files |-> noted, identity |-> identity]
<1>1. 0 \in TextNumbers /\ \A f \in KnownFiles : content[f] \in TextNumbers
  BY TextNumbersAre, SessionStateAssumptions DEF SessionTypes, TextNumbers
<1>2. noted \in Noted
  BY <1>1 DEF Noted
<1>3. identity \in 0 .. 2
  BY DEF SessionTypes, TurnTyped
<1>4. c \in Checkpoints
  BY <1>2, <1>3 DEF Checkpoints
<1>5. WithCheckpoint(s) = [s EXCEPT !.checkpoint = c]
  BY DEF WithCheckpoint
<1> HIDE DEF c
<1> QED BY <1>4, <1>5, SavedKeeps

LEMMA RememberedTyped ==
  ASSUME NEW s \in SavedSessions, NEW f \in KnownFiles
  PROVE  Remembered(s, f) \in RecentLists
<1> DEFINE kept == Only(s.recent, KnownFiles \ {f})
           noted == Append(kept, f)
<1>1. s.recent \in Seq(KnownFiles) /\ Len(s.recent) <= RecentLimit /\ Len(s.recent) \in Nat
      /\ RecentLimit \in Nat
  BY SavedIs, SessionStateAssumptions DEF RecentLists
<1>2. kept \in Seq(KnownFiles) /\ Len(kept) <= Len(s.recent)
  BY <1>1, OnlyIsNoLonger
<1>3. Remembered(s, f) = IF Len(noted) > RecentLimit THEN Tail(noted) ELSE noted
  BY DEF Remembered
<1> HIDE DEF kept
<1>4. noted \in Seq(KnownFiles) /\ Len(noted) = Len(kept) + 1 /\ Len(kept) \in Nat
      /\ noted # <<>>
  BY <1>2
<1> HIDE DEF noted
<1>5. Tail(noted) \in Seq(KnownFiles) /\ Len(Tail(noted)) = Len(noted) - 1
  BY <1>4
<1>6. CASE Len(noted) > RecentLimit
  <2>1. Len(Tail(noted)) <= RecentLimit
    BY <1>1, <1>2, <1>4, <1>5
  <2> QED BY <1>3, <1>5, <1>6, <2>1 DEF RecentLists
<1>7. CASE ~(Len(noted) > RecentLimit)
  <2>1. Len(noted) <= RecentLimit
    BY <1>1, <1>4, <1>7
  <2> QED BY <1>3, <1>4, <1>7, <2>1 DEF RecentLists
<1> QED BY <1>6, <1>7

LEMMA EvaluatedTyped ==
  ASSUME NEW s, NEW i, Evaluate(s, i)
  PROVE  /\ stale' \subseteq KnownFiles
         /\ resumed' \in {"no-checkpoint", "partial-stale", "workspace-mismatch", "full-valid"}
<1>1. stale' \subseteq KnownFiles
  BY DEF Evaluate, StalePaths, Invalidated, KeyFiles
<1>2. resumed' = Status(s, i)
  BY DEF Evaluate
<1>3. Status(s, i) \in {"no-checkpoint", "partial-stale", "workspace-mismatch", "full-valid"}
  BY DEF Status
<1> QED BY <1>1, <1>2, <1>3

LEMMA InvalidatedAre == ASSUME NEW s PROVE Invalidated(s) \subseteq KnownFiles
<1> QED BY DEF Invalidated

LEMMA SaveTyped ==
  ASSUME NotesTyped, NEW s \in SavedSessions, Save(s), cur' = cur
  PROVE  NotesTyped'
<1>1. mem' = s /\ stored' = [stored EXCEPT ![cur] = s]
  BY DEF Save
<1>2. stored' \in [Sessions -> SavedSessions]
  BY <1>1 DEF NotesTyped
<1> QED BY <1>1, <1>2 DEF NotesTyped

LEMMA SessionInitTypes == SessionStateInit => SessionTypes
<1> SUFFICES ASSUME SessionStateInit PROVE SessionTypes
  OBVIOUS
<1>1. 1 \in 1 .. MaxContents
  BY SessionStateAssumptions
<1>2. FilesTyped
  BY <1>1, NewSessionTyped DEF SessionStateInit, FilesTyped
<1>3. NotesTyped
  BY NewSessionTyped, SessionStateAssumptions DEF SessionStateInit, NotesTyped
<1>4. TurnTyped
  BY SessionStateAssumptions DEF SessionStateInit, TurnTyped
<1> QED BY <1>2, <1>3, <1>4 DEF SessionTypes

LEMMA RunTypes ==
  ASSUME SessionTypes, NEW f \in KnownFiles, RunRead(f) \/ RunWrite(f) \/ RunShell(f)
  PROVE  SessionTypes'
<1>1. TurnTyped'
  <2>1. ASSUME NEW kind \in {"read", "write", "other"}, Runs(kind, f), UNCHANGED excused
        PROVE  TurnTyped'
    <3>1. wrote' = <<kind, f>>
      BY <2>1 DEF Runs
    <3>2. wrote' \in ToolResults
      BY <3>1 DEF ToolResults
    <3>3. tools' \in 0 .. MaxRuns
      BY <2>1, SessionStateAssumptions DEF Runs, SessionTypes, TurnTyped
    <3> QED BY <2>1, <3>2, <3>3 DEF Runs, SessionTypes, TurnTyped
  <2> QED BY <2>1 DEF RunRead, RunWrite, RunShell
<1>2. \A g \in KnownFiles : content[g] \in TextNumbers
  BY TextNumbersAre DEF SessionTypes
<1>3. mem \in SavedSessions /\ mem.summary \in Noted /\ UNCHANGED <<stored, cur>>
  BY SavedIs DEF SessionTypes, NotesTyped, RunRead, RunWrite, RunShell, Runs
<1>4. ASSUME content[f] < MaxContents PROVE [content EXCEPT ![f] = @ + 1] \in [KnownFiles -> 1 .. MaxContents]
  <2>1. content[f] \in 1 .. MaxContents
    BY DEF SessionTypes, FilesTyped
  <2>2. content[f] + 1 \in 1 .. MaxContents
    BY <1>4, <2>1, SessionStateAssumptions
  <2> QED BY <2>2 DEF SessionTypes, FilesTyped
<1>5. FilesTyped'
  <2>1. CASE RunRead(f)
    BY <2>1 DEF RunRead, SessionTypes, FilesTyped
  <2>2. CASE RunWrite(f)
    <3>1. before' \in Noted
      BY <1>2, <2>2, NotedKeeps DEF RunWrite, SessionTypes, FilesTyped
    <3> QED BY <1>4, <2>2, <3>1 DEF RunWrite, FilesTyped
  <2>3. CASE RunShell(f)
    BY <1>4, <2>3 DEF RunShell, SessionTypes, FilesTyped
  <2> QED BY <2>1, <2>2, <2>3
<1>6. ASSUME NEW v \in TextNumbers, mem' = [mem EXCEPT !.summary[f] = v, !.recent = Remembered(mem, f)]
      PROVE  mem' \in SavedSessions
  <2> DEFINE sums == [mem.summary EXCEPT ![f] = v]
             s == [mem EXCEPT !.summary = sums]
             r == Remembered(mem, f)
  <2>1. sums \in Noted /\ r \in RecentLists
    BY <1>3, NotedKeeps, RememberedTyped
  <2>2. mem' = [s EXCEPT !.recent = r]
    BY <1>6
  <2> HIDE DEF sums, r
  <2>3. s \in SavedSessions
    BY <1>3, <2>1, SavedKeeps
  <2> HIDE DEF s
  <2> QED BY <2>1, <2>2, <2>3, SavedKeeps
<1>7. mem' \in SavedSessions
  <2>1. 0 \in TextNumbers
    BY SessionStateAssumptions DEF TextNumbers
  <2>2. CASE RunRead(f)
    BY <1>2, <1>6, <2>2 DEF RunRead
  <2>3. CASE RunWrite(f)
    BY <1>6, <2>1, <2>3 DEF RunWrite
  <2>4. CASE RunShell(f)
    BY <1>3, <2>4 DEF RunShell
  <2> QED BY <2>2, <2>3, <2>4
<1>8. NotesTyped'
  BY <1>3, <1>7 DEF SessionTypes, NotesTyped
<1> QED BY <1>1, <1>5, <1>8 DEF SessionTypes

LEMMA RecordTypes == ASSUME SessionTypes, RecordResult PROVE SessionTypes'
<1> DEFINE f == wrote[2]
<1>1. /\ f \in KnownFiles /\ wrote[1] \in {"read", "write", "other"}
      /\ step' = "recorded" /\ UNCHANGED <<content, before, cur, identity, stale, resumed, tools, loads>>
  BY DEF RecordResult, SessionTypes, TurnTyped, ToolResults
<1>2. mem \in SavedSessions /\ mem.summary \in Noted /\ mem.read \in Noted /\ mem.told \subseteq KnownFiles
  BY SavedIs DEF SessionTypes, NotesTyped
<1>3. mem.summary[f] \in TextNumbers /\ 0 \in TextNumbers
  BY <1>1, <1>2, SessionStateAssumptions DEF Noted, TextNumbers
<1> HIDE DEF f
<1>4. \E s \in SavedSessions : Save(s)
  <2>1. CASE wrote[1] = "read"
    <3> DEFINE reads == [mem.read EXCEPT ![f] = mem.summary[f]]
               s == [mem EXCEPT !.read = reads]
               told == mem.told \ {f}
    <3>1. [mem EXCEPT !.read[f] = mem.summary[f], !.told = @ \ {f}] = [s EXCEPT !.told = told]
      OBVIOUS
    <3>2. reads \in Noted /\ told \in SUBSET KnownFiles
      BY <1>1, <1>2, <1>3, NotedKeeps
    <3> HIDE DEF reads, told
    <3>3. s \in SavedSessions
      BY <1>2, <3>2, SavedKeeps
    <3> HIDE DEF s
    <3>4. [s EXCEPT !.told = told] \in SavedSessions
      BY <3>2, <3>3, SavedKeeps
    <3>5. Save([mem EXCEPT !.read[f] = mem.summary[f], !.told = @ \ {f}])
      BY <2>1 DEF RecordResult, f
    <3> QED BY <3>1, <3>4, <3>5
  <2>2. CASE wrote[1] = "write"
    <3> DEFINE reads == [mem.read EXCEPT ![f] = 0]
               s == [mem EXCEPT !.read = reads]
    <3>1. [mem EXCEPT !.read[f] = 0] = s
      OBVIOUS
    <3>2. reads \in Noted
      BY <1>1, <1>2, <1>3, NotedKeeps
    <3> HIDE DEF reads
    <3>3. s \in SavedSessions
      BY <1>2, <3>2, SavedKeeps
    <3>4. Save([mem EXCEPT !.read[f] = 0])
      BY <2>2 DEF RecordResult, f
    <3> QED BY <3>1, <3>3, <3>4
  <2>3. CASE wrote[1] = "other"
    BY <1>2, <2>3 DEF RecordResult
  <2> QED BY <1>1, <2>1, <2>2, <2>3
<1>5. NotesTyped'
  BY <1>1, <1>4, SaveTyped DEF SessionTypes
<1>6. turnReads' \subseteq KnownFiles /\ excused' \in [Sessions -> SUBSET KnownFiles]
  <2>1. turnReads \subseteq KnownFiles /\ excused \in [Sessions -> SUBSET KnownFiles] /\ cur \in Sessions
    BY DEF SessionTypes, TurnTyped, NotesTyped
  <2>2. [excused EXCEPT ![cur] = @ \ {f}] \in [Sessions -> SUBSET KnownFiles]
    BY <2>1
  <2>3. turnReads' \subseteq turnReads \cup {f}
        /\ excused' \in {excused, [excused EXCEPT ![cur] = @ \ {f}]}
    BY <1>1 DEF RecordResult, f
  <2> QED BY <1>1, <2>1, <2>2, <2>3
<1> QED BY <1>1, <1>5, <1>6 DEF SessionTypes, FilesTyped, TurnTyped

LEMMA LoadTypes ==
  ASSUME SessionTypes, NEW s \in Sessions, NEW i \in {1, 2}, Load(s, i) PROVE SessionTypes'
<1>1. stored[s] \in SavedSessions /\ stored \in [Sessions -> SavedSessions]
      /\ excused \in [Sessions -> SUBSET KnownFiles]
  BY DEF SessionTypes, NotesTyped, TurnTyped
<1>2. Pruned(stored[s]) \in SavedSessions /\ Invalidated(stored[s]) \subseteq KnownFiles
  BY <1>1, PrunedTyped, InvalidatedAre
<1>3. NotesTyped'
  <2>1. mem' = Pruned(stored[s]) /\ stored' = [stored EXCEPT ![s] = Pruned(stored[s])] /\ cur' = s
    BY DEF Load
  <2>2. stored' \in [Sessions -> SavedSessions]
    BY <1>1, <1>2, <2>1
  <2> QED BY <1>2, <2>1, <2>2 DEF NotesTyped
<1>4. excused' \in [Sessions -> SUBSET KnownFiles]
  BY <1>1, <1>2 DEF Load
<1>5. /\ stale' \subseteq KnownFiles
      /\ resumed' \in {"no-checkpoint", "partial-stale", "workspace-mismatch", "full-valid"}
  BY EvaluatedTyped DEF Load
<1>6. loads' \in 0 .. MaxLoads
  BY SessionStateAssumptions DEF Load, SessionTypes, TurnTyped
<1>7. step' = "idle" /\ identity' = i /\ UNCHANGED <<content, before, turnReads, tools>>
  BY DEF Load
<1> QED BY <1>3, <1>4, <1>5, <1>6, <1>7 DEF SessionTypes, FilesTyped, TurnTyped

LEMMA SessionTypesStep ==
  ASSUME SessionTypes, [SessionStateNext]_sessionVars
  PROVE  SessionTypes'
<1>1. CASE StartTurn
  BY <1>1 DEF StartTurn, SessionTypes, FilesTyped, NotesTyped, TurnTyped
<1>2. CASE BuildPrompt
  <2>1. /\ UNCHANGED <<content, before, stored, cur, identity, wrote, turnReads, excused, tools, loads>>
        /\ step' = "prompted" /\ Evaluate(mem, identity)
        /\ mem' = [Pruned(mem) EXCEPT !.told = @ \cup StalePaths(mem)]
    BY <1>2 DEF BuildPrompt
  <2> DEFINE s == Pruned(mem)
             told == s.told \cup StalePaths(mem)
  <2>2. s \in SavedSessions
    BY PrunedTyped DEF SessionTypes, NotesTyped
  <2>3. mem' = [s EXCEPT !.told = told]
    BY <2>1
  <2> HIDE DEF s
  <2>4. told \in SUBSET KnownFiles
    BY <2>2, SavedIs DEF StalePaths, Invalidated, KeyFiles
  <2> HIDE DEF told
  <2>5. mem' \in SavedSessions
    BY <2>2, <2>3, <2>4, SavedKeeps
  <2>6. /\ stale' \subseteq KnownFiles
        /\ resumed' \in {"no-checkpoint", "partial-stale", "workspace-mismatch", "full-valid"}
    BY <2>1, EvaluatedTyped
  <2> QED BY <2>1, <2>5, <2>6 DEF SessionTypes, FilesTyped, NotesTyped, TurnTyped
<1>3. ASSUME NEW s \in SavedSessions, Save(s), cur' = cur,
             UNCHANGED <<content, before, identity, turnReads, stale, resumed, tools, loads>>,
             excused' \in [Sessions -> SUBSET KnownFiles],
             step' \in {"idle", "prompting", "asking"}
      PROVE  SessionTypes'
  <2>1. NotesTyped'
    BY <1>3, SaveTyped DEF SessionTypes
  <2> QED BY <1>3, <2>1 DEF SessionTypes, FilesTyped, TurnTyped
<1>4. /\ mem \in SavedSessions /\ excused \in [Sessions -> SUBSET KnownFiles]
      /\ WithCheckpoint(mem) \in SavedSessions
  BY CheckpointTyped DEF SessionTypes, NotesTyped, TurnTyped
<1>5. CASE PromptCheckpoint
  <2>1. CASE Save(WithCheckpoint(mem))
    <3>1. /\ UNCHANGED <<content, before, cur, identity, turnReads, stale, resumed, excused, tools, loads>>
          /\ step' = "asking"
      BY <1>5 DEF PromptCheckpoint
    <3> QED BY <1>3, <1>4, <2>1, <3>1
  <2>2. CASE UNCHANGED <<mem, stored>>
    BY <1>5, <2>2 DEF PromptCheckpoint, SessionTypes, FilesTyped, NotesTyped, TurnTyped
  <2> QED BY <1>5, <2>1, <2>2 DEF PromptCheckpoint
<1>6. CASE RecordResult
  BY <1>6, RecordTypes
<1>7. CASE ToolCheckpoint \/ FinishTurn
  <2>1. /\ UNCHANGED <<content, before, cur, identity, turnReads, stale, resumed, excused, tools, loads>>
        /\ step' \in {"idle", "prompting"} /\ Save(WithCheckpoint(mem))
    BY <1>7 DEF ToolCheckpoint, FinishTurn
  <2> QED BY <1>3, <1>4, <2>1
<1>8. CASE Reload
  <2>1. cur \in Sessions
    BY DEF SessionTypes, NotesTyped
  <2> QED BY <1>8, <2>1, LoadTypes DEF Reload
<1>9. CASE Resume
  <2>1. identity \in {1, 2}
    BY DEF SessionTypes, TurnTyped
  <2> QED BY <1>9, <2>1, LoadTypes DEF Resume
<1>10. CASE ResetSession
  <2>1. /\ UNCHANGED <<content, before, cur, identity, turnReads, stale, resumed, excused, tools, loads>>
        /\ step' = "idle" /\ Save([NewSession EXCEPT !.checkpoint = mem.checkpoint])
    BY <1>10 DEF ResetSession
  <2>2. mem.checkpoint \in Checkpoints
    BY <1>4, SavedIs
  <2>3. [NewSession EXCEPT !.checkpoint = mem.checkpoint] \in SavedSessions
    BY <2>2, NewSessionTyped, SavedKeeps
  <2> QED BY <1>3, <1>4, <2>1, <2>3
<1>11. CASE AfterUndo
  <2>1. /\ UNCHANGED <<content, before, cur, identity, turnReads, stale, resumed, tools, loads>>
        /\ step' = "idle" /\ Save(Pruned(mem))
        /\ excused' = [excused EXCEPT ![cur] = @ \cup Invalidated(mem)]
    BY <1>11 DEF AfterUndo
  <2>2. Pruned(mem) \in SavedSessions /\ Invalidated(mem) \subseteq KnownFiles
    BY <1>4, PrunedTyped, InvalidatedAre
  <2>3. excused' \in [Sessions -> SUBSET KnownFiles]
    BY <1>4, <2>1, <2>2
  <2> QED BY <1>3, <2>1, <2>2, <2>3
<1>12. ASSUME NEW f \in KnownFiles, RunRead(f) \/ RunWrite(f) \/ RunShell(f) PROVE SessionTypes'
  BY <1>12, RunTypes
<1>13. ASSUME NEW f \in KnownFiles, Undo(f) PROVE SessionTypes'
  <2>1. /\ content' = [content EXCEPT ![f] = before[f]] /\ before' = [before EXCEPT ![f] = 0]
        /\ before[f] # 0 /\ step' = "undone"
        /\ UNCHANGED <<mem, stored, cur, identity, turnReads, stale, resumed, excused, tools, loads>>
    BY <1>13 DEF Undo
  <2>2. before \in Noted /\ 0 \in TextNumbers
    BY SessionStateAssumptions DEF SessionTypes, FilesTyped, TextNumbers
  <2>3. before[f] \in 1 .. MaxContents
    BY <2>1, <2>2 DEF Noted, TextNumbers
  <2>4. content' \in [KnownFiles -> 1 .. MaxContents]
    BY <2>1, <2>3 DEF SessionTypes, FilesTyped
  <2>5. before' \in Noted
    BY <2>1, <2>2, NotedKeeps
  <2> QED BY <2>1, <2>4, <2>5 DEF SessionTypes, FilesTyped, NotesTyped, TurnTyped
<1>14. ASSUME NEW f \in KnownFiles, UserChanges(f) PROVE SessionTypes'
  <2>1. /\ content' = [content EXCEPT ![f] = @ + 1] /\ before' = [before EXCEPT ![f] = 0]
        /\ content[f] < MaxContents
        /\ UNCHANGED <<mem, stored, cur, identity, step, wrote, turnReads, stale, resumed, excused,
                       tools, loads>>
    BY <1>14 DEF UserChanges
  <2>2. before \in Noted /\ 0 \in TextNumbers /\ content \in [KnownFiles -> 1 .. MaxContents]
    BY SessionStateAssumptions DEF SessionTypes, FilesTyped, TextNumbers
  <2>3. content[f] + 1 \in 1 .. MaxContents
    BY <2>1, <2>2, SessionStateAssumptions
  <2>4. content' \in [KnownFiles -> 1 .. MaxContents]
    BY <2>1, <2>2, <2>3
  <2>5. before' \in Noted
    BY <2>1, <2>2, NotedKeeps
  <2> QED BY <2>1, <2>4, <2>5 DEF SessionTypes, FilesTyped, NotesTyped, TurnTyped
<1>15. CASE UNCHANGED sessionVars
  BY <1>15 DEF sessionVars, SessionTypes, FilesTyped, NotesTyped, TurnTyped
<1> QED BY <1>1, <1>2, <1>5, <1>6, <1>7, <1>8, <1>9, <1>10, <1>11, <1>12, <1>13, <1>14, <1>15
        DEF SessionStateNext

LEMMA SessionTypesCorrect == SessionTypes => SessionStateTypeOK
<1> SUFFICES ASSUME SessionTypes PROVE SessionStateTypeOK
  OBVIOUS
<1>1. ASSUME NEW s \in SavedSessions
      PROVE  /\ s.read \in Noted /\ s.told \subseteq KnownFiles /\ s.summary \in Noted
             /\ ToSet(s.recent) \subseteq KnownFiles /\ Len(s.recent) <= RecentLimit
             /\ s.checkpoint \in [files : Noted, identity : 0 .. 2]
  <2>1. s.recent \in Seq(KnownFiles) /\ Len(s.recent) <= RecentLimit
    BY SavedIs DEF RecentLists
  <2>2. ToSet(s.recent) \subseteq KnownFiles
    BY <2>1 DEF ToSet
  <2> QED BY <2>1, <2>2, SavedIs DEF Checkpoints
<1>2. mem \in SavedSessions /\ \A s \in Sessions : stored[s] \in SavedSessions
  BY DEF SessionTypes, NotesTyped
<1> QED BY <1>1, <1>2 DEF SessionTypes, FilesTyped, NotesTyped, TurnTyped, SessionStateTypeOK,
     Noted, TextNumbers

-----------------------------------------------------------------------------
(***************************************************************************)
(* Knowledge, for any names, texts and number of stores: what is active    *)
(* was approved; and, with one store at work, a search finds what is       *)
(* approved and no active record is lost. A record is written by the steps *)
(* of a plan that others' steps come between, so the invariant says of     *)
(* every step that is still to be done what it will write.                 *)
(***************************************************************************)

(* What a file may hold, and the steps of an operation. *)
Held == [status : {"candidate", "active", "quarantined", "rejected", "superseded"},
         body : Bodies, version : Nat]
Mains == {Main(n) : n \in Names}
Steps == {Sync} \cup [do : {"write"}, file : RecordFiles, record : Held]
                \cup [do : {"archive"}, file : Mains, record : Held]

(* The file a name is active in is one of its files, and none of its        *)
(* proposals.                                                               *)
LEMMA MainIs ==
  /\ \A n \in Names : Main(n) \in RecordFiles /\ Main(n)[1] = n
  /\ \A f \in RecordFiles : f[1] \in Names
  /\ \A n \in Names, b \in Bodies :
       <<n, b>> \in RecordFiles /\ <<n, b>>[1] = n /\ <<n, b>> # Main(n)
  /\ \A f \in Mains : f = Main(f[1]) /\ f \in RecordFiles
<1>1. \A n \in Names : Main(n) \in RecordFiles /\ Main(n)[1] = n
  BY DEF Main, RecordFiles
<1>2. \A f \in RecordFiles : f[1] \in Names
  BY DEF RecordFiles
<1>3. \A n \in Names, b \in Bodies :
       <<n, b>> \in RecordFiles /\ <<n, b>>[1] = n /\ <<n, b>> # Main(n)
  BY KnowledgeAssumptions DEF Main, RecordFiles
<1>4. \A f \in Mains : f = Main(f[1]) /\ f \in RecordFiles
  BY <1>1 DEF Mains
<1> QED BY <1>1, <1>2, <1>3, <1>4

(* A step is one of three. *)
LEMMA StepIs ==
  ASSUME NEW w \in Steps
  PROVE  \/ w = Sync
         \/ w.do = "write" /\ w.file \in RecordFiles /\ w.record \in Held
         \/ w.do = "archive" /\ w.file \in Mains /\ w.record \in Held
<1> QED BY DEF Steps

(* To bring the search rows up to date is a step.                           *)
LEMMA SyncIs == Sync \in Steps /\ Sync.do = "sync"
<1> QED BY DEF Steps, Sync

(* To write a record is a step of its file.                                 *)
LEMMA WriteIs ==
  ASSUME NEW f \in RecordFiles, NEW r \in Held
  PROVE  /\ Write(f, r) \in Steps /\ Write(f, r).do = "write"
         /\ Write(f, r).file = f /\ Write(f, r).record = r
<1>1. Write(f, r) \in [do : {"write"}, file : RecordFiles, record : Held]
  BY DEF Write
<1> HIDE DEF Held
<1> QED BY <1>1, Zenon DEF Steps, Write

(* To archive a record is a step of the main file of its name.              *)
LEMMA ArchiveIs ==
  ASSUME NEW n \in Names, NEW r \in Held
  PROVE  /\ Archive(n, r) \in Steps /\ Archive(n, r).do = "archive"
         /\ Archive(n, r).file = Main(n) /\ Archive(n, r).record = r
<1>1. Archive(n, r) \in [do : {"archive"}, file : Mains, record : Held]
  BY DEF Archive, Mains
<1> QED BY <1>1, Zenon DEF Steps, Archive

(* Tuples of two, three and four. *)
LEMMA TupleOfTwo ==
  ASSUME NEW S, NEW a \in S, NEW b \in S
  PROVE  \E s \in Seq(S) : /\ s = <<a, b>> /\ Len(s) = 2 /\ s[1] = a /\ s[2] = b
<1>1. <<a, b>> \in Seq(S) /\ Len(<<a, b>>) = 2 /\ <<a, b>>[1] = a /\ <<a, b>>[2] = b
  OBVIOUS
<1> QED BY <1>1, Zenon

-----------------------------------------------------------------------------
KnowledgeShape ==
  /\ records \in [RecordFiles -> Held \cup {Missing}]
  /\ index \in [RecordFiles -> Held \cup {Missing}]
  /\ archive \subseteq Names \X Nat \X Bodies
  /\ writes \in [Stores -> Seq(Steps)]
  /\ approved \in [Names -> SUBSET Bodies]
  /\ ops \in Nat /\ deaths \in Nat

(* What an operation makes active has its own name, and a person approved   *)
(* that text of it.                                                         *)
Approved(a, f, r) == f = Main(f[1]) /\ r.body \in a[f[1]] /\ ~Violates(r)
WritesApproved(a, s) ==
  \A i \in DOMAIN s :
    s[i].do = "write" /\ Active(s[i].record) => Approved(a, s[i].file, s[i].record)

KnowledgeInv ==
  /\ KnowledgeShape /\ ActiveIsApproved
  /\ \A p \in Stores : WritesApproved(approved, writes[p])

(* A new store is empty, and in order.                                      *)
LEMMA KnowledgeInitInv == KnowledgeInit => KnowledgeInv
<1> SUFFICES ASSUME KnowledgeInit PROVE KnowledgeInv
  OBVIOUS
<1>1. \A f \in RecordFiles : records[f] = Missing
  BY DEF KnowledgeInit
<1>2. \A p \in Stores : writes[p] = <<>> /\ <<>> \in Seq(Steps) /\ DOMAIN writes[p] = {}
  BY DEF KnowledgeInit
<1>3. ~ Active(Missing)
  BY DEF Active, Missing
<1>4. KnowledgeShape
  BY <1>1, <1>2 DEF KnowledgeInit, KnowledgeShape
<1> QED BY <1>1, <1>2, <1>3, <1>4 DEF KnowledgeInv, ActiveIsApproved, WritesApproved

(* A record is not the absence of one, and has the fields it was made with. *)
LEMMA HeldIs ==
  /\ Missing \notin Held /\ ~ Active(Missing)
  /\ \A s \in {"candidate", "active", "quarantined", "rejected", "superseded"},
        b \in Bodies, v \in Nat :
       /\ Record(s, b, v) \in Held /\ Record(s, b, v).status = s
       /\ Record(s, b, v).body = b /\ Record(s, b, v).version = v
  /\ \A r \in Held :
       /\ r.body \in Bodies /\ r.version \in Nat
       /\ \A s \in {"active", "rejected", "superseded"} :
            LET new == [r EXCEPT !.status = s]
            IN  /\ new \in Held /\ new.status = s
                /\ new.body = r.body /\ new.version = r.version
  /\ Missing.version \in Nat
<1>1. Missing \notin Held /\ ~ Active(Missing) /\ Missing.version \in Nat
  BY DEF Missing, Held, Active
<1>2. \A s \in {"candidate", "active", "quarantined", "rejected", "superseded"},
        b \in Bodies, v \in Nat :
       /\ Record(s, b, v) \in Held /\ Record(s, b, v).status = s
       /\ Record(s, b, v).body = b /\ Record(s, b, v).version = v
  BY DEF Record, Held
<1>3. ASSUME NEW r \in Held, NEW s \in {"active", "rejected", "superseded"}
      PROVE  LET new == [r EXCEPT !.status = s]
             IN  /\ new \in Held /\ new.status = s
                 /\ new.body = r.body /\ new.version = r.version
  BY DEF Held
<1>4. \A r \in Held : r.body \in Bodies /\ r.version \in Nat
  BY DEF Held
<1> QED BY <1>1, <1>2, <1>3, <1>4

-----------------------------------------------------------------------------
(* What an operation starts with.                                           *)
WritesRecord(w, f, r) == w \in Steps /\ w.do = "write" /\ w.file = f /\ w.record = r
ArchivesRecord(w, n, r) == w \in Steps /\ w.do = "archive" /\ w.file = Main(n) /\ w.record = r

PlannedProposal(s) ==
  \E n \in Names, b \in Bodies, r \in Held :
    /\ Len(s) = 2 /\ WritesRecord(s[1], Target(n, b), r) /\ s[2].do = "sync"
    /\ r.status # "active" /\ \E k \in RecordFiles : r.version = records[k].version + 1

PlannedChange(s, f, new) ==
  /\ Len(s) = 2 /\ WritesRecord(s[1], f, [records[f] EXCEPT !.status = new]) /\ s[2].do = "sync"

PlannedMerge(s, f) ==
  LET n == f[1]
      old == records[Main(n)]
      new == Record("active", records[f].body, NextVersion(records[f], old))
      done == [records[f] EXCEPT !.status = "superseded"]
  IN  \/ /\ old = Missing /\ Len(s) = 3
         /\ WritesRecord(s[1], Main(n), new) /\ WritesRecord(s[2], f, done) /\ s[3].do = "sync"
      \/ /\ old # Missing /\ Len(s) = 4 /\ ArchivesRecord(s[1], n, old)
         /\ WritesRecord(s[2], Main(n), new) /\ WritesRecord(s[3], f, done) /\ s[4].do = "sync"

(* What a proposal plans to do (knowledge.py upsert).                       *)
LEMMA ProposalIs ==
  ASSUME KnowledgeShape, NEW n \in Names, NEW b \in Bodies
  PROVE  Upsert(n, b) \in Seq(Steps) /\ PlannedProposal(Upsert(n, b))
<1> DEFINE file == Target(n, b)
           parent == records[IF file = Main(n) THEN file ELSE Main(n)]
           status == IF b \in Poisoned THEN "quarantined" ELSE "candidate"
           r == Record(status, b, parent.version + 1)
<1>1. file \in RecordFiles
  BY MainIs DEF Target
<1>2. parent \in Held \cup {Missing}
  <2>1. (IF file = Main(n) THEN file ELSE Main(n)) \in RecordFiles
    BY <1>1, MainIs
  <2> HIDE DEF file
  <2> QED BY <2>1 DEF KnowledgeShape
<1>3. parent.version + 1 \in Nat
  <2>1. parent.version \in Nat
    <3> HIDE DEF parent
    <3> QED BY <1>2, HeldIs
  <2> HIDE DEF parent
  <2> QED BY <2>1
<1>4. r \in Held /\ r.status # "active" /\ r.version = parent.version + 1
  <2> HIDE DEF parent
  <2> QED BY <1>3, HeldIs
<1>8. \E k \in RecordFiles : r.version = records[k].version + 1
  <2>1. (IF file = Main(n) THEN file ELSE Main(n)) \in RecordFiles
    BY <1>1, MainIs
  <2> HIDE DEF file, r
  <2> QED BY <1>4, <2>1
<1>5. Upsert(n, b) = <<Write(file, r), Sync>>
  BY DEF Upsert
<1> HIDE DEF file, r
<1>6. PICK s \in Seq(Steps) :
        s = <<Write(file, r), Sync>> /\ Len(s) = 2 /\ s[1] = Write(file, r) /\ s[2] = Sync
  BY <1>1, <1>4, WriteIs, SyncIs, TupleOfTwo
<1>7. WritesRecord(s[1], file, r) /\ s[2].do = "sync"
  BY <1>1, <1>4, <1>6, WriteIs, SyncIs DEF WritesRecord
<1> QED BY <1>4, <1>5, <1>6, <1>7, <1>8, Zenon DEF PlannedProposal, file

(* What a change of status plans to do: to write the record and to sync.    *)
LEMMA ChangeIs ==
  ASSUME KnowledgeShape, NEW f \in RecordFiles, records[f] # Missing,
         NEW new \in {"active", "rejected", "superseded"}
  PROVE  LET s == <<Write(f, [records[f] EXCEPT !.status = new]), Sync>>
         IN  s \in Seq(Steps) /\ PlannedChange(s, f, new)
<1> DEFINE r == [records[f] EXCEPT !.status = new]
<1>1. records[f] \in Held
  BY DEF KnowledgeShape
<1>2. r \in Held
  BY <1>1, HeldIs
<1> HIDE DEF r
<1>3. PICK s \in Seq(Steps) :
        s = <<Write(f, r), Sync>> /\ Len(s) = 2 /\ s[1] = Write(f, r) /\ s[2] = Sync
  BY <1>2, WriteIs, SyncIs, TupleOfTwo
<1>4. WritesRecord(s[1], f, r) /\ s[2].do = "sync"
  BY <1>2, <1>3, WriteIs, SyncIs DEF WritesRecord
<1> QED BY <1>3, <1>4, Zenon DEF PlannedChange, r

(* The version after another is above it.                                   *)
LEMMA NextVersionIs ==
  ASSUME NEW r \in Held, NEW old \in Held \cup {Missing}
  PROVE  NextVersion(r, old) \in Nat /\ (old # Missing => NextVersion(r, old) > old.version)
<1>1. r.version \in Nat /\ (old # Missing => old.version \in Nat)
  BY HeldIs
<1> QED BY <1>1 DEF NextVersion, Largest

(* What the approval of a proposal plans to do: the archive before the new  *)
(* main record, the proposal after it.                                      *)
LEMMA MergeIs ==
  ASSUME KnowledgeShape, NEW f \in RecordFiles, records[f] # Missing, f # Main(f[1])
  PROVE  Approval(f) \in Seq(Steps) /\ PlannedMerge(Approval(f), f)
<1> DEFINE n == f[1]
           old == records[Main(n)]
           new == Record("active", records[f].body, NextVersion(records[f], old))
           done == [records[f] EXCEPT !.status = "superseded"]
<1>1. n \in Names /\ Main(n) \in RecordFiles
  BY MainIs
<1>2. records[f] \in Held /\ old \in Held \cup {Missing}
  BY <1>1 DEF KnowledgeShape
<1>3. new \in Held
  BY <1>2, NextVersionIs, HeldIs
<1>4. done \in Held
  BY <1>2, HeldIs
<1>5. Approval(f) = Preserved(n, old) \o <<Write(Main(n), new), Write(f, done), Sync>>
  BY DEF Approval
<1> HIDE DEF n, new, old, done
<1>6. CASE old = Missing
  <2>1. PICK s \in Seq(Steps) :
          /\ s = <<>> \o <<Write(Main(n), new), Write(f, done), Sync>> /\ Len(s) = 3
          /\ s[1] = Write(Main(n), new) /\ s[2] = Write(f, done) /\ s[3] = Sync
    BY <1>1, <1>3, <1>4, WriteIs, SyncIs, TupleOfThree
  <2>2. Approval(f) = s
    BY <1>5, <1>6, <2>1 DEF Preserved
  <2>3. WritesRecord(s[1], Main(n), new) /\ WritesRecord(s[2], f, done) /\ s[3].do = "sync"
    BY <1>1, <1>3, <1>4, <2>1, WriteIs, SyncIs DEF WritesRecord
  <2>4. PlannedMerge(s, f)
    BY <1>6, <2>1, <2>3, Zenon DEF PlannedMerge, n, new, old, done
  <2> QED BY <2>2, <2>4
<1>7. CASE old # Missing
  <2>1. old \in Held
    BY <1>2, <1>7
  <2>2. PICK s \in Seq(Steps) :
          /\ s = <<Archive(n, old)>> \o <<Write(Main(n), new), Write(f, done), Sync>>
          /\ Len(s) = 4 /\ s[1] = Archive(n, old)
          /\ s[2] = Write(Main(n), new) /\ s[3] = Write(f, done) /\ s[4] = Sync
    <3>1. /\ Archive(n, old) \in Steps /\ Write(Main(n), new) \in Steps
          /\ Write(f, done) \in Steps /\ Sync \in Steps
      BY <1>1, <1>3, <1>4, <2>1, WriteIs, ArchiveIs, SyncIs
    <3> DEFINE a == Archive(n, old)
               b == Write(Main(n), new)
               c == Write(f, done)
    <3> HIDE DEF Steps, a, b, c
    <3>2. a \in Steps /\ b \in Steps /\ c \in Steps /\ Sync \in Steps
      BY <3>1 DEF a, b, c
    <3>3. \E s \in Seq(Steps) :
            /\ s = <<a>> \o <<b, c, Sync>> /\ Len(s) = 4
            /\ s[1] = a /\ s[2] = b /\ s[3] = c /\ s[4] = Sync
      BY <3>2, TupleOfFour, SMTT(30)
    <3> QED BY <3>3, Zenon DEF a, b, c
  <2>3. Approval(f) = s
    BY <1>5, <1>7, <2>2 DEF Preserved
  <2>4. /\ ArchivesRecord(s[1], n, old) /\ WritesRecord(s[2], Main(n), new)
        /\ WritesRecord(s[3], f, done) /\ s[4].do = "sync"
    BY <1>1, <1>3, <1>4, <2>1, <2>2, WriteIs, ArchiveIs, SyncIs DEF WritesRecord, ArchivesRecord
  <2>5. PlannedMerge(s, f)
    BY <1>7, <2>2, <2>4, Zenon DEF PlannedMerge, n, new, old, done
  <2> QED BY <2>3, <2>5
<1> QED BY <1>6, <1>7

(* What starts: a proposal, an approval or a rejection.                     *)
LEMMA StartIs ==
  ASSUME KnowledgeShape, NEW p \in Stores, Propose(p) \/ Approve(p) \/ Reject(p)
  PROVE  \E s \in Seq(Steps) :
           /\ writes[p] = <<>> /\ writes' = [writes EXCEPT ![p] = s] /\ ops' = ops + 1
           /\ UNCHANGED <<records, archive, index, signed, deaths>>
           /\ \/ PlannedProposal(s) /\ approved' = approved
              \/ \E f \in RecordFiles :
                   /\ records[f] # Missing /\ ~ Violates(records[f])
                   /\ approved' = [approved EXCEPT ![f[1]] = @ \cup {records[f].body}]
                   /\ IF f = Main(f[1]) THEN PlannedChange(s, f, "active") ELSE PlannedMerge(s, f)
              \/ \E f \in RecordFiles :
                   /\ records[f] # Missing /\ approved' = approved
                   /\ PlannedChange(s, f, "rejected")
<1>1. CASE Propose(p)
  <2>1. PICK n \in Names, b \in Bodies : Start(p, Upsert(n, b)) /\ approved' = approved
    BY <1>1 DEF Propose
  <2>2. Upsert(n, b) \in Seq(Steps) /\ PlannedProposal(Upsert(n, b))
    BY ProposalIs
  <2>3. /\ writes[p] = <<>> /\ writes' = [writes EXCEPT ![p] = Upsert(n, b)] /\ ops' = ops + 1
        /\ UNCHANGED <<records, archive, index, signed, deaths>>
    BY <2>1, Zenon DEF Start
  <2> DEFINE s == Upsert(n, b)
  <2> HIDE DEF s
  <2>4. s \in Seq(Steps) /\ PlannedProposal(s) /\ approved' = approved
    BY <2>1, <2>2 DEF s
  <2> QED BY <2>3, <2>4 DEF s
<1>2. CASE Approve(p)
  <2>1. PICK f \in RecordFiles :
          /\ MayApprove(f) /\ Start(p, Approval(f))
          /\ approved' = [approved EXCEPT ![f[1]] = @ \cup {records[f].body}]
    BY <1>2 DEF Approve
  <2>2. records[f] # Missing /\ ~ Violates(records[f])
    BY <2>1 DEF MayApprove
  <2>3. /\ Approval(f) \in Seq(Steps)
        /\ IF f = Main(f[1]) THEN PlannedChange(Approval(f), f, "active")
                             ELSE PlannedMerge(Approval(f), f)
    <3>1. CASE f = Main(f[1])
      <4>1. Approval(f) = <<Write(f, [records[f] EXCEPT !.status = "active"]), Sync>>
        BY <3>1 DEF Approval
      <4> QED BY <2>2, <3>1, <4>1, ChangeIs
    <3>2. CASE f # Main(f[1])
      BY <2>2, <3>2, MergeIs
    <3> QED BY <3>1, <3>2
  <2> QED BY <2>1, <2>2, <2>3, Zenon DEF Start
<1>3. CASE Reject(p)
  <2>1. PICK f \in RecordFiles :
          records[f] # Missing /\ Start(p, Rejection(f)) /\ approved' = approved
    BY <1>3 DEF Reject
  <2>2. Rejection(f) \in Seq(Steps) /\ PlannedChange(Rejection(f), f, "rejected")
    BY <2>1, ChangeIs DEF Rejection
  <2> QED BY <2>1, <2>2, Zenon DEF Start
<1> QED BY <1>1, <1>2, <1>3

(* What the steps of the program change.                                    *)
LEMMA ShapeStep ==
  ASSUME KnowledgeShape, [KnowledgeNext]_knowledgeVars
  PROVE  KnowledgeShape'
<1>1. ASSUME NEW p \in Stores, Propose(p) \/ Approve(p) \/ Reject(p) PROVE KnowledgeShape'
  <2>1. PICK s \in Seq(Steps) :
           /\ writes' = [writes EXCEPT ![p] = s] /\ ops' = ops + 1
           /\ UNCHANGED <<records, archive, index, signed, deaths>>
           /\ \/ approved' = approved
              \/ \E f \in RecordFiles :
                   /\ records[f] # Missing
                   /\ approved' = [approved EXCEPT ![f[1]] = @ \cup {records[f].body}]
    BY <1>1, StartIs, Zenon
  <2>2. approved' \in [Names -> SUBSET Bodies]
    <3>1. ASSUME NEW f \in RecordFiles, records[f] # Missing,
                 approved' = [approved EXCEPT ![f[1]] = @ \cup {records[f].body}]
          PROVE  approved' \in [Names -> SUBSET Bodies]
      <4>1. records[f] \in Held
        BY <3>1 DEF KnowledgeShape
      <4>2. records[f].body \in Bodies /\ f[1] \in Names
        BY <4>1, HeldIs, MainIs
      <4>3. approved \in [Names -> SUBSET Bodies]
        BY DEF KnowledgeShape
      <4> QED BY <3>1, <4>2, <4>3
    <3> QED BY <2>1, <3>1 DEF KnowledgeShape
  <2>3. writes' \in [Stores -> Seq(Steps)]
    BY <2>1 DEF KnowledgeShape
  <2> QED BY <2>1, <2>2, <2>3 DEF KnowledgeShape
<1>2. ASSUME NEW p \in Stores, WriteRecord(p) \/ ArchiveRecord(p) \/ SyncIndex(p)
      PROVE  writes' \in [Stores -> Seq(Steps)] /\ Head(writes[p]) \in Steps
  <2>1. writes[p] \in Seq(Steps)
    BY DEF KnowledgeShape
  <2>2. writes[p] # <<>> /\ writes' = [writes EXCEPT ![p] = Tail(writes[p])]
    BY <1>2 DEF WriteRecord, ArchiveRecord, SyncIndex, Doing, Done
  <2>3. Tail(writes[p]) \in Seq(Steps) /\ Head(writes[p]) \in Steps
    BY <2>1, <2>2, SeqIs
  <2> QED BY <2>2, <2>3 DEF KnowledgeShape
<1>3. ASSUME NEW p \in Stores, WriteRecord(p) PROVE KnowledgeShape'
  <2>1. Head(writes[p]).do = "write"
    BY <1>3 DEF WriteRecord, Doing
  <2>2. Head(writes[p]).file \in RecordFiles /\ Head(writes[p]).record \in Held
    BY <1>2, <1>3, <2>1, StepIs, SyncIs
  <2>3. records' \in [RecordFiles -> Held \cup {Missing}]
    BY <1>3, <2>2 DEF WriteRecord, KnowledgeShape
  <2> QED BY <1>2, <1>3, <2>3 DEF WriteRecord, KnowledgeShape
<1>4. ASSUME NEW p \in Stores, ArchiveRecord(p) PROVE KnowledgeShape'
  <2> DEFINE w == Head(writes[p])
             n == w.file[1]
             r == records[Main(n)]
  <2>1. w.do = "archive"
    BY <1>4 DEF ArchiveRecord, Doing
  <2>2. w.file \in Mains /\ w.record \in Held
    BY <1>2, <1>4, <2>1, StepIs, SyncIs
  <2>3. n \in Names /\ Main(n) \in RecordFiles /\ w.record.version \in Nat
    BY <2>2, MainIs, HeldIs
  <2>4. r # Missing => r.body \in Bodies
    <3>1. r \in Held \cup {Missing}
      BY <2>3 DEF KnowledgeShape
    <3> QED BY <3>1, HeldIs
  <2>5. archive' = archive \cup (IF r = Missing THEN {} ELSE {<<n, w.record.version, r.body>>})
    BY <1>4 DEF ArchiveRecord
  <2> HIDE DEF w, n, r
  <2>6. archive' \subseteq Names \X Nat \X Bodies
    BY <2>3, <2>4, <2>5 DEF KnowledgeShape
  <2> QED BY <1>2, <1>4, <2>6 DEF ArchiveRecord, KnowledgeShape
<1>5. ASSUME NEW p \in Stores, SyncIndex(p) PROVE KnowledgeShape'
  BY <1>2, <1>5 DEF SyncIndex, KnowledgeShape
<1>6. ASSUME NEW p \in Stores, Search(p) PROVE KnowledgeShape'
  BY <1>6 DEF Search, KnowledgeShape
<1>7. ASSUME NEW p \in Stores, Die(p) PROVE KnowledgeShape'
  <2>1. <<>> \in Seq(Steps)
    OBVIOUS
  <2> QED BY <1>7, <2>1 DEF Die, KnowledgeShape
<1>8. CASE EditByHand
  <2>1. PICK f \in RecordFiles :
          /\ records[f] # Missing
          /\ \E r \in {Missing, [records[f] EXCEPT !.status = "rejected"]} :
               records' = [records EXCEPT ![f] = r]
    BY <1>8 DEF EditByHand
  <2>2. records[f] \in Held
    BY <2>1 DEF KnowledgeShape
  <2>3. [records[f] EXCEPT !.status = "rejected"] \in Held
    BY <2>2, HeldIs
  <2>4. records' \in [RecordFiles -> Held \cup {Missing}]
    BY <2>1, <2>3 DEF KnowledgeShape
  <2> QED BY <1>8, <2>4 DEF EditByHand, KnowledgeShape
<1>9. CASE UNCHANGED knowledgeVars
  BY <1>9 DEF knowledgeVars, KnowledgeShape
<1> QED BY <1>1, <1>3, <1>4, <1>5, <1>6, <1>7, <1>8, <1>9 DEF KnowledgeNext

-----------------------------------------------------------------------------
(* What is planned: how the steps that are started write.                   *)
LEMMA PlannedProposalIs ==
  ASSUME KnowledgeShape, NEW s \in Seq(Steps), PlannedProposal(s)
  PROVE  \E n \in Names, b \in Bodies :
           \A i \in DOMAIN s : s[i].do = "write" =>
             i = 1 /\ s[i].file = Target(n, b) /\ ~ Active(s[i].record)
<1>1. PICK n \in Names, b \in Bodies, r \in Held :
        /\ Len(s) = 2 /\ WritesRecord(s[1], Target(n, b), r) /\ s[2].do = "sync" /\ r.status # "active"
  BY DEF PlannedProposal
<1>2. DOMAIN s = 1..2
  BY <1>1, SeqIs
<1>3. \A i \in DOMAIN s : i = 1 \/ i = 2
  BY <1>2
<1> QED BY <1>1, <1>3 DEF WritesRecord, Active

(* The only write of a planned change is of its own file, under the new     *)
(* status.                                                                  *)
LEMMA PlannedChangeIs ==
  ASSUME KnowledgeShape, NEW s \in Seq(Steps), NEW f \in RecordFiles, records[f] # Missing,
         NEW new \in {"active", "rejected", "superseded"}, PlannedChange(s, f, new)
  PROVE  \A i \in DOMAIN s : s[i].do = "write" =>
           /\ i = 1 /\ s[i].file = f /\ s[i].record.status = new
           /\ s[i].record.body = records[f].body
<1>1. records[f] \in Held
  BY DEF KnowledgeShape
<1>2. /\ [records[f] EXCEPT !.status = new].body = records[f].body
      /\ [records[f] EXCEPT !.status = new].status = new
  BY <1>1, HeldIs
<1>3. DOMAIN s = 1..2
  BY SeqIs DEF PlannedChange
<1>4. \A i \in DOMAIN s : i = 1 \/ i = 2
  BY <1>3
<1> QED BY <1>2, <1>4 DEF PlannedChange, WritesRecord

(* The writes of a planned approval are the new main record, the archive of *)
(* the old one and the end of the proposal.                                 *)
LEMMA PlannedMergeIs ==
  ASSUME KnowledgeShape, NEW s \in Seq(Steps), NEW f \in RecordFiles, records[f] # Missing,
         f # Main(f[1]), PlannedMerge(s, f)
  PROVE  LET n == f[1]
             old == records[Main(n)]
         IN  \A i \in DOMAIN s : s[i].do = "write" =>
               \/ /\ s[i].file = Main(n) /\ s[i].record.status = "active"
                  /\ s[i].record.body = records[f].body
                  /\ old # Missing =>
                       /\ i = 2 /\ s[i].record.version > old.version
                       /\ s[1].do = "archive" /\ s[1].file = Main(n) /\ s[1].record = old
                  /\ \A j \in DOMAIN s : s[j].do = "write" /\ s[j].file = Main(n) => j = i
               \/ /\ s[i].file = f /\ s[i].record.status = "superseded"
                  /\ \A j \in DOMAIN s : s[j].do = "write" /\ s[j].file = f => j = i
<1> DEFINE n == f[1]
           old == records[Main(n)]
           new == Record("active", records[f].body, NextVersion(records[f], old))
           done == [records[f] EXCEPT !.status = "superseded"]
<1>1. n \in Names /\ Main(n) \in RecordFiles /\ Main(n) # f
  BY MainIs
<1>2. records[f] \in Held /\ old \in Held \cup {Missing}
  BY <1>1 DEF KnowledgeShape
<1>3. /\ new.status = "active" /\ new.body = records[f].body
      /\ old # Missing => new.version > old.version
  <2>1. NextVersion(records[f], old) \in Nat /\ records[f].body \in Bodies
    BY <1>2, NextVersionIs, HeldIs
  <2>2. old # Missing => NextVersion(records[f], old) > old.version
    BY <1>2, NextVersionIs
  <2>3. /\ new.status = "active" /\ new.body = records[f].body
        /\ new.version = NextVersion(records[f], old)
    BY <2>1, HeldIs
  <2> HIDE DEF new, old
  <2> QED BY <2>2, <2>3
<1>4. done.status = "superseded"
  BY <1>2, HeldIs
<1>5. \/ /\ old = Missing /\ Len(s) = 3
         /\ WritesRecord(s[1], Main(n), new) /\ WritesRecord(s[2], f, done) /\ s[3].do = "sync"
      \/ /\ old # Missing /\ Len(s) = 4 /\ ArchivesRecord(s[1], n, old)
         /\ WritesRecord(s[2], Main(n), new) /\ WritesRecord(s[3], f, done) /\ s[4].do = "sync"
  BY DEF PlannedMerge
<1> HIDE DEF n, old, new, done
<1>6. CASE /\ old = Missing /\ Len(s) = 3
           /\ WritesRecord(s[1], Main(n), new) /\ WritesRecord(s[2], f, done) /\ s[3].do = "sync"
  <2>1. \A i \in DOMAIN s : i = 1 \/ i = 2 \/ i = 3
    BY <1>6, SeqIs
  <2> QED BY <1>1, <1>3, <1>4, <1>6, <2>1 DEF WritesRecord, n, old
<1>7. CASE /\ old # Missing /\ Len(s) = 4 /\ ArchivesRecord(s[1], n, old)
           /\ WritesRecord(s[2], Main(n), new) /\ WritesRecord(s[3], f, done) /\ s[4].do = "sync"
  <2>1. \A i \in DOMAIN s : i = 1 \/ i = 2 \/ i = 3 \/ i = 4
    BY <1>7, SeqIs
  <2> QED BY <1>1, <1>3, <1>4, <1>7, <2>1 DEF WritesRecord, ArchivesRecord, n, old
<1> QED BY <1>5, <1>6, <1>7

(* An edit by hand makes nothing active and changes no text. *)
LEMMA EditIs ==
  ASSUME KnowledgeShape, EditByHand
  PROVE  \A f \in RecordFiles :
           /\ Active(records'[f]) => records'[f] = records[f]
           /\ records'[f] = Missing \/ records'[f].body = records[f].body
           /\ Active(records[f]) => records'[f].status # "candidate"
<1>1. PICK f \in RecordFiles :
          /\ records[f] # Missing
          /\ \E r \in {Missing, [records[f] EXCEPT !.status = "rejected"]} :
               records' = [records EXCEPT ![f] = r]
  BY DEF EditByHand
<1>2. records[f] \in Held
  BY <1>1 DEF KnowledgeShape
<1>3. ASSUME NEW r \in {Missing, [records[f] EXCEPT !.status = "rejected"]}
      PROVE  /\ ~ Active(r) /\ r.status # "candidate"
             /\ r = Missing \/ r.body = records[f].body
  <2>1. Missing.status # "candidate" /\ ~ Active(Missing)
    BY DEF Missing, Active
  <2>2. LET new == [records[f] EXCEPT !.status = "rejected"]
        IN  new.status = "rejected" /\ new.body = records[f].body
    BY <1>2, HeldIs
  <2> QED BY <2>1, <2>2 DEF Active
<1>4. PICK r \in {Missing, [records[f] EXCEPT !.status = "rejected"]} :
        records' = [records EXCEPT ![f] = r]
  BY <1>1
<1>5. \A g \in RecordFiles : records'[g] = IF g = f THEN r ELSE records[g]
  BY <1>4 DEF KnowledgeShape
<1>6. ~ Active(r) /\ r.status # "candidate" /\ (r = Missing \/ r.body = records[f].body)
  BY <1>3
<1> QED BY <1>5, <1>6 DEF Active

(* What is planned makes active only what a person approved.                *)
LEMMA ApprovedStep ==
  ASSUME KnowledgeInv, [KnowledgeNext]_knowledgeVars
  PROVE  ActiveIsApproved' /\ \A p \in Stores : WritesApproved(approved', writes'[p])
<1>a. KnowledgeShape /\ ActiveIsApproved /\ \A p \in Stores : WritesApproved(approved, writes[p])
  BY DEF KnowledgeInv
<1>1. \A n \in Names : approved[n] \subseteq approved'[n]
  <2>1. ASSUME NEW f \in RecordFiles,
               approved' = [approved EXCEPT ![f[1]] = @ \cup {records[f].body}]
        PROVE  \A n \in Names : approved[n] \subseteq approved'[n]
    BY <1>a, <2>1 DEF KnowledgeShape
  <2>2. \/ approved' = approved
        \/ \E f \in RecordFiles : approved' = [approved EXCEPT ![f[1]] = @ \cup {records[f].body}]
    BY DEF KnowledgeNext, knowledgeVars, EditByHand, Propose, Approve, Reject, Search, Die,
       WriteRecord, ArchiveRecord, SyncIndex
  <2> QED BY <2>1, <2>2
<1>2. \A f \in RecordFiles : \A r : Approved(approved, f, r) => Approved(approved', f, r)
  BY <1>1, MainIs DEF Approved, Violates
<1>3. ASSUME NEW s \in Seq(Steps), WritesApproved(approved, s)
      PROVE  WritesApproved(approved', s)
  <2>1. \A i \in DOMAIN s : s[i].do = "write" => s[i].file \in RecordFiles
    BY SeqIs, StepIs, SyncIs
  <2> QED BY <1>2, <1>3, <2>1 DEF WritesApproved
<1>4. ASSUME records' = records PROVE ActiveIsApproved'
  <2>1. \A f \in RecordFiles : Active(records[f]) => Approved(approved, f, records[f])
    BY <1>a DEF ActiveIsApproved, Approved
  <2>2. \A f \in RecordFiles : Active(records[f]) => Approved(approved', f, records[f])
    BY <1>2, <1>4, <2>1 DEF Approved, Violates
  <2> QED BY <1>4, <2>2 DEF ActiveIsApproved, Approved
<1>5. ASSUME NEW p \in Stores, NEW s, writes' = [writes EXCEPT ![p] = s],
             WritesApproved(approved', s)
      PROVE  \A q \in Stores : WritesApproved(approved', writes'[q])
  <2>1. ASSUME NEW q \in Stores PROVE WritesApproved(approved', writes'[q])
    <3>1. writes[q] \in Seq(Steps) /\ WritesApproved(approved, writes[q])
      BY <1>a DEF KnowledgeShape
    <3>2. CASE q = p
      <4>1. writes'[q] = s
        BY <1>5, <3>2, <1>a DEF KnowledgeShape
      <4> QED BY <1>5, <4>1 DEF WritesApproved, Approved, Violates, Active
    <3>3. CASE q # p
      <4>1. writes'[q] = writes[q]
        BY <1>5, <3>3, <1>a DEF KnowledgeShape
      <4>2. WritesApproved(approved', writes[q])
        BY <1>3, <3>1
      <4> QED BY <4>1, <4>2 DEF WritesApproved, Approved, Violates, Active
    <3> QED BY <3>2, <3>3
  <2> QED BY <2>1
<1>6. ASSUME writes' = writes PROVE \A q \in Stores : WritesApproved(approved', writes'[q])
  <2>1. ASSUME NEW q \in Stores PROVE WritesApproved(approved', writes'[q])
    <3>1. writes[q] \in Seq(Steps) /\ WritesApproved(approved, writes[q])
      BY <1>a DEF KnowledgeShape
    <3>2. WritesApproved(approved', writes[q])
      BY <1>3, <3>1
    <3> QED BY <1>6, <3>2 DEF WritesApproved, Approved, Violates, Active
  <2> QED BY <2>1
<1>7. ASSUME NEW p \in Stores, Propose(p) \/ Approve(p) \/ Reject(p)
      PROVE  ActiveIsApproved' /\ \A q \in Stores : WritesApproved(approved', writes'[q])
  <2>1. PICK s \in Seq(Steps) :
           /\ writes' = [writes EXCEPT ![p] = s] /\ records' = records
           /\ \/ PlannedProposal(s) /\ approved' = approved
              \/ \E f \in RecordFiles :
                   /\ records[f] # Missing /\ ~ Violates(records[f])
                   /\ approved' = [approved EXCEPT ![f[1]] = @ \cup {records[f].body}]
                   /\ IF f = Main(f[1]) THEN PlannedChange(s, f, "active") ELSE PlannedMerge(s, f)
              \/ \E f \in RecordFiles :
                   /\ records[f] # Missing /\ approved' = approved
                   /\ PlannedChange(s, f, "rejected")
    BY <1>a, <1>7, StartIs, Zenon
  <2>2. ASSUME PlannedProposal(s)
        PROVE  \A i \in DOMAIN s : s[i].do = "write" => ~ Active(s[i].record)
    BY <1>a, <2>2, PlannedProposalIs
  <2>3. ASSUME NEW f \in RecordFiles, records[f] # Missing, PlannedChange(s, f, "rejected")
        PROVE  \A i \in DOMAIN s : s[i].do = "write" => ~ Active(s[i].record)
    BY <1>a, <2>3, PlannedChangeIs DEF Active
  <2>4. ASSUME NEW f \in RecordFiles, records[f] # Missing, ~ Violates(records[f]),
               approved' = [approved EXCEPT ![f[1]] = @ \cup {records[f].body}],
               IF f = Main(f[1]) THEN PlannedChange(s, f, "active") ELSE PlannedMerge(s, f)
        PROVE  WritesApproved(approved', s)
    <3>1. f[1] \in Names /\ Main(f[1])[1] = f[1]
      BY MainIs
    <3>2. records[f].body \in approved'[f[1]]
      BY <1>a, <2>4, <3>1 DEF KnowledgeShape
    <3>3. \A i \in DOMAIN s : s[i].do = "write" /\ Active(s[i].record) =>
            s[i].file = Main(f[1]) /\ s[i].record.body = records[f].body
      <4>1. CASE f = Main(f[1])
        BY <1>a, <2>4, <4>1, PlannedChangeIs
      <4>2. CASE f # Main(f[1])
        BY <1>a, <2>4, <4>2, PlannedMergeIs DEF Active
      <4> QED BY <4>1, <4>2
    <3> QED BY <2>4, <3>1, <3>2, <3>3 DEF Approved, Violates, WritesApproved
  <2>5. WritesApproved(approved', s)
    BY <2>1, <2>2, <2>3, <2>4 DEF WritesApproved
  <2> QED BY <1>4, <1>5, <2>1, <2>5
<1>8. ASSUME NEW p \in Stores, WriteRecord(p) \/ ArchiveRecord(p) \/ SyncIndex(p)
      PROVE  \A q \in Stores : WritesApproved(approved', writes'[q])
  <2> DEFINE s == writes[p]
             t == Tail(s)
  <2>1. s \in Seq(Steps) /\ s # <<>> /\ WritesApproved(approved, s)
    BY <1>a, <1>8 DEF KnowledgeShape, WriteRecord, ArchiveRecord, SyncIndex, Doing
  <2>2. writes' = [writes EXCEPT ![p] = t]
    BY <1>8 DEF WriteRecord, ArchiveRecord, SyncIndex, Done
  <2>3. \A i \in DOMAIN t : i + 1 \in DOMAIN s /\ t[i] = s[i + 1]
    BY <2>1, SeqIs
  <2> HIDE DEF s, t
  <2>4. WritesApproved(approved', s)
    BY <1>3, <2>1
  <2>5. WritesApproved(approved', t)
    BY <2>3, <2>4 DEF WritesApproved
  <2> QED BY <1>5, <2>2, <2>5
<1>9. ASSUME NEW p \in Stores, WriteRecord(p) PROVE ActiveIsApproved'
  <2> DEFINE s == writes[p]
             w == Head(s)
  <2>1. s \in Seq(Steps) /\ s # <<>> /\ WritesApproved(approved, s)
    BY <1>a, <1>9 DEF KnowledgeShape, WriteRecord, Doing
  <2>2. w = s[1] /\ 1 \in DOMAIN s /\ w \in Steps
    BY <2>1, SeqIs
  <2>3. w.do = "write" /\ records' = [records EXCEPT ![w.file] = w.record] /\ approved' = approved
    BY <1>9 DEF WriteRecord, Doing
  <2> HIDE DEF s, w
  <2>4. w.file \in RecordFiles
    BY <2>2, <2>3, StepIs, SyncIs
  <2>5. Active(w.record) => Approved(approved, w.file, w.record)
    BY <2>1, <2>2, <2>3 DEF WritesApproved
  <2>6. \A f \in RecordFiles : records'[f] = IF f = w.file THEN w.record ELSE records[f]
    BY <1>a, <2>3 DEF KnowledgeShape
  <2> QED BY <1>a, <2>3, <2>4, <2>5, <2>6 DEF ActiveIsApproved, Approved, Violates
<1>10. CASE EditByHand
  <2>4. \A g \in RecordFiles : Active(records'[g]) => records'[g] = records[g]
    BY <1>a, <1>10, EditIs
  <2>5. approved' = approved /\ writes' = writes
    BY <1>10 DEF EditByHand
  <2> QED BY <1>a, <1>6, <2>4, <2>5 DEF ActiveIsApproved, Approved, Violates
<1>11. ASSUME NEW p \in Stores, Die(p)
       PROVE  \A q \in Stores : WritesApproved(approved', writes'[q])
  <2>1. writes' = [writes EXCEPT ![p] = <<>>] /\ DOMAIN << >> = {}
    BY <1>11 DEF Die
  <2> QED BY <1>5, <2>1 DEF WritesApproved
<1>12. ASSUME NEW p \in Stores, ArchiveRecord(p) \/ SyncIndex(p) \/ Search(p) \/ Die(p)
       PROVE  records' = records
  BY <1>12 DEF ArchiveRecord, SyncIndex, Search, Die
<1>13. ASSUME NEW p \in Stores, Search(p) PROVE writes' = writes
  BY <1>13 DEF Search
<1>14. CASE UNCHANGED knowledgeVars
  BY <1>4, <1>6, <1>14 DEF knowledgeVars
<1> QED BY <1>4, <1>6, <1>7, <1>8, <1>9, <1>10, <1>11, <1>12, <1>13, <1>14 DEF KnowledgeNext

(* The invariant of every execution. *)
LEMMA KnowledgeInvariant == KnowledgeSpec => []KnowledgeInv
<1>1. ASSUME KnowledgeInv, [KnowledgeNext]_knowledgeVars PROVE KnowledgeInv'
  BY <1>1, ShapeStep, ApprovedStep DEF KnowledgeInv
<1> QED BY <1>1, KnowledgeInitInv, PTL DEF KnowledgeSpec

(* What is active was approved by a person, that very text, and passes the gate. *)
THEOREM ActiveWasApproved == KnowledgeSpec => []ActiveIsApproved
<1>1. KnowledgeInv => ActiveIsApproved
  BY DEF KnowledgeInv
<1> QED BY <1>1, KnowledgeInvariant, PTL

-----------------------------------------------------------------------------
(* An operation is the last a version counts: no record is of a version     *)
(* greater than the number of operations.                                   *)
UpTo(s, k) == \A i \in DOMAIN s : s[i].do # "sync" => s[i].record.version <= k
VersionInv ==
  /\ ops <= MaxOps /\ deaths <= MaxCrashes
  /\ \A f \in RecordFiles : records[f].version <= ops /\ index[f].version <= ops
  /\ \A a \in archive : a[2] <= ops
  /\ \A p \in Stores : UpTo(writes[p], ops)

LEMMA VersionsAre ==
  ASSUME KnowledgeShape
  PROVE  /\ \A f \in RecordFiles : records[f].version \in Nat /\ index[f].version \in Nat
         /\ \A a \in archive : a[2] \in Nat
         /\ \A p \in Stores : \A i \in DOMAIN writes[p] :
              writes[p][i].do # "sync" => writes[p][i].record.version \in Nat
<1>1. \A f \in RecordFiles : records[f] \in Held \cup {Missing} /\ index[f] \in Held \cup {Missing}
  BY DEF KnowledgeShape
<1>2. \A r \in Held \cup {Missing} : r.version \in Nat
  BY HeldIs
<1>3. \A a \in archive : a[2] \in Nat
  BY DEF KnowledgeShape
<1>4. ASSUME NEW p \in Stores, NEW i \in DOMAIN writes[p], writes[p][i].do # "sync"
      PROVE  writes[p][i].record.version \in Nat
  <2>1. writes[p] \in Seq(Steps)
    BY DEF KnowledgeShape
  <2>2. writes[p][i] \in Steps
    BY <2>1, SeqIs
  <2>3. writes[p][i].record \in Held
    BY <1>4, <2>2, StepIs, SyncIs
  <2> QED BY <2>3, HeldIs
<1> QED BY <1>1, <1>2, <1>3, <1>4

LEMMA VersionInit == KnowledgeInit => VersionInv
<1> SUFFICES ASSUME KnowledgeInit PROVE VersionInv
  OBVIOUS
<1>1. \A f \in RecordFiles : records[f].version = 0 /\ index[f].version = 0
  BY DEF KnowledgeInit, Missing
<1>2. \A p \in Stores : UpTo(writes[p], ops)
  <2>1. \A p \in Stores : writes[p] = <<>> /\ DOMAIN writes[p] = {}
    BY DEF KnowledgeInit
  <2> QED BY <2>1 DEF UpTo
<1> QED BY <1>1, <1>2, KnowledgeAssumptions DEF KnowledgeInit, VersionInv

(* One version more than what was read, at most, is planned. *)
LEMMA PlannedVersions ==
  ASSUME KnowledgeShape, VersionInv, NEW p \in Stores, Propose(p) \/ Approve(p) \/ Reject(p)
  PROVE  \E s \in Seq(Steps) : writes' = [writes EXCEPT ![p] = s] /\ UpTo(s, ops + 1)
<1>1. PICK s \in Seq(Steps) :
        /\ writes' = [writes EXCEPT ![p] = s]
        /\ \/ PlannedProposal(s)
           \/ \E f \in RecordFiles :
                /\ records[f] # Missing
                /\ \/ PlannedChange(s, f, "active") \/ PlannedChange(s, f, "rejected")
                   \/ PlannedMerge(s, f)
  <2>1. \E s \in Seq(Steps) :
           /\ writes[p] = <<>> /\ writes' = [writes EXCEPT ![p] = s] /\ ops' = ops + 1
           /\ UNCHANGED <<records, archive, index, signed, deaths>>
           /\ \/ PlannedProposal(s) /\ approved' = approved
              \/ \E f \in RecordFiles :
                   /\ records[f] # Missing /\ ~ Violates(records[f])
                   /\ approved' = [approved EXCEPT ![f[1]] = @ \cup {records[f].body}]
                   /\ IF f = Main(f[1]) THEN PlannedChange(s, f, "active") ELSE PlannedMerge(s, f)
              \/ \E f \in RecordFiles :
                   /\ records[f] # Missing /\ approved' = approved
                   /\ PlannedChange(s, f, "rejected")
    BY StartIs
  <2> QED BY <2>1, Zenon
<1>2. /\ \A f \in RecordFiles : records[f].version \in Nat /\ records[f].version <= ops
      /\ ops \in Nat
  BY VersionsAre DEF VersionInv, KnowledgeShape
<1>3. \A f \in RecordFiles : records[f] \in Held \cup {Missing}
  BY DEF KnowledgeShape
<1>4. CASE PlannedProposal(s)
  <2>1. PICK n \in Names, b \in Bodies, r \in Held :
          /\ Len(s) = 2 /\ WritesRecord(s[1], Target(n, b), r) /\ s[2].do = "sync"
          /\ r.status # "active" /\ \E k \in RecordFiles : r.version = records[k].version + 1
    BY <1>4 DEF PlannedProposal
  <2>2. r.version <= ops + 1
    BY <1>2, <2>1
  <2>3. \A i \in DOMAIN s : i = 1 \/ i = 2
    BY <2>1, SeqIs
  <2> QED BY <1>1, <2>1, <2>2, <2>3 DEF UpTo, WritesRecord
<1>5. ASSUME NEW f \in RecordFiles, records[f] # Missing, NEW new \in {"active", "rejected"},
             PlannedChange(s, f, new)
      PROVE  UpTo(s, ops + 1)
  <2>1. [records[f] EXCEPT !.status = new].version = records[f].version
    BY <1>3, <1>5, HeldIs
  <2>2. records[f].version <= ops + 1
    BY <1>2
  <2>3. \A i \in DOMAIN s : i = 1 \/ i = 2
    BY <1>5, SeqIs DEF PlannedChange
  <2>4. /\ s[1].record = [records[f] EXCEPT !.status = new] /\ s[2].do = "sync"
    BY <1>5 DEF PlannedChange, WritesRecord
  <2> QED BY <2>1, <2>2, <2>3, <2>4 DEF UpTo
<1>6. ASSUME NEW f \in RecordFiles, records[f] # Missing, PlannedMerge(s, f)
      PROVE  UpTo(s, ops + 1)
  <2> DEFINE n == f[1]
             old == records[Main(n)]
             new == Record("active", records[f].body, NextVersion(records[f], old))
             done == [records[f] EXCEPT !.status = "superseded"]
  <2>1. n \in Names /\ Main(n) \in RecordFiles
    BY MainIs
  <2>2. old \in Held \cup {Missing} /\ records[f] \in Held
    BY <1>3, <1>6, <2>1
  <2>3. old.version <= ops + 1 /\ records[f].version <= ops + 1
    BY <1>2, <2>1
  <2>4. NextVersion(records[f], old) <= ops + 1
    <3>1. NextVersion(records[f], old) \in {records[f].version, old.version + 1}
      BY DEF NextVersion, Largest
    <3>2. old.version <= ops /\ old.version \in Nat
      BY <1>2, <2>1
    <3> QED BY <1>2, <2>3, <3>1, <3>2
  <2>5. new.version <= ops + 1
    BY <2>4 DEF Record
  <2>6. done.version <= ops + 1
    BY <2>2, <2>3, HeldIs
  <2>7. \/ /\ Len(s) = 3 /\ WritesRecord(s[1], Main(n), new) /\ WritesRecord(s[2], f, done) /\ s[3].do = "sync"
        \/ /\ Len(s) = 4 /\ ArchivesRecord(s[1], n, old)
           /\ WritesRecord(s[2], Main(n), new) /\ WritesRecord(s[3], f, done) /\ s[4].do = "sync"
    BY <1>6 DEF PlannedMerge
  <2> HIDE DEF n, old, new, done
  <2>8. \A i \in DOMAIN s : i \in 1 .. Len(s)
    BY SeqIs
  <2>9. CASE Len(s) = 3
    <3>1. \A i \in DOMAIN s : i = 1 \/ i = 2 \/ i = 3
      BY <2>8, <2>9
    <3> QED BY <2>5, <2>6, <2>7, <2>9, <3>1 DEF UpTo, WritesRecord, ArchivesRecord
  <2>10. CASE Len(s) = 4
    <3>1. \A i \in DOMAIN s : i = 1 \/ i = 2 \/ i = 3 \/ i = 4
      BY <2>8, <2>10
    <3> QED BY <2>3, <2>5, <2>6, <2>7, <2>10, <3>1 DEF UpTo, WritesRecord, ArchivesRecord
  <2> QED BY <2>7, <2>9, <2>10
<1> QED BY <1>1, <1>4, <1>5, <1>6

LEMMA VersionStep ==
  ASSUME KnowledgeShape, VersionInv, [KnowledgeNext]_knowledgeVars
  PROVE  VersionInv'
<1>1. ops \in Nat /\ deaths \in Nat /\ MaxOps \in Nat /\ MaxCrashes \in Nat
  BY KnowledgeAssumptions DEF KnowledgeShape
<1>2. ASSUME NEW p \in Stores, Propose(p) \/ Approve(p) \/ Reject(p) PROVE VersionInv'
  <2>1. PICK s \in Seq(Steps) : writes' = [writes EXCEPT ![p] = s] /\ UpTo(s, ops + 1)
    BY <1>2, PlannedVersions
  <2>2. /\ ops' = ops + 1 /\ ops < MaxOps /\ UNCHANGED <<records, archive, index, deaths>>
    BY <1>2 DEF Propose, Approve, Reject, Start
  <2>3. \A q \in Stores : UpTo(writes'[q], ops + 1)
    <3>1. ASSUME NEW q \in Stores, q # p PROVE UpTo(writes[q], ops + 1)
      <4>1. UpTo(writes[q], ops)
        BY DEF VersionInv
      <4>2. \A i \in DOMAIN writes[q] :
              writes[q][i].do # "sync" => writes[q][i].record.version \in Nat
        BY VersionsAre
      <4> QED BY <1>1, <4>1, <4>2 DEF UpTo
    <3>2. \A q \in Stores : writes'[q] = IF q = p THEN s ELSE writes[q]
      BY <2>1 DEF KnowledgeShape
    <3> QED BY <2>1, <3>1, <3>2
  <2>5. /\ \A f \in RecordFiles : records[f].version <= ops + 1 /\ index[f].version <= ops + 1
        /\ \A a \in archive : a[2] <= ops + 1
    BY <1>1, VersionsAre DEF VersionInv
  <2>6. ops + 1 <= MaxOps
    BY <1>1, <2>2
  <2> QED BY <2>2, <2>3, <2>5, <2>6 DEF VersionInv, UpTo
<1>3. ASSUME NEW p \in Stores, WriteRecord(p) \/ ArchiveRecord(p) \/ SyncIndex(p)
      PROVE  /\ \A q \in Stores : UpTo(writes'[q], ops)
             /\ writes[p] # <<>> /\ Head(writes[p]) \in Steps
             /\ Head(writes[p]).do # "sync" => Head(writes[p]).record.version <= ops
  <2>1. writes[p] \in Seq(Steps) /\ UpTo(writes[p], ops)
    BY DEF KnowledgeShape, VersionInv
  <2>2. writes[p] # <<>> /\ writes' = [writes EXCEPT ![p] = Tail(writes[p])]
    BY <1>3 DEF WriteRecord, ArchiveRecord, SyncIndex, Doing, Done
  <2>3. /\ Head(writes[p]) = writes[p][1] /\ 1 \in DOMAIN writes[p]
        /\ \A i \in DOMAIN Tail(writes[p]) :
             i + 1 \in DOMAIN writes[p] /\ Tail(writes[p])[i] = writes[p][i + 1]
    BY <2>1, <2>2, SeqIs
  <2>4. UpTo(Tail(writes[p]), ops)
    BY <2>1, <2>3 DEF UpTo
  <2>5. \A q \in Stores : writes'[q] = IF q = p THEN Tail(writes[p]) ELSE writes[q]
    BY <2>2 DEF KnowledgeShape
  <2>6. \A q \in Stores : UpTo(writes'[q], ops)
    BY <2>4, <2>5 DEF VersionInv
  <2>7. Head(writes[p]) \in Steps
    BY <2>1, <2>2, SeqIs
  <2> QED BY <2>1, <2>2, <2>3, <2>6, <2>7 DEF UpTo
<1>4. ASSUME NEW p \in Stores, WriteRecord(p) PROVE VersionInv'
  <2>1. Head(writes[p]).do # "sync"
    BY <1>4 DEF WriteRecord, Doing
  <2>2. Head(writes[p]).record.version <= ops
    BY <1>3, <1>4, <2>1
  <2>3. \A f \in RecordFiles : records'[f].version <= ops
    BY <1>4, <2>2 DEF WriteRecord, KnowledgeShape, VersionInv
  <2> QED BY <1>3, <1>4, <2>3 DEF WriteRecord, VersionInv, UpTo
<1>5. ASSUME NEW p \in Stores, ArchiveRecord(p) PROVE VersionInv'
  <2>1. Head(writes[p]).do # "sync"
    BY <1>5 DEF ArchiveRecord, Doing
  <2>2. Head(writes[p]).record.version <= ops
    BY <1>3, <1>5, <2>1
  <2>3. \A a \in archive' : a \in archive \/ a[2] = Head(writes[p]).record.version
    BY <1>5 DEF ArchiveRecord
  <2>4. \A a \in archive' : a[2] <= ops
    BY <2>2, <2>3 DEF VersionInv
  <2> QED BY <1>3, <1>5, <2>4 DEF ArchiveRecord, VersionInv, UpTo
<1>6. ASSUME NEW p \in Stores, SyncIndex(p) PROVE VersionInv'
  BY <1>3, <1>6 DEF SyncIndex, VersionInv, UpTo
<1>7. ASSUME NEW p \in Stores, Search(p) PROVE VersionInv'
  BY <1>7 DEF Search, VersionInv, UpTo
<1>8. ASSUME NEW p \in Stores, Die(p) PROVE VersionInv'
  <2>1. deaths' <= MaxCrashes /\ UNCHANGED <<records, archive, index, ops>>
    BY <1>1, <1>8 DEF Die
  <2>2. \A q \in Stores : writes'[q] = IF q = p THEN <<>> ELSE writes[q]
    BY <1>8 DEF Die, KnowledgeShape
  <2>3. UpTo(<<>>, ops)
    <3>1. DOMAIN <<>> = {}
      OBVIOUS
    <3> QED BY <3>1 DEF UpTo
  <2>4. \A q \in Stores : UpTo(writes'[q], ops)
    BY <2>2, <2>3 DEF VersionInv
  <2> QED BY <2>1, <2>4 DEF VersionInv, UpTo
<1>9. CASE EditByHand
  <2>1. PICK f \in RecordFiles :
          /\ records[f] # Missing
          /\ \E r \in {Missing, [records[f] EXCEPT !.status = "rejected"]} :
               records' = [records EXCEPT ![f] = r]
    BY <1>9 DEF EditByHand
  <2>2. records[f] \in Held
    BY <2>1 DEF KnowledgeShape
  <2>3. [records[f] EXCEPT !.status = "rejected"].version = records[f].version /\ Missing.version = 0
    BY <2>2, HeldIs DEF Missing
  <2>4. PICK r \in {Missing, [records[f] EXCEPT !.status = "rejected"]} :
          records' = [records EXCEPT ![f] = r]
    BY <2>1
  <2>5. r.version <= ops
    <3>1. records[f].version <= ops /\ 0 <= ops
      BY <1>1 DEF VersionInv
    <3>2. r.version = records[f].version \/ r.version = 0
      BY <2>3, Zenon
    <3> QED BY <3>1, <3>2
  <2>6. \A g \in RecordFiles : records'[g] = IF g = f THEN r ELSE records[g]
    BY <2>4 DEF KnowledgeShape
  <2>7. \A g \in RecordFiles : records'[g].version <= ops /\ index[g].version <= ops
    BY <2>5, <2>6 DEF VersionInv
  <2>8. /\ ops' = ops + 1 /\ ops < MaxOps /\ UNCHANGED <<archive, index, writes, deaths>>
    BY <1>9 DEF EditByHand
  <2>9. KnowledgeShape'
    BY ShapeStep
  <2>10. \A g \in RecordFiles : records'[g].version \in Nat
    <3>1. \A g \in RecordFiles : records'[g] \in Held \cup {Missing}
      BY <2>9 DEF KnowledgeShape
    <3> QED BY <3>1, HeldIs
  <2>11. \A g \in RecordFiles : records'[g].version <= ops + 1 /\ index[g].version <= ops + 1
    BY <1>1, <2>7, <2>10, VersionsAre
  <2>12. \A a \in archive : a[2] <= ops + 1
    BY <1>1, VersionsAre DEF VersionInv
  <2>13. \A q \in Stores : UpTo(writes[q], ops + 1)
    <3>1. \A q \in Stores : UpTo(writes[q], ops)
      BY DEF VersionInv
    <3> QED BY <1>1, <3>1, VersionsAre DEF UpTo
  <2> QED BY <1>1, <2>8, <2>11, <2>12, <2>13 DEF VersionInv, UpTo
<1>10. CASE UNCHANGED knowledgeVars
  BY <1>10 DEF knowledgeVars, VersionInv, UpTo
<1> QED BY <1>2, <1>4, <1>5, <1>6, <1>7, <1>8, <1>9, <1>10 DEF KnowledgeNext

LEMMA KnowledgeTypes == ASSUME KnowledgeShape, VersionInv PROVE KnowledgeTypeOK
<1> DEFINE N == 2 * MaxOps
           Marks == {"missing", "candidate", "active", "quarantined", "rejected", "superseded"}
           All == [status : Marks, body : Bodies \cup {"own"}, version : 0 .. N]
<1>1. \A k \in Nat : k <= ops => k \in 0 .. N
  BY KnowledgeAssumptions DEF VersionInv, KnowledgeShape
<1>2. ASSUME NEW r \in Held \cup {Missing}, r.version <= ops PROVE r \in All
  <2>1. r.version \in Nat
    BY HeldIs
  <2>2. r.version \in 0 .. N
    BY <1>1, <1>2, <2>1
  <2> HIDE DEF N
  <2>3. CASE r = Missing
    BY <2>2, <2>3 DEF Missing
  <2>4. CASE r \in Held
    BY <2>2, <2>4 DEF Held
  <2> QED BY <2>3, <2>4
<1>3. records \in [RecordFiles -> All] /\ index \in [RecordFiles -> All]
  <2>1. \A f \in RecordFiles : records[f] \in All /\ index[f] \in All
    <3> HIDE DEF All
    <3> QED BY <1>2 DEF KnowledgeShape, VersionInv
  <2> HIDE DEF All
  <2> QED BY <2>1 DEF KnowledgeShape
<1>4. archive \subseteq Names \X (0 .. N) \X Bodies
  <2>1. ASSUME NEW a \in archive PROVE a \in Names \X (0 .. N) \X Bodies
    <3>1. a \in Names \X Nat \X Bodies /\ a[2] <= ops
      BY DEF KnowledgeShape, VersionInv
    <3>2. a[2] \in 0 .. N
      BY <1>1, <3>1
    <3> HIDE DEF N
    <3> QED BY <3>1, <3>2
  <2> QED BY <2>1
<1>5. ASSUME NEW p \in Stores, NEW i \in DOMAIN writes[p]
      PROVE  writes[p][i].do \in {"write", "archive", "sync"}
  <2>1. writes[p] \in Seq(Steps)
    BY DEF KnowledgeShape
  <2>2. writes[p][i] \in Steps
    BY <2>1, SeqIs
  <2> QED BY <2>2, StepIs, SyncIs
<1>6. approved \in [Names -> SUBSET Bodies] /\ ops \in 0 .. MaxOps /\ deaths \in 0 .. MaxCrashes
  BY KnowledgeAssumptions DEF KnowledgeShape, VersionInv
<1> HIDE DEF All
<1> QED BY <1>3, <1>4, <1>5, <1>6 DEF KnowledgeTypeOK, All, N

-----------------------------------------------------------------------------
(* With one process that has a store.                                       *)
OneStore == \A p, q \in Stores : p = q

(* Two processes share the index and each trusts its own signature of it;   *)
(* one process's signature is that of the index.                            *)
SignatureOf(rs) == [f \in RecordFiles |-> <<rs[f].body, rs[f].status>>]
SignedIs ==
  /\ DOMAIN signed = Stores
  /\ \A p \in Stores : signed[p] = <<>> \/ signed[p] = SignatureOf(index)

(* The index of the only store is the one it signed. *)
LEMMA SignedStep ==
  ASSUME OneStore, SignedIs, [KnowledgeNext]_knowledgeVars
  PROVE  SignedIs'
<1>1. ASSUME UNCHANGED <<index, signed>> PROVE SignedIs'
  BY <1>1 DEF SignedIs, SignatureOf
<1>2. ASSUME NEW p \in Stores, Die(p) PROVE SignedIs'
  <2>1. index' = index /\ signed' = [signed EXCEPT ![p] = <<>>]
    BY <1>2 DEF Die
  <2>2. SignatureOf(index)' = SignatureOf(index)
    BY <2>1 DEF SignatureOf
  <2> QED BY <2>1, <2>2 DEF SignedIs
<1>3. ASSUME NEW p \in Stores, SyncIndex(p) \/ Search(p) PROVE SignedIs'
  <2>1. index' = records /\ signed' = [signed EXCEPT ![p] = Signature]
    BY <1>3 DEF SyncIndex, Search
  <2>2. Signature = SignatureOf(index)'
    BY <2>1 DEF Signature, SignatureOf
  <2>3. ASSUME NEW q \in Stores PROVE signed'[q] = Signature
    BY <2>1, <2>3 DEF OneStore, SignedIs
  <2>4. DOMAIN signed' = Stores
    BY <2>1 DEF SignedIs
  <2> QED BY <2>2, <2>3, <2>4 DEF SignedIs
<1>4. ASSUME NEW p \in Stores, Propose(p) \/ Approve(p) \/ Reject(p) PROVE SignedIs'
  BY <1>1, <1>4 DEF Propose, Approve, Reject, Start
<1>5. ASSUME NEW p \in Stores, WriteRecord(p) \/ ArchiveRecord(p) PROVE SignedIs'
  BY <1>1, <1>5 DEF WriteRecord, ArchiveRecord
<1>6. CASE EditByHand
  BY <1>1, <1>6 DEF EditByHand
<1>7. CASE UNCHANGED knowledgeVars
  BY <1>1, <1>7 DEF knowledgeVars
<1> QED BY <1>2, <1>3, <1>4, <1>5, <1>6, <1>7 DEF KnowledgeNext

(* A signature that is that of the files tells what the index holds. *)
LEMMA SignedIsServed ==
  ASSUME SignedIs
  PROVE  ServedIsFiled
<1> SUFFICES ASSUME NEW p \in Stores, signed[p] = Signature, NEW f \in RecordFiles
             PROVE  Active(index[f]) <=> Active(records[f])
  BY DEF ServedIsFiled
<1>1. CASE signed[p] = <<>>
  <2>1. DOMAIN Signature = RecordFiles
    BY DEF Signature
  <2>2. DOMAIN << >> = {}
    OBVIOUS
  <2> QED BY <1>1, <2>1, <2>2
<1>2. CASE signed[p] = SignatureOf(index)
  <2>1. Signature[f] = <<records[f].body, records[f].status>>
    BY DEF Signature
  <2>2. SignatureOf(index)[f] = <<index[f].body, index[f].status>>
    BY DEF SignatureOf
  <2>3. <<records[f].body, records[f].status>> = <<index[f].body, index[f].status>>
    BY <1>2, <2>1, <2>2
  <2> QED BY <2>3 DEF Active
<1> QED BY <1>1, <1>2 DEF SignedIs

(* What an operation still has to do is written once per file, makes no     *)
(* active record a candidate, and replaces an active text only by a newer   *)
(* one, after it is in the history.                                         *)
WritesOnce(s) ==
  \A i, j \in DOMAIN s :
    s[i].do = "write" /\ s[j].do = "write" /\ s[i].file = s[j].file => i = j
KeepsActive(rs, s) ==
  \A i \in DOMAIN s :
    s[i].do = "write" /\ Active(rs[s[i].file]) => s[i].record.status # "candidate"
IsKept(f, old, ar, s, i) ==
  \/ <<f[1], old.version, old.body>> \in ar
  \/ \E j \in DOMAIN s :
       j < i /\ s[j].do = "archive" /\ s[j].file = f /\ s[j].record.version = old.version
KeepsReplaced(rs, ar, s) ==
  \A i \in DOMAIN s :
    LET f == s[i].file IN
    /\ s[i].do = "write" /\ f \in Mains
    /\ Active(rs[f]) /\ s[i].record.body # rs[f].body
    => s[i].record.version > rs[f].version /\ IsKept(f, rs[f], ar, s, i)
Pending(rs, ar, s) ==
  WritesOnce(s) /\ KeepsActive(rs, s) /\ KeepsReplaced(rs, ar, s)

(* That stays so while active records only go and the history only grows. *)
LEMMA PendingWeakens ==
  ASSUME NEW s \in Seq(Steps), NEW rs, NEW ar, Pending(rs, ar, s),
         NEW new, \A f \in RecordFiles : Active(new[f]) => new[f] = rs[f],
         NEW more, ar \subseteq more
  PROVE  Pending(new, more, s)
<1>1. \A i \in DOMAIN s : s[i].do = "write" => s[i].file \in RecordFiles
  BY SeqIs, StepIs, SyncIs
<1>2. KeepsActive(new, s)
  BY <1>1 DEF Pending, KeepsActive
<1>3. KeepsReplaced(new, more, s)
  <2>1. ASSUME NEW i \in DOMAIN s, s[i].do = "write", s[i].file \in Mains,
               Active(new[s[i].file]), s[i].record.body # new[s[i].file].body
        PROVE  /\ s[i].record.version > new[s[i].file].version
               /\ IsKept(s[i].file, new[s[i].file], more, s, i)
    <3> DEFINE f == s[i].file
    <3>1. new[f] = rs[f]
      BY <1>1, <2>1
    <3>2. s[i].record.version > rs[f].version /\ IsKept(f, rs[f], ar, s, i)
      BY <2>1, <3>1 DEF Pending, KeepsReplaced
    <3>3. IsKept(f, rs[f], more, s, i)
      <4> HIDE DEF f
      <4> QED BY <3>2 DEF IsKept
    <3> QED BY <3>1, <3>2, <3>3
  <2> QED BY <2>1 DEF KeepsReplaced
<1> QED BY <1>2, <1>3 DEF Pending

(* It stays so when the next step is done. *)
LEMMA PendingTail ==
  ASSUME NEW s \in Seq(Steps), s # <<>>, NEW rs, NEW ar, Pending(rs, ar, s), NEW new, NEW more,
         ar \subseteq more,
         \/ s[1].do = "write" /\ \A f \in RecordFiles : f # s[1].file => new[f] = rs[f]
         \/ /\ s[1].do = "archive" /\ new = rs
            /\ Active(rs[s[1].file]) =>
                 <<s[1].file[1], s[1].record.version, rs[s[1].file].body>> \in more
         \/ s[1].do = "sync" /\ new = rs
  PROVE  Pending(new, more, Tail(s))
<1> DEFINE t == Tail(s)
<1>1. /\ 1 \in DOMAIN s
      /\ \A i \in DOMAIN t : i \in Nat /\ i + 1 \in DOMAIN s /\ i + 1 # 1 /\ t[i] = s[i + 1]
  <2>1. t \in Seq(Steps) /\ DOMAIN t = 1..Len(t) /\ Len(t) \in Nat
    BY SeqIs
  <2>2. \A i \in DOMAIN t : i \in Nat /\ i + 1 # 1
    <3> HIDE DEF t
    <3> QED BY <2>1
  <2> QED BY <2>2, SeqIs
<1>2. \A i \in DOMAIN s : s[i].do = "write" => s[i].file \in RecordFiles
  BY SeqIs, StepIs, SyncIs
<1>3. \A j \in DOMAIN s : j # 1 => j - 1 \in DOMAIN t /\ t[j - 1] = s[j]
  <2>1. DOMAIN t = 1..Len(t) /\ Len(t) \in Nat /\ DOMAIN s = 1..Len(s) /\ Len(s) \in Nat
    BY SeqIs
  <2>2. Len(t) = Len(s) - 1
    OBVIOUS
  <2>3. \A j \in DOMAIN s : j # 1 => j - 1 \in DOMAIN t /\ j - 1 + 1 = j
    <3> HIDE DEF t
    <3> QED BY <2>1, <2>2
  <2> HIDE DEF t
  <2> QED BY <1>1, <2>3
<1> HIDE DEF t
<1>4. WritesOnce(t)
  <2>1. ASSUME NEW i \in DOMAIN t, NEW j \in DOMAIN t, t[i].do = "write", t[j].do = "write",
               t[i].file = t[j].file
        PROVE  i = j
    <3>1. i + 1 = j + 1
      BY <1>1, <2>1 DEF Pending, WritesOnce
    <3> QED BY <1>1, <3>1
  <2> QED BY <2>1 DEF WritesOnce
<1>5. ASSUME NEW i \in DOMAIN t, t[i].do = "write"
      PROVE  /\ t[i].file \in RecordFiles /\ new[t[i].file] = rs[t[i].file]
  <2>1. t[i].file \in RecordFiles
    BY <1>1, <1>2, <1>5
  <2>2. s[1].do = "write" => t[i].file # s[1].file
    BY <1>1, <1>5 DEF Pending, WritesOnce
  <2> QED BY <2>1, <2>2
<1>6. KeepsActive(new, t)
  BY <1>1, <1>5 DEF Pending, KeepsActive
<1>7. ASSUME NEW i \in DOMAIN t, t[i].do = "write", t[i].file \in Mains,
             Active(new[t[i].file]), t[i].record.body # new[t[i].file].body
      PROVE  /\ t[i].record.version > new[t[i].file].version
             /\ IsKept(t[i].file, new[t[i].file], more, t, i)
  <2> DEFINE f == t[i].file
  <2>1. new[f] = rs[f] /\ t[i] = s[i + 1] /\ i + 1 \in DOMAIN s
    BY <1>1, <1>5, <1>7
  <2>2. t[i].record.version > rs[f].version /\ IsKept(f, rs[f], ar, s, i + 1)
    BY <1>7, <2>1 DEF Pending, KeepsReplaced
  <2> HIDE DEF f
  <2>3. IsKept(f, rs[f], more, t, i)
    <3>1. CASE <<f[1], rs[f].version, rs[f].body>> \in ar
      BY <3>1 DEF IsKept
    <3>2. ASSUME NEW j \in DOMAIN s, j < i + 1, s[j].do = "archive", s[j].file = f,
                 s[j].record.version = rs[f].version
          PROVE  IsKept(f, rs[f], more, t, i)
      <4>1. CASE j = 1
        <5>1. Active(rs[f])
          BY <1>7, <2>1 DEF f
        <5>2. <<f[1], rs[f].version, rs[f].body>> \in more
          BY <3>2, <4>1, <5>1
        <5> QED BY <5>2 DEF IsKept
      <4>2. CASE j # 1
        <5>1. j - 1 \in DOMAIN t /\ t[j - 1] = s[j]
          BY <1>3, <4>2
        <5>2. j - 1 < i
          <6>1. j \in Nat /\ i \in Nat
            BY <1>1, SeqIs
          <6> QED BY <3>2, <6>1
        <5> QED BY <3>2, <5>1, <5>2 DEF IsKept
      <4> QED BY <4>1, <4>2
    <3> QED BY <2>2, <3>1, <3>2 DEF IsKept
  <2> QED BY <2>1, <2>2, <2>3 DEF f
<1>8. KeepsReplaced(new, more, t)
  BY <1>7 DEF KeepsReplaced
<1> QED BY <1>4, <1>6, <1>8 DEF Pending, t

(* An operation is planned so. *)
LEMMA ProposalPending ==
  ASSUME KnowledgeShape, ActiveIsApproved, NEW s \in Seq(Steps), PlannedProposal(s)
  PROVE  Pending(records, archive, s)
<1>1. PICK n \in Names, b \in Bodies :
        \A i \in DOMAIN s : s[i].do = "write" =>
          i = 1 /\ s[i].file = Target(n, b) /\ ~ Active(s[i].record)
  BY PlannedProposalIs
<1>2. Target(n, b) \in RecordFiles /\ ~ Active(records[Target(n, b)])
  <2>1. <<n, b>> \in RecordFiles /\ <<n, b>> # Main(<<n, b>>[1])
    BY MainIs
  <2>2. ~ Active(records[<<n, b>>])
    BY <2>1 DEF ActiveIsApproved
  <2> QED BY <2>1, <2>2, MainIs DEF Target
<1> QED BY <1>1, <1>2 DEF Pending, WritesOnce, KeepsActive, KeepsReplaced

(* A change of status keeps the text. *)
LEMMA ChangePending ==
  ASSUME KnowledgeShape, NEW s \in Seq(Steps), NEW f \in RecordFiles, records[f] # Missing,
         NEW new \in {"active", "rejected", "superseded"}, PlannedChange(s, f, new)
  PROVE  Pending(records, archive, s)
<1>1. \A i \in DOMAIN s : s[i].do = "write" =>
           /\ i = 1 /\ s[i].file = f /\ s[i].record.status = new
           /\ s[i].record.body = records[f].body
  BY PlannedChangeIs
<1>2. new # "candidate"
  OBVIOUS
<1> QED BY <1>1, <1>2 DEF Pending, WritesOnce, KeepsActive, KeepsReplaced

(* An approved proposal is written after what it replaces is kept. *)
LEMMA MergePending ==
  ASSUME KnowledgeShape, NEW s \in Seq(Steps), NEW f \in RecordFiles, records[f] # Missing,
         f # Main(f[1]), PlannedMerge(s, f)
  PROVE  Pending(records, archive, s)
<1> DEFINE n == f[1]
           old == records[Main(n)]
<1>1. n \in Names /\ Main(n) \in RecordFiles /\ Main(n) # f /\ f \notin Mains
  BY MainIs
<1>2. \A i \in DOMAIN s : s[i].do = "write" =>
               \/ /\ s[i].file = Main(n) /\ s[i].record.status = "active"
                  /\ s[i].record.body = records[f].body
                  /\ old # Missing =>
                       /\ i = 2 /\ s[i].record.version > old.version
                       /\ s[1].do = "archive" /\ s[1].file = Main(n) /\ s[1].record = old
                  /\ \A j \in DOMAIN s : s[j].do = "write" /\ s[j].file = Main(n) => j = i
               \/ /\ s[i].file = f /\ s[i].record.status = "superseded"
                  /\ \A j \in DOMAIN s : s[j].do = "write" /\ s[j].file = f => j = i
  BY PlannedMergeIs
<1>3. \A i \in DOMAIN s : i \in Nat /\ (i = 2 => 1 \in DOMAIN s)
  BY SeqIs
<1>4. old = records[Main(n)] /\ (Active(old) => old # Missing)
  BY HeldIs
<1> HIDE DEF n, old
<1>5. WritesOnce(s)
  BY <1>1, <1>2 DEF WritesOnce
<1>6. KeepsActive(records, s)
  BY <1>1, <1>2 DEF KeepsActive
<1>7. ASSUME NEW i \in DOMAIN s, s[i].do = "write", s[i].file \in Mains, Active(records[s[i].file])
      PROVE  /\ s[i].record.version > records[s[i].file].version
             /\ IsKept(s[i].file, records[s[i].file], archive, s, i)
  <2>1. s[i].file = Main(n) /\ old # Missing
    BY <1>1, <1>2, <1>4, <1>7
  <2>2. /\ i = 2 /\ s[i].record.version > old.version
        /\ s[1].do = "archive" /\ s[1].file = Main(n) /\ s[1].record = old
    BY <1>1, <1>2, <1>7, <2>1
  <2>3. 1 \in DOMAIN s /\ 1 < i
    BY <1>3, <2>2
  <2> QED BY <1>4, <2>1, <2>2, <2>3 DEF IsKept
<1>8. KeepsReplaced(records, archive, s)
  BY <1>7 DEF KeepsReplaced
<1> QED BY <1>5, <1>6, <1>8 DEF Pending

(* Every step of the only store leaves what is pending so. *)
KeptInv == KnowledgeInv /\ \A p \in Stores : Pending(records, archive, writes[p])

(* Nothing is pending of a plan that has ended.                             *)
LEMMA NothingPending == \A rs, ar : Pending(rs, ar, <<>>)
<1>1. DOMAIN << >> = {}
  OBVIOUS
<1> QED BY <1>1 DEF Pending, WritesOnce, KeepsActive, KeepsReplaced

(* With one store at work, each step leaves the rest of its plan to be      *)
(* done.                                                                    *)
LEMMA PendingStep ==
  ASSUME OneStore, KeptInv, [KnowledgeNext]_knowledgeVars
  PROVE  \A p \in Stores : Pending(records', archive', writes'[p])
<1>a. KnowledgeShape /\ ActiveIsApproved /\ \A p \in Stores : Pending(records, archive, writes[p])
  BY DEF KeptInv, KnowledgeInv
<1>b. \A p \in Stores : writes[p] \in Seq(Steps)
  BY <1>a DEF KnowledgeShape
<1>1. ASSUME NEW p \in Stores, NEW s, writes' = [writes EXCEPT ![p] = s],
             Pending(records', archive', s)
      PROVE  \A q \in Stores : Pending(records', archive', writes'[q])
  <2>1. \A q \in Stores : writes'[q] = s
    BY <1>a, <1>1 DEF OneStore, KnowledgeShape
  <2> QED BY <1>1, <2>1
<1>2. ASSUME \A f \in RecordFiles : Active(records'[f]) => records'[f] = records[f],
             archive \subseteq archive', writes' = writes
      PROVE  \A q \in Stores : Pending(records', archive', writes'[q])
  BY <1>a, <1>b, <1>2, PendingWeakens
<1>3. ASSUME NEW p \in Stores, Propose(p) \/ Approve(p) \/ Reject(p)
      PROVE  \A q \in Stores : Pending(records', archive', writes'[q])
  <2>1. PICK s \in Seq(Steps) :
           /\ writes' = [writes EXCEPT ![p] = s]
           /\ UNCHANGED <<records, archive, index, signed, deaths>>
           /\ \/ PlannedProposal(s)
              \/ \E f \in RecordFiles :
                   /\ records[f] # Missing
                   /\ IF f = Main(f[1]) THEN PlannedChange(s, f, "active") ELSE PlannedMerge(s, f)
              \/ \E f \in RecordFiles : records[f] # Missing /\ PlannedChange(s, f, "rejected")
    BY <1>a, <1>3, StartIs, Zenon
  <2>2. ASSUME NEW f \in RecordFiles, records[f] # Missing,
               IF f = Main(f[1]) THEN PlannedChange(s, f, "active") ELSE PlannedMerge(s, f)
        PROVE  Pending(records, archive, s)
    BY <1>a, <2>2, ChangePending, MergePending
  <2>3. ASSUME NEW f \in RecordFiles, records[f] # Missing, PlannedChange(s, f, "rejected")
        PROVE  Pending(records, archive, s)
    BY <1>a, <2>3, ChangePending
  <2>4. Pending(records, archive, s)
    BY <1>a, <2>1, <2>2, <2>3, ProposalPending
  <2>5. records' = records /\ archive' = archive
    BY <2>1
  <2> QED BY <1>1, <2>1, <2>4, <2>5
<1>4. ASSUME NEW p \in Stores, WriteRecord(p) \/ ArchiveRecord(p) \/ SyncIndex(p)
      PROVE  \A q \in Stores : Pending(records', archive', writes'[q])
  <2> DEFINE s == writes[p]
             w == Head(s)
  <2>1. s \in Seq(Steps) /\ s # <<>> /\ Pending(records, archive, s)
    BY <1>a, <1>b, <1>4 DEF WriteRecord, ArchiveRecord, SyncIndex, Doing
  <2>2. writes' = [writes EXCEPT ![p] = Tail(s)]
    BY <1>4 DEF WriteRecord, ArchiveRecord, SyncIndex, Done
  <2>3. w = s[1] /\ w \in Steps
    BY <2>1, SeqIs
  <2>4. CASE WriteRecord(p)
    <3>1. w.do = "write" /\ records' = [records EXCEPT ![w.file] = w.record] /\ archive' = archive
      BY <2>4 DEF WriteRecord, Doing
    <3>2. \A f \in RecordFiles : f # w.file => records'[f] = records[f]
      BY <1>a, <3>1 DEF KnowledgeShape
    <3> HIDE DEF s, w
    <3>3. Pending(records', archive', Tail(s))
      BY <2>1, <2>3, <3>1, <3>2, PendingTail
    <3> QED BY <1>1, <2>2, <3>3
  <2>5. CASE ArchiveRecord(p)
    <3> DEFINE n == w.file[1]
               r == records[Main(n)]
    <3>1. /\ w.do = "archive" /\ records' = records
          /\ archive' = archive \cup (IF r = Missing THEN {} ELSE {<<n, w.record.version, r.body>>})
      BY <2>5 DEF ArchiveRecord, Doing
    <3>2. w.file = Main(n)
      <4>1. w.file \in Mains
        BY <2>3, <3>1, StepIs, SyncIs
      <4> QED BY <4>1, MainIs
    <3>3. Active(r) => <<n, w.record.version, r.body>> \in archive'
      BY <3>1, HeldIs
    <3>4. Active(records[w.file]) => <<w.file[1], w.record.version, records[w.file].body>> \in archive'
      BY <3>2, <3>3
    <3> HIDE DEF s, w
    <3>5. archive \subseteq archive'
      BY <3>1
    <3>6. Pending(records', archive', Tail(s))
      BY <2>1, <2>3, <3>1, <3>4, <3>5, PendingTail
    <3> QED BY <1>1, <2>2, <3>6
  <2>6. CASE SyncIndex(p)
    <3>1. w.do = "sync" /\ records' = records /\ archive' = archive
      BY <2>6 DEF SyncIndex, Doing
    <3> HIDE DEF s, w
    <3>2. Pending(records', archive', Tail(s))
      BY <2>1, <2>3, <3>1, PendingTail
    <3> QED BY <1>1, <2>2, <3>2
  <2> QED BY <1>4, <2>4, <2>5, <2>6
<1>5. ASSUME NEW p \in Stores, Die(p)
      PROVE  \A q \in Stores : Pending(records', archive', writes'[q])
  BY <1>1, <1>5, NothingPending DEF Die
<1>6. ASSUME NEW p \in Stores, Search(p)
      PROVE  \A q \in Stores : Pending(records', archive', writes'[q])
  BY <1>2, <1>6 DEF Search
<1>7. CASE EditByHand
  <2>1. \A f \in RecordFiles : Active(records'[f]) => records'[f] = records[f]
    BY <1>a, <1>7, EditIs
  <2> QED BY <1>2, <1>7, <2>1 DEF EditByHand
<1>8. CASE UNCHANGED knowledgeVars
  BY <1>2, <1>8 DEF knowledgeVars
<1> QED BY <1>3, <1>4, <1>5, <1>6, <1>7, <1>8 DEF KnowledgeNext

(* A step of the store keeps what it replaces and takes no active record's  *)
(* place with a candidate.                                                  *)
KeptStep ==
  /\ \A n \in Names :
       LET old == records[Main(n)]
           new == records'[Main(n)]
       IN  Active(old) /\ new.body # old.body /\ new # Missing =>
             <<n, old.version, old.body>> \in archive /\ new.version > old.version
  /\ \A f \in RecordFiles : Active(records[f]) => records'[f].status # "candidate"

(* With one store at work, no step loses an active record that is not       *)
(* archived.                                                                *)
LEMMA KeptStepHolds ==
  ASSUME KeptInv, [KnowledgeNext]_knowledgeVars
  PROVE  KeptStep
<1>a. KnowledgeShape /\ \A p \in Stores : Pending(records, archive, writes[p])
  BY DEF KeptInv, KnowledgeInv
<1>1. ASSUME records' = records PROVE KeptStep
  BY <1>1 DEF KeptStep, Active
<1>2. ASSUME NEW p \in Stores, WriteRecord(p) PROVE KeptStep
  <2> DEFINE s == writes[p]
             w == Head(s)
  <2>1. s \in Seq(Steps) /\ s # <<>> /\ Pending(records, archive, s)
    BY <1>a, <1>2 DEF WriteRecord, Doing, KnowledgeShape
  <2>2. w = s[1] /\ 1 \in DOMAIN s /\ \A j \in DOMAIN s : j \in Nat /\ ~ (j < 1)
    BY <2>1, SeqIs
  <2>3. w.do = "write" /\ records' = [records EXCEPT ![w.file] = w.record]
    BY <1>2 DEF WriteRecord, Doing
  <2>4. \A f \in RecordFiles : records'[f] = IF f = w.file THEN w.record ELSE records[f]
    BY <1>a, <2>3 DEF KnowledgeShape
  <2> HIDE DEF s, w
  <2>5. ASSUME NEW f \in RecordFiles, Active(records[f]) PROVE records'[f].status # "candidate"
    BY <2>1, <2>2, <2>3, <2>4, <2>5 DEF Pending, KeepsActive, Active
  <2>6. ASSUME NEW n \in Names, Active(records[Main(n)]),
               records'[Main(n)].body # records[Main(n)].body
        PROVE  /\ <<n, records[Main(n)].version, records[Main(n)].body>> \in archive
               /\ records'[Main(n)].version > records[Main(n)].version
    <3>1. Main(n) \in RecordFiles /\ Main(n) \in Mains /\ Main(n)[1] = n
      BY MainIs DEF Mains
    <3>2. w.file = Main(n) /\ records'[Main(n)] = w.record
      BY <2>4, <2>6, <3>1
    <3>3. w.record.version > records[Main(n)].version /\ IsKept(Main(n), records[Main(n)], archive, s, 1)
      BY <2>1, <2>2, <2>3, <2>6, <3>1, <3>2 DEF Pending, KeepsReplaced
    <3>4. <<n, records[Main(n)].version, records[Main(n)].body>> \in archive
      BY <2>2, <3>1, <3>3 DEF IsKept
    <3> QED BY <3>2, <3>3, <3>4
  <2> QED BY <2>5, <2>6 DEF KeptStep
<1>3. CASE EditByHand
  <2>1. \A f \in RecordFiles :
          records'[f] = Missing \/ records'[f].body = records[f].body
    BY <1>a, <1>3, EditIs
  <2>2. \A f \in RecordFiles : Active(records[f]) => records'[f].status # "candidate"
    BY <1>a, <1>3, EditIs
  <2>3. \A n \in Names : Main(n) \in RecordFiles
    BY MainIs
  <2> QED BY <2>1, <2>2, <2>3 DEF KeptStep
<1>4. ASSUME NEW p \in Stores,
             \/ ArchiveRecord(p) \/ SyncIndex(p) \/ Search(p) \/ Die(p)
             \/ Propose(p) \/ Approve(p) \/ Reject(p)
      PROVE  KeptStep
  BY <1>1, <1>4 DEF ArchiveRecord, SyncIndex, Search, Die, Propose, Approve, Reject, Start
<1>5. CASE UNCHANGED knowledgeVars
  BY <1>1, <1>5 DEF knowledgeVars
<1> QED BY <1>2, <1>3, <1>4, <1>5 DEF KnowledgeNext

(* The invariants of an execution with one store. *)
LEMMA KeptInvariant == KnowledgeSpec /\ OneStore => []KeptInv /\ []SignedIs
<1>1. ASSUME KeptInv, OneStore, [KnowledgeNext]_knowledgeVars PROVE KeptInv'
  <2>1. KnowledgeInv'
    BY <1>1, ShapeStep, ApprovedStep DEF KnowledgeInv, KeptInv
  <2>2. \A p \in Stores : Pending(records', archive', writes'[p])
    BY <1>1, PendingStep
  <2>3. (\A p \in Stores : Pending(records, archive, writes[p]))'
    BY <2>2 DEF Pending, WritesOnce, KeepsActive, KeepsReplaced, IsKept
  <2> QED BY <2>1, <2>3 DEF KeptInv
<1>2. KnowledgeInit => KeptInv
  BY KnowledgeInitInv, NothingPending DEF KeptInv, KnowledgeInit
<1>3. KnowledgeInit => SignedIs
  BY DEF KnowledgeInit, SignedIs
<1>4. ASSUME SignedIs, OneStore, [KnowledgeNext]_knowledgeVars PROVE SignedIs'
  BY <1>4, SignedStep
<1>5. OneStore => []OneStore
  <2>1. OneStore => OneStore'
    BY DEF OneStore
  <2> QED BY <2>1, PTL
<1> QED BY <1>1, <1>2, <1>3, <1>4, <1>5, PTL DEF KnowledgeSpec

(* What is active was approved, and a search answers with exactly what is active. *)
THEOREM SearchFindsWhatIsApproved == KnowledgeSpec /\ OneStore => []KnowledgeIsSound
<1>1. KeptInv /\ SignedIs => KnowledgeIsSound
  BY SignedIsServed DEF KeptInv, KnowledgeInv, KnowledgeIsSound
<1> QED BY <1>1, KeptInvariant, PTL

(* What was active is in the history when another text takes its place. *)
THEOREM ActiveIsNotLost == KnowledgeSpec /\ OneStore => RecordsAreKept
<1>1. ASSUME KeptInv, [KnowledgeNext]_knowledgeVars PROVE [KeptStep]_knowledgeVars
  BY <1>1, KeptStepHolds
<1> QED BY <1>1, KeptInvariant, PTL
        DEF KnowledgeSpec, RecordsAreKept, ReplacedIsKept, UntrustedKeepsActive, KeptStep

-----------------------------------------------------------------------------
(***************************************************************************)
(* Dream, for any number of processes: unless a process died, the lock is  *)
(* free when all are idle; and no Dream has a Dream among its evidence.    *)
(***************************************************************************)

(* Between taking the lock file and giving it back. *)
HoldsLock(p) ==
  stage[p] \in {"opening", "mining", "releasing"} \/ (stage[p] = "reading" /\ auto[p])

(* Until a process dies, a lock that is there is somebody's to give back.   *)
LockHeld == deadDreams = 0 /\ lockFile # "free" => \E p \in Dreamers : HoldsLock(p)

(* A Dream's session is marked before anything is said in it, so that the   *)
(* sessions saved since the last Dream hold no Dream that could be chosen.  *)
DreamsMarked ==
  /\ \A p \in Dreamers : stage[p] = "mining" => p \in marked
  /\ fresh \cap Dreamers \subseteq marked
  /\ \A p \in Dreamers : chosen[p] \cap Dreamers = {}

DreamInv == DreamTypeOK /\ LockHeld /\ DreamsMarked

(* The bounds are naturals, and a Dream's name is no conversation's. *)
LEMMA DreamBounds ==
  /\ MaxHours \in Nat /\ MaxTalks \in Nat /\ MaxDeaths \in Nat
  /\ Dreamers \cap Talks = {}
  BY DreamAssumptions

(* The initial states satisfy the invariant. *)
LEMMA DreamInitInv == DreamInit => DreamInv
<1> SUFFICES ASSUME DreamInit PROVE DreamInv
  OBVIOUS
<1> USE DEF DreamInit
<1>1. DreamTypeOK
  <2>1. auto \in [Dreamers -> BOOLEAN] /\ lately \in BOOLEAN
    OBVIOUS
  <2>2. QED
    BY <2>1, DreamBounds DEF DreamTypeOK
<1>2. LockHeld
  BY DEF LockHeld
<1>3. DreamsMarked
  BY DEF DreamsMarked
<1>4. QED
  BY <1>1, <1>2, <1>3 DEF DreamInv

(* Every step keeps the types. *)
LEMMA DreamTypeStep == ASSUME DreamTypeOK, [DreamNext]_dreamVars PROVE DreamTypeOK'
<1> USE DreamBounds DEF DreamTypeOK, Goes, Bounds, AllSessions
<1>1. CASE UNCHANGED dreamVars
  BY <1>1 DEF dreamVars
<1>2. CASE Talk \/ Hour
  <2>1. CASE Talk
    BY <2>1 DEF Talk
  <2>2. CASE Hour
    <3>1. lately' \in BOOLEAN
      BY <2>2 DEF Hour
    <3>2. /\ hours < MaxHours /\ hours' = hours + 1
          /\ lockFile' = IF lockFile = "free" THEN "free" ELSE "old"
          /\ UNCHANGED <<stage, chosen, auto, fresh, marked, talked, deadDreams>>
      BY <2>2, Zenon DEF Hour
    <3>3. QED
      BY <3>1, <3>2
  <2>3. QED
    BY <1>2, <2>1, <2>2
<1>3. ASSUME NEW p \in Dreamers, PassGates(p) \/ AskForDream(p)
      PROVE  DreamTypeOK'
  <2>1. auto' \in [Dreamers -> BOOLEAN]
    BY <1>3 DEF PassGates, AskForDream
  <2>2. QED
    BY <1>3, <2>1 DEF PassGates, AskForDream, Eligible
<1>4. ASSUME NEW p \in Dreamers, AcquireLock(p) \/ AcquireAgain(p) \/ UnlinkStale(p)
      PROVE  DreamTypeOK'
  BY <1>4 DEF AcquireLock, AcquireAgain, Create, UnlinkStale, Locked
<1>5. ASSUME NEW p \in Dreamers, ReadEvidence(p)
      PROVE  DreamTypeOK'
  BY <1>5 DEF ReadEvidence, Readable
<1>6. ASSUME NEW p \in Dreamers, OpenDream(p) \/ DreamSucceeds(p) \/ DreamFails(p)
      PROVE  DreamTypeOK'
  BY <1>6 DEF OpenDream, DreamSucceeds, DreamFails
<1>7. ASSUME NEW p \in Dreamers, ReleaseLock(p) \/ ReleaseAgain(p) \/ DieDreaming(p)
      PROVE  DreamTypeOK'
  BY <1>7 DEF ReleaseLock, ReleaseAgain, DieDreaming, LockAfter
<1>8. QED
  BY <1>1, <1>2, <1>3, <1>4, <1>5, <1>6, <1>7 DEF DreamNext

(* Every step keeps the lock somebody's: whoever stops holding it removes   *)
(* the file, or has died.                                                   *)
LEMMA LockHeldStep ==
  ASSUME DreamTypeOK, LockHeld, [DreamNext]_dreamVars PROVE LockHeld'
<1> USE DEF DreamTypeOK, LockHeld, HoldsLock, Goes, Bounds
<1>1. CASE UNCHANGED dreamVars
  BY <1>1 DEF dreamVars
<1>2. CASE Talk \/ Hour
  BY <1>2 DEF Talk, Hour
<1>3. ASSUME NEW p \in Dreamers, PassGates(p) \/ AskForDream(p)
      PROVE  LockHeld'
  BY <1>3 DEF PassGates, AskForDream
<1>4. ASSUME NEW p \in Dreamers, AcquireLock(p) \/ AcquireAgain(p)
      PROVE  LockHeld'
  BY <1>4 DEF AcquireLock, AcquireAgain, Create, Locked
<1>5. ASSUME NEW p \in Dreamers, UnlinkStale(p) \/ ReleaseLock(p) \/ ReleaseAgain(p)
      PROVE  LockHeld'
  BY <1>5 DEF UnlinkStale, ReleaseLock, ReleaseAgain, LockAfter
<1>6. ASSUME NEW p \in Dreamers, ReadEvidence(p)
      PROVE  LockHeld'
  BY <1>6 DEF ReadEvidence
<1>7. ASSUME NEW p \in Dreamers, OpenDream(p) \/ DreamSucceeds(p) \/ DreamFails(p)
      PROVE  LockHeld'
  BY <1>7 DEF OpenDream, DreamSucceeds, DreamFails
<1>8. ASSUME NEW p \in Dreamers, DieDreaming(p)
      PROVE  LockHeld'
  BY <1>8, DreamBounds DEF DieDreaming
<1>9. QED
  BY <1>1, <1>2, <1>3, <1>4, <1>5, <1>6, <1>7, <1>8 DEF DreamNext

(* Every step keeps the Dreams' sessions marked and out of the evidence. *)
LEMMA DreamsMarkedStep ==
  ASSUME DreamTypeOK, DreamsMarked, [DreamNext]_dreamVars PROVE DreamsMarked'
<1> USE DreamBounds DEF DreamTypeOK, DreamsMarked, Goes, Bounds
<1>1. CASE UNCHANGED dreamVars
  BY <1>1 DEF dreamVars
<1>2. CASE Talk \/ Hour
  BY <1>2 DEF Talk, Hour
<1>3. ASSUME NEW p \in Dreamers, PassGates(p) \/ AskForDream(p)
      PROVE  DreamsMarked'
  BY <1>3 DEF PassGates, AskForDream, Eligible
<1>4. ASSUME NEW p \in Dreamers, AcquireLock(p) \/ AcquireAgain(p) \/ UnlinkStale(p)
      PROVE  DreamsMarked'
  BY <1>4 DEF AcquireLock, AcquireAgain, Create, UnlinkStale, Locked
<1>5. ASSUME NEW p \in Dreamers, ReadEvidence(p)
      PROVE  DreamsMarked'
  BY <1>5 DEF ReadEvidence, Readable
<1>6. ASSUME NEW p \in Dreamers, OpenDream(p) \/ DreamSucceeds(p) \/ DreamFails(p)
      PROVE  DreamsMarked'
  BY <1>6 DEF OpenDream, DreamSucceeds, DreamFails
<1>7. ASSUME NEW p \in Dreamers, ReleaseLock(p) \/ ReleaseAgain(p) \/ DieDreaming(p)
      PROVE  DreamsMarked'
  BY <1>7 DEF ReleaseLock, ReleaseAgain, DieDreaming
<1>8. QED
  BY <1>1, <1>2, <1>3, <1>4, <1>5, <1>6, <1>7 DEF DreamNext

(* The invariant holds of every behaviour, for any number of processes and  *)
(* conversations.                                                           *)
THEOREM DreamInvariant == DreamSpec => []DreamInv
<1>1. DreamInv /\ [DreamNext]_dreamVars => DreamInv'
  BY DreamTypeStep, LockHeldStep, DreamsMarkedStep DEF DreamInv
<1>2. QED
  BY DreamInitInv, <1>1, PTL DEF DreamSpec

(* Dreams end and are about conversations: without a death the lock is free *)
(* once all processes are idle, and no Dream has another's session among    *)
(* its evidence.                                                            *)
THEOREM DreamsEndAndAreAboutTalks == DreamSpec => []DreamsAreSound
<1>1. DreamInv => DreamsAreSound
  BY DEF DreamInv, DreamTypeOK, LockHeld, HoldsLock, DreamsMarked, DreamsAreSound, LockFreed,
         NoDreamOfDreams
<1>2. QED
  BY DreamInvariant, <1>1, PTL

-----------------------------------------------------------------------------
(***************************************************************************)
(* CodeIndex, for any files and any number of edits and processes: a graph *)
(* that is reused is of the vectors of today, and until syncs overlap a    *)
(* turn retrieves from the text of the files it looked at. The generation  *)
(* in the state file and the chunks in the store are written by separate   *)
(* steps; the invariant ties both to the stats of the sync that writes.    *)
(***************************************************************************)

(* Every value is of its kind, and no stat is newer than the last edit.     *)
Parts == {"at", "stats", "cut", "changed", "missing", "complete", "reused"}
Stages == {"idle", "collected", "loading", "chunking", "planning", "writing", "recording", "synced"}
IsSync(n, s) ==
  /\ DOMAIN s = Parts /\ s.at \in Stages
  /\ \A f \in CodeFiles : s.stats[f] \in 0 .. n

IndexShape ==
  /\ edits \in Nat /\ generation \in Nat
  /\ source \in [CodeFiles -> 0 .. edits]
  /\ \A f \in CodeFiles : known[f].stat \in 0 .. edits
  /\ DOMAIN graph = Indexers
  /\ \A p \in Indexers : graph[p].generation \in Int /\ graph[p].generation <= generation
  /\ DOMAIN sync = Indexers
  /\ \A p \in Indexers : DOMAIN sync[p] = Threads
  /\ \A p \in Indexers, t \in Threads : IsSync(edits, sync[p][t])

(* The chunks are of the files whose stat is the given one. *)
Current(src, chunks, stats) ==
  \A f \in CodeFiles : src[f] > 0 /\ stats[f] = src[f] =>
    {c \in chunks : c[1] = f} = {<<f, src[f]>>}
(* The second stats were taken after the first. *)
Later(src, first, second) ==
  \A f \in CodeFiles : src[f] > 0 /\ first[f] = src[f] => second[f] = src[f]

(* Chunks that are current for the last reading of a file are current for   *)
(* its first one, when nothing was written between them.                    *)
LEMMA CurrentLater ==
  ASSUME NEW src, NEW chunks, NEW first, NEW second,
         Later(src, first, second), Current(src, chunks, second)
  PROVE  Current(src, chunks, first)
<1> QED BY DEF Current, Later

KnownStats(kn) == [f \in CodeFiles |-> kn[f].stat]
KnownTexts(src, kn) ==
  \A f \in CodeFiles : src[f] > 0 /\ kn[f].stat = src[f] /\ kn[f].text > 0 => kn[f].text = src[f]

IsRunning(s) == s.at \notin {"idle", "synced"}

(* What a sync has when no other one runs. *)
SyncOK(src, rs, kn, s) ==
  /\ IsRunning(s) => Later(src, KnownStats(kn), s.stats)
  /\ s.at = "loading" => \A f \in CodeFiles : kn[f].stat = s.stats[f]
  /\ s.at \in {"planning", "writing", "recording"} => Current(src, s.cut, s.stats)
  /\ s.at = "writing" => s.changed = s.cut \ rs
  /\ s.at = "recording" => rs = s.cut

(* As long as syncs have not overlapped. *)
LoneInv ==
  /\ rows = manifest.signed
  /\ \A p, q \in Indexers, t, u \in Threads :
       IsRunning(sync[p][t]) /\ IsRunning(sync[q][u]) => p = q /\ t = u
  /\ Current(source, rows, KnownStats(known)) /\ KnownTexts(source, known)
  /\ \A p \in Indexers, t \in Threads : SyncOK(source, rows, known, sync[p][t])
  /\ \A p \in Indexers : sync[p]["turn"].at = "synced" =>
       /\ Current(source, rows, sync[p]["turn"].stats)
       /\ \A q \in Indexers, u \in Threads :
            IsRunning(sync[q][u]) => Later(source, sync[p]["turn"].stats, sync[q][u].stats)

IndexInv == IndexShape /\ GraphIsCurrent /\ (~ overlapped => LoneInv)

-----------------------------------------------------------------------------
(* A process that does not sync holds nothing.                              *)
LEMMA NoSyncIs ==
  ASSUME NEW n \in Nat
  PROVE  IsSync(n, NoSync) /\ NoSync.at = "idle"
<1> QED BY DEF NoSync, IsSync, Parts, Stages

(* The index of a new workspace, and one an earlier process left behind,    *)
(* are sound.                                                               *)
LEMMA IndexInitInv == CodeIndexInit => IndexInv
<1> SUFFICES ASSUME CodeIndexInit PROVE IndexInv
  OBVIOUS
<1>1. /\ \A f \in CodeFiles : source[f] = 0 /\ known[f] = Unrecorded
      /\ source \in [CodeFiles -> {0}]
      /\ edits = 0 /\ generation = 0 /\ rows = {} /\ manifest = Unsigned
      /\ DOMAIN graph = Indexers /\ \A p \in Indexers : graph[p] = NoGraph
      /\ DOMAIN sync = Indexers /\ \A p \in Indexers : DOMAIN sync[p] = Threads
      /\ \A p \in Indexers, t \in Threads : sync[p][t] = NoSync
  BY DEF CodeIndexInit
<1>2. IndexShape
  <2>1. \A p \in Indexers, t \in Threads : IsSync(edits, sync[p][t])
    BY <1>1, NoSyncIs
  <2> QED BY <1>1, <2>1 DEF IndexShape, Unrecorded, NoGraph
<1>3. GraphIsCurrent
  BY <1>1 DEF GraphIsCurrent, NoGraph
<1>4. LoneInv
  <2>1. \A p \in Indexers, t \in Threads :
          sync[p][t].at = "idle" /\ ~ IsRunning(sync[p][t])
    BY <1>1, NoSyncIs DEF IsRunning
  <2>2. \A p \in Indexers, t \in Threads : SyncOK(source, rows, known, sync[p][t])
    BY <2>1 DEF SyncOK
  <2>3. "turn" \in Threads
    BY DEF Threads
  <2>4. Current(source, rows, KnownStats(known)) /\ KnownTexts(source, known)
    BY <1>1 DEF Current, KnownTexts
  <2>5. rows = manifest.signed
    BY <1>1 DEF Unsigned
  <2> QED BY <2>1, <2>2, <2>3, <2>4, <2>5 DEF LoneInv
<1> QED BY <1>2, <1>3, <1>4 DEF IndexInv

(* What an edit does. *)
LEMMA EditStep == ASSUME IndexInv, NEW f \in CodeFiles, EditFile(f) PROVE IndexInv'
<1>1. /\ edits \in Nat /\ edits' = edits + 1
      /\ UNCHANGED <<rows, vectors, manifest, known, generation, graph, sync, overlapped>>
  BY DEF EditFile, IndexInv, IndexShape, IndexTables
<1>2. PICK n \in {0, edits + 1} : source' = [source EXCEPT ![f] = n]
  BY <1>1 DEF EditFile
<1>3. /\ source' \in [CodeFiles -> 0 .. edits']
      /\ \A g \in CodeFiles : source'[g] = IF g = f THEN n ELSE source[g]
  BY <1>1, <1>2 DEF IndexInv, IndexShape
<1>4. \A k \in 0 .. edits : k \in 0 .. edits' /\ (n > 0 => k # n)
  BY <1>1, <1>2
<1>5. IndexShape'
  <2>1. \A p \in Indexers, t \in Threads : IsSync(edits', sync[p][t])
    BY <1>4 DEF IndexInv, IndexShape, IsSync
  <2>2. \A g \in CodeFiles : known[g].stat \in 0 .. edits'
    BY <1>4 DEF IndexInv, IndexShape
  <2>3. edits' \in Nat
    BY <1>1
  <2> QED BY <1>1, <1>3, <2>1, <2>2, <2>3 DEF IndexInv, IndexShape, IsSync
<1>6. GraphIsCurrent'
  BY <1>1 DEF IndexInv, GraphIsCurrent
<1>7. ASSUME LoneInv PROVE LoneInv'
  <2>1. ASSUME NEW stats, \A g \in CodeFiles : stats[g] \in 0 .. edits
        PROVE  /\ \A cs : Current(source, cs, stats) => Current(source', cs, stats)
               /\ \A more : Later(source, stats, more) => Later(source', stats, more)
    <3>1. \A g \in CodeFiles : source'[g] > 0 /\ stats[g] = source'[g] => source'[g] = source[g]
      BY <1>3, <1>4, <2>1
    <3> QED BY <3>1 DEF Current, Later
  <2>2. \A g \in CodeFiles : KnownStats(known)[g] \in 0 .. edits
    BY DEF IndexInv, IndexShape, KnownStats
  <2>3. \A p \in Indexers, t \in Threads, g \in CodeFiles : sync[p][t].stats[g] \in 0 .. edits
    BY DEF IndexInv, IndexShape, IsSync
  <2>4. KnownTexts(source', known)
    <3>1. \A g \in CodeFiles : source'[g] > 0 /\ known[g].stat = source'[g] => source'[g] = source[g]
      BY <1>3, <1>4 DEF IndexInv, IndexShape
    <3> QED BY <1>7, <3>1 DEF LoneInv, KnownTexts
  <2>5. Current(source', rows, KnownStats(known))
    BY <1>7, <2>1, <2>2 DEF LoneInv
  <2>6. ASSUME NEW p \in Indexers, NEW t \in Threads PROVE SyncOK(source', rows, known, sync[p][t])
    <3>1. SyncOK(source, rows, known, sync[p][t])
      BY <1>7 DEF LoneInv
    <3> QED BY <2>1, <2>2, <2>3, <3>1 DEF SyncOK
  <2>7. ASSUME NEW p \in Indexers, sync[p]["turn"].at = "synced"
        PROVE  /\ Current(source', rows, sync[p]["turn"].stats)
               /\ \A q \in Indexers, u \in Threads :
                    IsRunning(sync[q][u]) => Later(source', sync[p]["turn"].stats, sync[q][u].stats)
    <3>1. "turn" \in Threads
      BY DEF Threads
    <3> QED BY <1>7, <2>1, <2>3, <2>7, <3>1 DEF LoneInv
  <2>8. /\ rows = manifest.signed
        /\ \A p, q \in Indexers, t, u \in Threads :
             IsRunning(sync[p][t]) /\ IsRunning(sync[q][u]) => p = q /\ t = u
    BY <1>7 DEF LoneInv
  <2> HIDE DEF LoneInv, Current, KnownTexts, SyncOK, Later, IsRunning, KnownStats
  <2> QED BY <1>1, <2>4, <2>5, <2>6, <2>7, <2>8
          DEF LoneInv, Current, KnownTexts, SyncOK, Later, IsRunning, KnownStats
<1> QED BY <1>1, <1>5, <1>6, <1>7 DEF IndexInv

(* One sync goes on: the shape of the others, and of it.                    *)
LEMMA GoesShape ==
  ASSUME IndexShape, NEW p \in Indexers, NEW t \in Threads, NEW s, IsSync(edits, s),
         SyncGoes(p, t, s)
  PROVE  /\ DOMAIN sync' = Indexers /\ \A q \in Indexers : DOMAIN sync'[q] = Threads
         /\ \A q \in Indexers, u \in Threads :
              sync'[q][u] = IF q = p /\ u = t THEN s ELSE sync[q][u]
         /\ \A q \in Indexers, u \in Threads : IsSync(edits, sync'[q][u])
<1>1. /\ DOMAIN sync' = Indexers /\ \A q \in Indexers : DOMAIN sync'[q] = Threads
      /\ \A q \in Indexers, u \in Threads :
           sync'[q][u] = IF q = p /\ u = t THEN s ELSE sync[q][u]
  BY DEF IndexShape, SyncGoes
<1> QED BY <1>1 DEF IndexShape

(* The sync that runs alone goes on, to what the tables hold by then.       *)
LEMMA LoneGoes ==
  ASSUME IndexShape, LoneInv, NEW p \in Indexers, NEW t \in Threads, NEW s, IsSync(edits, s),
         SyncGoes(p, t, s), source' = source, IsRunning(sync[p][t]),
         s.stats = sync[p][t].stats \/ s.at = "idle",
         rows' = manifest'.signed, Current(source, rows', KnownStats(known')),
         KnownTexts(source, known'), SyncOK(source, rows', known', s),
         s.at = "synced" => Current(source, rows', s.stats),
         \A q \in Indexers : sync[q]["turn"].at = "synced" =>
           Current(source, rows', sync[q]["turn"].stats)
  PROVE  LoneInv'
<1>1. \A q \in Indexers, u \in Threads :
        sync'[q][u] = IF q = p /\ u = t THEN s ELSE sync[q][u]
  BY GoesShape
<1>2. \A q \in Indexers, u \in Threads : IsRunning(sync'[q][u]) => q = p /\ u = t
  BY <1>1 DEF LoneInv
<1>3. \A q, r \in Indexers, u, v \in Threads :
        IsRunning(sync'[q][u]) /\ IsRunning(sync'[r][v]) => q = r /\ u = v
  BY <1>2
<1>4. ASSUME NEW q \in Indexers, NEW u \in Threads
      PROVE  SyncOK(source', rows', known', sync'[q][u])
  <2>1. CASE q = p /\ u = t
    BY <1>1, <2>1
  <2>2. CASE ~ (q = p /\ u = t)
    <3>1. ~ IsRunning(sync'[q][u])
      BY <1>2, <2>2
    <3> QED BY <3>1 DEF IsRunning, SyncOK
  <2> QED BY <2>1, <2>2
<1>5. "turn" \in Threads
  BY DEF Threads
<1>6. ASSUME NEW q \in Indexers, sync'[q]["turn"].at = "synced"
      PROVE  /\ Current(source', rows', sync'[q]["turn"].stats)
             /\ \A r \in Indexers, v \in Threads :
                  IsRunning(sync'[r][v]) => Later(source', sync'[q]["turn"].stats, sync'[r][v].stats)
  <2>1. CASE q = p /\ t = "turn"
    <3>1. sync'[q]["turn"] = s
      BY <1>1, <2>1, <1>5
    <3>2. \A r \in Indexers, v \in Threads : ~ IsRunning(sync'[r][v])
      BY <1>1, <1>2, <1>6, <2>1, <3>1 DEF IsRunning
    <3> QED BY <1>6, <3>1, <3>2
  <2>2. CASE ~ (q = p /\ t = "turn")
    <3>1. sync'[q]["turn"] = sync[q]["turn"] /\ sync[q]["turn"].at = "synced"
      BY <1>1, <1>5, <1>6, <2>2
    <3>2. Later(source, sync[q]["turn"].stats, sync[p][t].stats)
      BY <3>1 DEF LoneInv
    <3>3. ASSUME NEW r \in Indexers, NEW v \in Threads, IsRunning(sync'[r][v])
          PROVE  Later(source, sync[q]["turn"].stats, sync'[r][v].stats)
      <4>1. sync'[r][v] = s
        BY <1>1, <1>2, <3>3
      <4>2. s.stats = sync[p][t].stats
        BY <3>3, <4>1 DEF IsRunning
      <4> QED BY <3>2, <4>1, <4>2
    <3> QED BY <3>1, <3>3
  <2> QED BY <2>1, <2>2
<1> HIDE DEF LoneInv, Current, KnownTexts, SyncOK, Later, IsRunning, KnownStats
<1> QED BY <1>3, <1>4, <1>6 DEF LoneInv, Current, KnownTexts, SyncOK, Later, IsRunning, KnownStats

(* Syncs end, or die with their process.                                    *)
LEMMA SyncsStop ==
  ASSUME IndexShape, LoneInv, UNCHANGED <<source, rows, manifest, known>>,
         \A q \in Indexers, u \in Threads : sync'[q][u] = sync[q][u] \/ sync'[q][u] = NoSync
  PROVE  LoneInv'
<1>1. ~ IsRunning(NoSync) /\ NoSync.at # "synced" /\ "turn" \in Threads
  BY NoSyncIs DEF IsRunning, Threads, IndexShape
<1>2. \A q \in Indexers, u \in Threads :
        IsRunning(sync'[q][u]) \/ sync'[q][u].at = "synced" => sync'[q][u] = sync[q][u]
  BY <1>1
<1>3. \A q, r \in Indexers, u, v \in Threads :
        IsRunning(sync'[q][u]) /\ IsRunning(sync'[r][v]) => q = r /\ u = v
  BY <1>2 DEF LoneInv
<1>4. ASSUME NEW q \in Indexers, NEW u \in Threads
      PROVE  SyncOK(source, rows, known, sync'[q][u])
  <2>1. CASE sync'[q][u] = sync[q][u]
    BY <2>1 DEF LoneInv
  <2>2. CASE sync'[q][u] = NoSync
    BY <1>1, <2>2 DEF SyncOK, IsRunning
  <2> QED BY <2>1, <2>2
<1>5. ASSUME NEW q \in Indexers, sync'[q]["turn"].at = "synced"
      PROVE  /\ Current(source, rows, sync'[q]["turn"].stats)
             /\ \A r \in Indexers, v \in Threads :
                  IsRunning(sync'[r][v]) => Later(source, sync'[q]["turn"].stats, sync'[r][v].stats)
  <2>1. sync'[q]["turn"] = sync[q]["turn"] /\ sync[q]["turn"].at = "synced"
    BY <1>1, <1>2, <1>5
  <2>2. ASSUME NEW r \in Indexers, NEW v \in Threads, IsRunning(sync'[r][v])
        PROVE  Later(source, sync[q]["turn"].stats, sync'[r][v].stats)
    <3>1. sync'[r][v] = sync[r][v]
      BY <1>2, <2>2
    <3> QED BY <2>1, <2>2, <3>1 DEF LoneInv
  <2> QED BY <2>1, <2>2 DEF LoneInv
<1>6. /\ rows = manifest.signed
      /\ Current(source, rows, KnownStats(known)) /\ KnownTexts(source, known)
  BY DEF LoneInv
<1> HIDE DEF LoneInv, Current, KnownTexts, SyncOK, Later, IsRunning, KnownStats
<1> QED BY <1>3, <1>4, <1>5, <1>6
        DEF LoneInv, Current, KnownTexts, SyncOK, Later, IsRunning, KnownStats

(* A running sync goes on and leaves the tables alone.                      *)
LEMMA TablesStay ==
  ASSUME IndexInv, NEW p \in Indexers, NEW t \in Threads, NEW s, IsSync(edits, s),
         SyncGoes(p, t, s),
         UNCHANGED <<source, rows, vectors, manifest, known, generation, graph, overlapped, edits>>,
         IsRunning(sync[p][t]), s.stats = sync[p][t].stats \/ s.at = "idle",
         LoneInv => /\ SyncOK(source, rows, known, s)
                    /\ s.at = "synced" => Current(source, rows, s.stats)
  PROVE  IndexInv'
<1>1. IndexShape
  BY DEF IndexInv
<1>2. IndexShape'
  <2>1. /\ DOMAIN sync' = Indexers /\ \A q \in Indexers : DOMAIN sync'[q] = Threads
        /\ \A q \in Indexers, u \in Threads : IsSync(edits', sync'[q][u])
    BY <1>1, GoesShape
  <2> QED BY <1>1, <2>1 DEF IndexShape, IsSync
<1>3. GraphIsCurrent'
  BY DEF IndexInv, GraphIsCurrent
<1>4. ASSUME LoneInv PROVE LoneInv'
  <2>1. /\ rows' = manifest'.signed /\ KnownTexts(source, known')
        /\ Current(source, rows', KnownStats(known'))
    <3>1. KnownStats(known') = KnownStats(known)
      BY DEF KnownStats
    <3> QED BY <1>4, <3>1 DEF LoneInv
  <2>2. SyncOK(source, rows', known', s) /\ (s.at = "synced" => Current(source, rows', s.stats))
    BY <1>4
  <2>3. \A q \in Indexers : sync[q]["turn"].at = "synced" =>
          Current(source, rows', sync[q]["turn"].stats)
    BY <1>4 DEF LoneInv
  <2> QED BY <1>1, <1>4, <2>1, <2>2, <2>3, LoneGoes
<1> QED BY <1>2, <1>3, <1>4 DEF IndexInv

(* The unchanged files of a snapshot have their current chunks.             *)
LEMMA CheckStep ==
  ASSUME IndexInv, NEW p \in Indexers, NEW t \in Threads, Check(p, t)
  PROVE  IndexInv'
<1> DEFINE s == sync[p][t]
           complete == DenseComplete(rows, vectors, "m")
           z == IF ~ Snapshot(s) THEN [s EXCEPT !.at = "chunking"]
                ELSE IF t = "turn" \/ complete
                  THEN [s EXCEPT !.at = "synced", !.complete = complete, !.reused = TRUE]
                  ELSE [s EXCEPT !.at = "loading"]
<1>1. /\ s.at = "collected" /\ SyncGoes(p, t, z)
      /\ UNCHANGED <<source, rows, vectors, manifest, known, generation, graph, overlapped, edits>>
  BY DEF Check, SyncOf, IndexTables, IndexBounds
<1>2. IsSync(edits, s)
  BY DEF IndexInv, IndexShape
<1>3. IsRunning(s)
  BY <1>1 DEF IsRunning
<1> HIDE DEF complete, s
<1>4. /\ DOMAIN z = Parts /\ z.stats = s.stats
      /\ z.at \in {"chunking", "synced", "loading"}
      /\ z.at \in {"synced", "loading"} => Snapshot(s)
  BY <1>2 DEF IsSync, Parts
<1>5. IsSync(edits, z)
  BY <1>2, <1>4 DEF IsSync, Stages
<1> HIDE DEF z
<1>6. ASSUME LoneInv
      PROVE  /\ SyncOK(source, rows, known, z)
             /\ z.at = "synced" => Current(source, rows, z.stats)
  <2>1. Later(source, KnownStats(known), s.stats)
    BY <1>3, <1>6 DEF LoneInv, SyncOK, s
  <2>2. SyncOK(source, rows, known, z)
    BY <1>4, <2>1 DEF SyncOK, Snapshot
  <2>3. ASSUME z.at = "synced" PROVE Current(source, rows, s.stats)
    <3>1. \A f \in CodeFiles : KnownStats(known)[f] = s.stats[f]
      BY <1>4, <2>3 DEF Snapshot, KnownStats
    <3> QED BY <1>6, <3>1 DEF LoneInv, Current
  <2> QED BY <1>4, <2>2, <2>3
<1> QED BY <1>1, <1>3, <1>4, <1>5, <1>6, TablesStay DEF s

(* The chunks that are loaded are those of the unchanged files.             *)
LEMMA LoadChunksStep ==
  ASSUME IndexInv, NEW p \in Indexers, NEW t \in Threads, LoadChunks(p, t)
  PROVE  IndexInv'
<1> DEFINE s == sync[p][t]
           z == [s EXCEPT !.at = "planning", !.cut = rows, !.reused = TRUE]
<1>1. /\ s.at = "loading" /\ SyncGoes(p, t, z)
      /\ UNCHANGED <<source, rows, vectors, manifest, known, generation, graph, overlapped, edits>>
  BY DEF LoadChunks, SyncOf, IndexTables, IndexBounds
<1>2. IsSync(edits, s)
  BY DEF IndexInv, IndexShape
<1>3. IsRunning(s)
  BY <1>1 DEF IsRunning
<1> HIDE DEF s
<1>4. DOMAIN z = Parts /\ z.stats = s.stats /\ z.at = "planning" /\ z.cut = rows
  BY <1>2 DEF IsSync, Parts
<1>5. IsSync(edits, z)
  BY <1>2, <1>4 DEF IsSync, Stages
<1> HIDE DEF z
<1>6. ASSUME LoneInv PROVE SyncOK(source, rows, known, z)
  <2>1. /\ Later(source, KnownStats(known), s.stats)
        /\ \A f \in CodeFiles : known[f].stat = s.stats[f]
    BY <1>1, <1>3, <1>6 DEF LoneInv, SyncOK, s
  <2>2. Current(source, rows, s.stats)
    <3>1. \A f \in CodeFiles : KnownStats(known)[f] = s.stats[f]
      BY <2>1 DEF KnownStats
    <3> QED BY <1>6, <3>1 DEF LoneInv, Current
  <2> QED BY <1>4, <2>1, <2>2 DEF SyncOK
<1> QED BY <1>1, <1>3, <1>4, <1>5, <1>6, TablesStay DEF s

(* What is cut of a file that has not changed is its text.                  *)
LEMMA CutIsCurrent ==
  ASSUME KnownTexts(source, known), NEW s
  PROVE  Current(source, CutOf(s), s.stats)
<1> SUFFICES ASSUME NEW f \in CodeFiles, source[f] > 0, s.stats[f] = source[f]
             PROVE  {c \in CutOf(s) : c[1] = f} = {<<f, source[f]>>}
  BY DEF Current
<1>1. TextOf(s, f) = source[f]
  BY DEF TextOf, Cached, KnownTexts
<1>2. \A c \in CutOf(s) : \E g \in CodeFiles : c = <<g, TextOf(s, g)>>
  BY DEF CutOf
<1>3. <<f, source[f]>> \in CutOf(s)
  BY <1>1 DEF CutOf
<1>4. \A c \in CutOf(s) : c[1] = f => c = <<f, source[f]>>
  BY <1>1, <1>2
<1> HIDE DEF CutOf
<1> QED BY <1>3, <1>4

(* Chunks are cut, from the cache or from the files.                        *)
LEMMA ChunkStep ==
  ASSUME IndexInv, NEW p \in Indexers, NEW t \in Threads, Chunk(p, t)
  PROVE  IndexInv'
<1> DEFINE s == sync[p][t]
           z == [s EXCEPT !.at = "planning", !.cut = CutOf(s)]
<1>1. /\ s.at = "chunking" /\ SyncGoes(p, t, z)
      /\ UNCHANGED <<source, rows, vectors, manifest, known, generation, graph, overlapped, edits>>
  BY DEF Chunk, SyncOf, IndexBounds
<1>2. IsSync(edits, s)
  BY DEF IndexInv, IndexShape
<1>3. IsRunning(s)
  BY <1>1 DEF IsRunning
<1> HIDE DEF s
<1>4. DOMAIN z = Parts /\ z.stats = s.stats /\ z.at = "planning" /\ z.cut = CutOf(s)
  BY <1>2 DEF IsSync, Parts
<1>5. IsSync(edits, z)
  BY <1>2, <1>4 DEF IsSync, Stages
<1> HIDE DEF z
<1>6. ASSUME LoneInv PROVE SyncOK(source, rows, known, z)
  <2>1. Later(source, KnownStats(known), s.stats)
    BY <1>3, <1>6 DEF LoneInv, SyncOK, s
  <2>2. Current(source, z.cut, z.stats)
    BY <1>4, <1>6, CutIsCurrent DEF LoneInv
  <2> QED BY <1>4, <2>1, <2>2 DEF SyncOK
<1> QED BY <1>1, <1>3, <1>4, <1>5, <1>6, TablesStay DEF s

(* A plan compares what was cut with the tables: when nothing differs, they *)
(* hold what was cut.                                                       *)
LEMMA PlanStep ==
  ASSUME IndexInv, NEW p \in Indexers, NEW t \in Threads, Plan(p, t)
  PROVE  IndexInv'
<1> DEFINE s == sync[p][t]
           changed == s.cut \ rows
           missing == IF t = "turn" THEN {} ELSE s.cut \ (vectors \cap rows)
           same == /\ manifest = [signed |-> s.cut, model |-> ModelOf(t)]
                   /\ changed = {} /\ missing = {}
           at == IF ~ same THEN "writing" ELSE IF s.reused THEN "synced" ELSE "recording"
           complete == DenseComplete(rows, vectors, ModelOf(t))
           z == [s EXCEPT !.at = at, !.changed = changed, !.missing = missing,
                          !.complete = complete]
<1>1. /\ s.at = "planning" /\ SyncGoes(p, t, z)
      /\ UNCHANGED <<source, rows, vectors, manifest, known, generation, graph, overlapped, edits>>
  BY DEF Plan, SyncOf, IndexTables, IndexBounds
<1>2. IsSync(edits, s)
  BY DEF IndexInv, IndexShape
<1>3. IsRunning(s)
  BY <1>1 DEF IsRunning
<1>4. /\ at \in {"writing", "synced", "recording"}
      /\ at \in {"synced", "recording"} => manifest.signed = s.cut
  OBVIOUS
<1> HIDE DEF s, at, complete, missing
<1>5. /\ DOMAIN z = Parts /\ z.stats = s.stats /\ z.at = at /\ z.cut = s.cut
      /\ z.changed = s.cut \ rows
  BY <1>2 DEF IsSync, Parts
<1> HIDE DEF z
<1>6. IsSync(edits, z)
  BY <1>2, <1>4, <1>5 DEF IsSync, Stages
<1>7. ASSUME LoneInv
      PROVE  /\ SyncOK(source, rows, known, z)
             /\ z.at = "synced" => Current(source, rows, z.stats)
  <2>1. /\ Later(source, KnownStats(known), s.stats) /\ Current(source, s.cut, s.stats)
        /\ rows = manifest.signed
    BY <1>1, <1>3, <1>7 DEF LoneInv, SyncOK, s
  <2> QED BY <1>4, <1>5, <2>1 DEF SyncOK
<1> QED BY <1>1, <1>3, <1>5, <1>6, <1>7, TablesStay DEF s

(* A sync ends: with its exception, or when it is done.                     *)
LEMMA SyncStopsStep ==
  ASSUME IndexInv, NEW p \in Indexers, NEW t \in Threads,
         EmbeddingFails(p, t) \/ SyncEnds(p, t)
  PROVE  IndexInv'
<1>1. /\ SyncGoes(p, t, NoSync)
      /\ UNCHANGED <<source, rows, vectors, manifest, known, generation, graph, overlapped, edits>>
  BY DEF EmbeddingFails, SyncEnds, IndexTables, IndexBounds
<1>2. IndexShape /\ IsSync(edits, NoSync)
  BY NoSyncIs DEF IndexInv, IndexShape
<1>3. /\ DOMAIN sync' = Indexers /\ \A q \in Indexers : DOMAIN sync'[q] = Threads
      /\ \A q \in Indexers, u \in Threads :
           sync'[q][u] = IF q = p /\ u = t THEN NoSync ELSE sync[q][u]
      /\ \A q \in Indexers, u \in Threads : IsSync(edits, sync'[q][u])
  BY <1>1, <1>2, GoesShape
<1>4. IndexShape'
  BY <1>1, <1>2, <1>3 DEF IndexShape, IsSync
<1>5. GraphIsCurrent'
  BY <1>1 DEF IndexInv, GraphIsCurrent
<1>6. LoneInv => LoneInv'
  BY <1>1, <1>2, <1>3, SyncsStop
<1> QED BY <1>1, <1>4, <1>5, <1>6 DEF IndexInv

(* A process dies with its syncs.                                           *)
LEMMA DiesStep ==
  ASSUME IndexInv, NEW p \in Indexers, IndexerDies(p)
  PROVE  IndexInv'
<1>1. /\ UNCHANGED <<source, rows, vectors, manifest, known, generation, overlapped, edits>>
      /\ sync' = [sync EXCEPT ![p] = [t \in Threads |-> NoSync]]
      /\ graph' = [graph EXCEPT ![p] = NoGraph]
  BY DEF IndexerDies, IndexTables
<1>2. IndexShape /\ IsSync(edits, NoSync)
  BY NoSyncIs DEF IndexInv, IndexShape
<1>3. /\ DOMAIN sync' = Indexers /\ \A q \in Indexers : DOMAIN sync'[q] = Threads
      /\ \A q \in Indexers, u \in Threads : sync'[q][u] = sync[q][u] \/ sync'[q][u] = NoSync
      /\ DOMAIN graph' = Indexers
      /\ \A q \in Indexers : graph'[q] = IF q = p THEN NoGraph ELSE graph[q]
  BY <1>1, <1>2 DEF IndexShape
<1>4. \A q \in Indexers, u \in Threads : IsSync(edits', sync'[q][u])
  BY <1>1, <1>2, <1>3 DEF IndexShape
<1>5. \A q \in Indexers : graph'[q].generation \in Int /\ graph'[q].generation <= generation'
  BY <1>1, <1>2, <1>3 DEF IndexShape, NoGraph
<1>6. IndexShape'
  BY <1>1, <1>2, <1>3, <1>4, <1>5 DEF IndexShape, IsSync
<1>7. GraphIsCurrent'
  BY <1>1, <1>2, <1>3 DEF IndexInv, GraphIsCurrent, NoGraph, IndexShape
<1>8. LoneInv => LoneInv'
  BY <1>1, <1>2, <1>3, SyncsStop
<1> QED BY <1>1, <1>6, <1>7, <1>8 DEF IndexInv

(* A sync begins after the stats of any other: those of its files that      *)
(* are as they were looked at are as it looks at them.                      *)
LEMMA CollectStep ==
  ASSUME IndexInv, NEW p \in Indexers, NEW t \in Threads, Collect(p, t),
         ~ IsRunning(sync[p][t])
  PROVE  IndexInv'
<1> DEFINE z == [NoSync EXCEPT !.at = "collected", !.stats = source]
<1>1. /\ SyncGoes(p, t, z) /\ overlapped' = (overlapped \/ Running # {})
      /\ UNCHANGED <<source, rows, vectors, manifest, known, generation, graph, edits>>
  BY DEF Collect, IndexTables
<1>2. IndexShape
  BY DEF IndexInv
<1>3. DOMAIN z = Parts /\ z.at = "collected" /\ z.stats = source
  BY DEF NoSync, Parts
<1>4. IsSync(edits, z)
  BY <1>2, <1>3 DEF IsSync, Stages, IndexShape
<1> HIDE DEF z
<1>5. /\ DOMAIN sync' = Indexers /\ \A q \in Indexers : DOMAIN sync'[q] = Threads
      /\ \A q \in Indexers, u \in Threads :
           sync'[q][u] = IF q = p /\ u = t THEN z ELSE sync[q][u]
      /\ \A q \in Indexers, u \in Threads : IsSync(edits, sync'[q][u])
  BY <1>1, <1>2, <1>4, GoesShape
<1>6. IndexShape'
  BY <1>1, <1>2, <1>5 DEF IndexShape, IsSync
<1>7. GraphIsCurrent'
  BY <1>1 DEF IndexInv, GraphIsCurrent
<1>8. ASSUME ~ overlapped' PROVE LoneInv'
  <2>1. LoneInv
    BY <1>1, <1>8 DEF IndexInv
  <2>2. ASSUME NEW q \in Indexers, NEW u \in Threads PROVE ~ IsRunning(sync[q][u])
    <3>1. <<q, u>> \notin Running
      BY <1>1, <1>8
    <3> QED BY <3>1 DEF Running, SyncOf, IsRunning
  <2>3. \A q \in Indexers, u \in Threads : IsRunning(sync'[q][u]) => q = p /\ u = t
    BY <1>5, <2>2
  <2>4. \A q, r \in Indexers, u, v \in Threads :
          IsRunning(sync'[q][u]) /\ IsRunning(sync'[r][v]) => q = r /\ u = v
    BY <2>3
  <2>5. \A stats : Later(source, stats, source)
    BY DEF Later
  <2>6. ASSUME NEW q \in Indexers, NEW u \in Threads
        PROVE  SyncOK(source, rows, known, sync'[q][u])
    <3>1. CASE q = p /\ u = t
      <4>1. sync'[q][u] = z
        BY <1>5, <3>1
      <4> QED BY <1>3, <2>5, <4>1 DEF SyncOK
    <3>2. CASE ~ (q = p /\ u = t)
      BY <1>5, <2>1, <3>2 DEF LoneInv
    <3> QED BY <3>1, <3>2
  <2>7. ASSUME NEW q \in Indexers, sync'[q]["turn"].at = "synced"
        PROVE  /\ Current(source, rows, sync'[q]["turn"].stats)
               /\ \A r \in Indexers, v \in Threads :
                    IsRunning(sync'[r][v]) => Later(source, sync'[q]["turn"].stats, sync'[r][v].stats)
    <3>1. sync'[q]["turn"] = sync[q]["turn"] /\ sync[q]["turn"].at = "synced"
      BY <1>3, <1>5, <2>7 DEF Threads
    <3>2. ASSUME NEW r \in Indexers, NEW v \in Threads, IsRunning(sync'[r][v])
          PROVE  sync'[r][v].stats = source
      BY <1>3, <1>5, <2>3, <3>2
    <3> QED BY <2>1, <2>5, <3>1, <3>2 DEF LoneInv
  <2>8. /\ rows = manifest.signed
        /\ Current(source, rows, KnownStats(known)) /\ KnownTexts(source, known)
    BY <2>1 DEF LoneInv
  <2> HIDE DEF LoneInv, Current, KnownTexts, SyncOK, Later, IsRunning, KnownStats
  <2> QED BY <1>1, <2>4, <2>6, <2>7, <2>8
          DEF LoneInv, Current, KnownTexts, SyncOK, Later, IsRunning, KnownStats
<1> QED BY <1>6, <1>7, <1>8 DEF IndexInv

(* The tables become what was cut, which is as current as the latest stats. *)
LEMMA WriteIndexStep ==
  ASSUME IndexInv, NEW p \in Indexers, NEW t \in Threads, WriteIndex(p, t)
  PROVE  IndexInv'
<1> DEFINE s == sync[p][t]
           at == IF s.reused THEN "synced" ELSE "recording"
           complete == DenseComplete(rows', vectors', ModelOf(t))
           z == [s EXCEPT !.at = at, !.complete = complete]
<1>1. /\ s.at = "writing" /\ SyncGoes(p, t, z)
      /\ rows' = (rows \ (rows \ s.cut)) \cup s.changed
      /\ manifest' = [signed |-> s.cut, model |-> ModelOf(t)]
      /\ generation' = generation + 1
      /\ graph' = [graph EXCEPT ![p] = NoGraph]
      /\ UNCHANGED <<source, known, overlapped, edits>>
  BY DEF WriteIndex, SyncOf, IndexBounds
<1>2. IndexShape /\ IsSync(edits, s)
  BY DEF IndexInv, IndexShape
<1>3. IsRunning(s)
  BY <1>1 DEF IsRunning
<1>4. at \in {"synced", "recording"}
  OBVIOUS
<1> HIDE DEF s, at, complete
<1>5. DOMAIN z = Parts /\ z.stats = s.stats /\ z.at = at /\ z.cut = s.cut
  BY <1>2 DEF IsSync, Parts
<1> HIDE DEF z
<1>6. IsSync(edits, z)
  BY <1>2, <1>4, <1>5 DEF IsSync, Stages
<1>7. /\ DOMAIN sync' = Indexers /\ \A q \in Indexers : DOMAIN sync'[q] = Threads
      /\ \A q \in Indexers, u \in Threads : IsSync(edits, sync'[q][u])
  BY <1>1, <1>2, <1>6, GoesShape
<1>8. /\ DOMAIN graph' = Indexers /\ generation' \in Nat
      /\ \A q \in Indexers : /\ graph'[q].generation \in Int
                             /\ graph'[q].generation < generation'
  <2>1. ASSUME NEW q \in Indexers
        PROVE  graph'[q].generation \in Int /\ graph'[q].generation <= generation
    BY <1>1, <1>2 DEF IndexShape, NoGraph
  <2> QED BY <1>1, <1>2, <2>1 DEF IndexShape
<1>9. IndexShape'
  BY <1>1, <1>2, <1>7, <1>8 DEF IndexShape, IsSync
<1>10. GraphIsCurrent'
  BY <1>8 DEF GraphIsCurrent
<1>11. ASSUME LoneInv PROVE LoneInv'
  <2>1. /\ Later(source, KnownStats(known), s.stats) /\ Current(source, s.cut, s.stats)
        /\ s.changed = s.cut \ rows
    BY <1>1, <1>3, <1>11 DEF LoneInv, SyncOK, s
  <2>2. rows' = s.cut /\ manifest'.signed = s.cut
    BY <1>1, <2>1
  <2>3. Current(source, s.cut, KnownStats(known)) /\ KnownStats(known') = KnownStats(known)
    BY <1>1, <2>1, CurrentLater DEF KnownStats
  <2>4. KnownTexts(source, known')
    BY <1>1, <1>11 DEF LoneInv, KnownTexts
  <2>5. SyncOK(source, rows', known', z)
    BY <1>1, <1>4, <1>5, <2>1, <2>2, <2>3 DEF SyncOK
  <2>6. ASSUME NEW q \in Indexers, sync[q]["turn"].at = "synced"
        PROVE  Current(source, rows', sync[q]["turn"].stats)
    <3>1. Later(source, sync[q]["turn"].stats, s.stats)
      BY <1>3, <1>11, <2>6 DEF LoneInv, s
    <3> QED BY <2>1, <2>2, <3>1, CurrentLater
  <2>7. Current(source, rows', z.stats) /\ Current(source, rows', KnownStats(known'))
    BY <1>5, <2>1, <2>2, <2>3
  <2>8. rows' = manifest'.signed
    BY <2>2
  <2>9. /\ source' = source /\ IsRunning(sync[p][t]) /\ SyncGoes(p, t, z)
        /\ z.stats = sync[p][t].stats
    BY <1>1, <1>3, <1>5 DEF s
  <2> QED BY <1>2, <1>6, <1>11, <2>4, <2>5, <2>6, <2>7, <2>8, <2>9, LoneGoes
<1> QED BY <1>1, <1>9, <1>10, <1>11 DEF IndexInv

(* The stats that are recorded are older than the chunks of the tables.     *)
LEMMA RecordStatesStep ==
  ASSUME IndexInv, NEW p \in Indexers, NEW t \in Threads, RecordStates(p, t)
  PROVE  IndexInv'
<1> DEFINE s == sync[p][t]
           z == [s EXCEPT !.at = "synced"]
           picked(f) == CHOOSE c \in s.cut : c[1] = f
           text(f) == IF \E c \in s.cut : c[1] = f THEN picked(f)[2] ELSE 0
<1>1. /\ s.at = "recording" /\ SyncGoes(p, t, z)
      /\ known' = [f \in CodeFiles |-> [stat |-> s.stats[f], text |-> text(f)]]
      /\ UNCHANGED <<source, rows, vectors, manifest, generation, graph, overlapped, edits>>
  BY DEF RecordStates, StatOf, SyncOf, IndexBounds
<1>2. IndexShape /\ IsSync(edits, s)
  BY DEF IndexInv, IndexShape
<1>3. IsRunning(s)
  BY <1>1 DEF IsRunning
<1> HIDE DEF s
<1>4. DOMAIN z = Parts /\ z.stats = s.stats /\ z.at = "synced" /\ z.cut = s.cut
  BY <1>2 DEF IsSync, Parts
<1> HIDE DEF z
<1>5. IsSync(edits, z)
  BY <1>2, <1>4 DEF IsSync, Stages
<1>6. /\ DOMAIN sync' = Indexers /\ \A q \in Indexers : DOMAIN sync'[q] = Threads
      /\ \A q \in Indexers, u \in Threads : IsSync(edits, sync'[q][u])
  BY <1>1, <1>2, <1>5, GoesShape
<1>7. \A f \in CodeFiles : known'[f].stat = s.stats[f] /\ known'[f].text = text(f)
  BY <1>1
<1>8. \A f \in CodeFiles : known'[f].stat \in 0 .. edits
  BY <1>2, <1>7 DEF IsSync
<1>9. IndexShape'
  BY <1>1, <1>2, <1>6, <1>8 DEF IndexShape, IsSync
<1>10. GraphIsCurrent'
  BY <1>1 DEF IndexInv, GraphIsCurrent
<1>11. ASSUME LoneInv PROVE LoneInv'
  <2>1. Current(source, s.cut, s.stats) /\ rows = s.cut
    BY <1>1, <1>11 DEF LoneInv, SyncOK, s
  <2>2. \A f \in CodeFiles : KnownStats(known')[f] = s.stats[f]
    BY <1>7 DEF KnownStats
  <2>3. Current(source, rows', KnownStats(known')) /\ Current(source, rows', z.stats)
    BY <1>1, <1>4, <2>1, <2>2 DEF Current
  <2>4. ASSUME NEW f \in CodeFiles, source[f] > 0, s.stats[f] = source[f]
        PROVE  text(f) = source[f]
    <3>1. {c \in s.cut : c[1] = f} = {<<f, source[f]>>}
      BY <2>1, <2>4 DEF Current
    <3>2. \E c \in s.cut : c[1] = f
      BY <3>1
    <3>3. picked(f) \in {c \in s.cut : c[1] = f}
      BY <3>2
    <3> HIDE DEF picked
    <3>4. picked(f) = <<f, source[f]>>
      BY <3>1, <3>3
    <3> QED BY <3>2, <3>4
  <2>5. KnownTexts(source, known')
    BY <1>7, <2>4 DEF KnownTexts
  <2>6. SyncOK(source, rows', known', z)
    BY <1>4 DEF SyncOK, IsRunning
  <2>7. \A q \in Indexers : sync[q]["turn"].at = "synced" =>
          Current(source, rows', sync[q]["turn"].stats)
    BY <1>1, <1>11 DEF LoneInv
  <2>8. rows' = manifest'.signed
    BY <1>1, <1>11 DEF LoneInv
  <2>9. /\ source' = source /\ IsRunning(sync[p][t]) /\ SyncGoes(p, t, z)
        /\ z.stats = sync[p][t].stats
    BY <1>1, <1>3, <1>4 DEF s
  <2> QED BY <1>2, <1>5, <1>11, <2>3, <2>5, <2>6, <2>7, <2>8, <2>9, LoneGoes
<1> QED BY <1>1, <1>9, <1>10, <1>11 DEF IndexInv

(* A graph is built of the vectors of its generation.                       *)
LEMMA RetrieveStep ==
  ASSUME IndexInv, NEW p \in Indexers, Retrieve(p)
  PROVE  IndexInv'
<1> DEFINE g == [generation |-> generation, holds |-> vectors \cap rows]
<1>1. /\ graph' = [graph EXCEPT ![p] = g]
      /\ UNCHANGED <<source, rows, vectors, manifest, known, generation, sync, overlapped, edits>>
  BY DEF Retrieve, IndexTables, IndexBounds
<1>2. IndexShape /\ g.generation = generation /\ g.holds = vectors \cap rows
  BY DEF IndexInv
<1> HIDE DEF g
<1>3. /\ DOMAIN graph' = Indexers
      /\ \A q \in Indexers : graph'[q] = IF q = p THEN g ELSE graph[q]
  BY <1>1, <1>2 DEF IndexShape
<1>4. IndexShape'
  BY <1>1, <1>2, <1>3 DEF IndexShape, IsSync
<1>5. GraphIsCurrent'
  BY <1>1, <1>2, <1>3 DEF IndexInv, GraphIsCurrent
<1>6. ASSUME LoneInv PROVE LoneInv'
  BY <1>1, <1>6 DEF LoneInv, Current, KnownTexts, SyncOK, Later, IsRunning, KnownStats
<1> QED BY <1>1, <1>4, <1>5, <1>6 DEF IndexInv

-----------------------------------------------------------------------------
(* Every step of the index keeps the invariant.                             *)
LEMMA IndexInvStep == IndexInv /\ [CodeIndexNext]_indexVars => IndexInv'
<1> SUFFICES ASSUME IndexInv, [CodeIndexNext]_indexVars PROVE IndexInv'
  OBVIOUS
<1>1. CASE UNCHANGED indexVars
  <2>1. UNCHANGED <<source, rows, vectors, manifest, known, generation, graph, sync,
                    overlapped, edits>>
    BY <1>1 DEF indexVars
  <2>2. IndexShape'
    BY <2>1 DEF IndexInv, IndexShape, IsSync
  <2>3. GraphIsCurrent'
    BY <2>1 DEF IndexInv, GraphIsCurrent
  <2>4. LoneInv => LoneInv'
    BY <2>1 DEF LoneInv, Current, KnownTexts, SyncOK, Later, IsRunning, KnownStats
  <2> QED BY <2>1, <2>2, <2>3, <2>4 DEF IndexInv
<1>2. ASSUME NEW f \in CodeFiles, EditFile(f) PROVE IndexInv'
  BY <1>2, EditStep
<1>3. ASSUME NEW p \in Indexers,
             TurnSyncs(p) \/ BackgroundSyncs(p) \/ Retrieve(p) \/ IndexerDies(p)
      PROVE  IndexInv'
  <2>1. CASE TurnSyncs(p)
    BY <2>1, CollectStep DEF TurnSyncs, SyncOf, IsRunning, Threads
  <2>2. CASE BackgroundSyncs(p)
    BY <2>2, CollectStep DEF BackgroundSyncs, SyncOf, IsRunning, Threads
  <2>3. CASE Retrieve(p)
    BY <2>3, RetrieveStep
  <2>4. CASE IndexerDies(p)
    BY <2>4, DiesStep
  <2> QED BY <1>3, <2>1, <2>2, <2>3, <2>4
<1>4. ASSUME NEW p \in Indexers, NEW t \in Threads,
             \/ Check(p, t) \/ LoadChunks(p, t) \/ Chunk(p, t) \/ Plan(p, t)
             \/ EmbeddingFails(p, t) \/ WriteIndex(p, t) \/ RecordStates(p, t) \/ SyncEnds(p, t)
      PROVE  IndexInv'
  BY <1>4, CheckStep, LoadChunksStep, ChunkStep, PlanStep, SyncStopsStep, WriteIndexStep,
     RecordStatesStep
<1> QED BY <1>1, <1>2, <1>3, <1>4 DEF CodeIndexNext

(* For any number of processes, files, edits and syncs: a graph that        *)
(* dense_search would reuse is of the vectors of today, and as long as      *)
(* syncs have not overlapped, a turn retrieves from the files as they were  *)
(* when it looked, through edits, failed embeddings and exits.              *)
THEOREM IndexFollowsTheFiles == CodeIndexSpec => []IndexIsSound
<1>1. IndexInv => IndexIsSound
  <2> SUFFICES ASSUME IndexInv PROVE IndexIsSound
    OBVIOUS
  <2>1. ASSUME NEW p \in Indexers, ~ overlapped, SyncOf(p, "turn").at = "synced"
        PROVE  FollowsFiles(SyncOf(p, "turn"))
    <3>1. Current(source, rows, sync[p]["turn"].stats)
      BY <2>1 DEF IndexInv, LoneInv, SyncOf
    <3> QED BY <3>1 DEF Current, FollowsFiles, SyncOf
  <2> QED BY <2>1 DEF IndexInv, IndexIsSound, LoneSyncIsCurrent
<1> QED BY <1>1, IndexInitInv, IndexInvStep, PTL DEF CodeIndexSpec
-----------------------------------------------------------------------------
(* The types: texts are numbers of edits, and chunks of texts that were.    *)
EditTexts == 0 .. MaxEdits
SyncTyped(s) ==
  /\ DOMAIN s = Parts /\ s.at \in Stages /\ s.stats \in [CodeFiles -> EditTexts]
  /\ s.cut \subseteq Chunks /\ s.changed \subseteq Chunks /\ s.missing \subseteq Chunks

TablesTyped ==
  /\ rows \subseteq Chunks /\ vectors \subseteq Chunks
  /\ manifest.signed \subseteq Chunks /\ manifest.model \in {"none", "disabled", "m"}
  /\ known \in [CodeFiles -> [stat : EditTexts, text : EditTexts]]
  /\ chunkCache \in [CodeFiles -> EditTexts] /\ generation \in Nat
SyncsTyped ==
  /\ DOMAIN sync = Indexers /\ \A p \in Indexers : DOMAIN sync[p] = Threads
  /\ \A p \in Indexers, t \in Threads : SyncTyped(sync[p][t])
IndexTypes ==
  /\ edits \in Nat /\ source \in [CodeFiles -> EditTexts]
  /\ TablesTyped /\ SyncsTyped
  /\ DOMAIN graph = Indexers /\ \A p \in Indexers : graph[p].holds \subseteq Chunks

LEMMA NoSyncTyped == SyncTyped(NoSync)
<1>1. [f \in CodeFiles |-> 0] \in [CodeFiles -> EditTexts]
  BY CodeIndexAssumptions DEF EditTexts
<1> QED BY <1>1 DEF NoSync, SyncTyped, Parts, Stages

LEMMA IndexInitTypes == CodeIndexInit => IndexTypes
<1> SUFFICES ASSUME CodeIndexInit PROVE IndexTypes
  OBVIOUS
<1>1. 0 \in EditTexts
  BY CodeIndexAssumptions DEF EditTexts
<1>2. TablesTyped
  BY <1>1 DEF CodeIndexInit, TablesTyped, Unsigned, Unrecorded
<1>3. SyncsTyped
  BY NoSyncTyped DEF CodeIndexInit, SyncsTyped
<1>4. source \in [CodeFiles -> EditTexts] /\ edits \in Nat
  BY <1>1 DEF CodeIndexInit
<1>5. DOMAIN graph = Indexers /\ \A p \in Indexers : graph[p].holds \subseteq Chunks
  BY DEF CodeIndexInit, NoGraph
<1> QED BY <1>2, <1>3, <1>4, <1>5 DEF IndexTypes

(* One sync goes on. *)
LEMMA GoesTyped ==
  ASSUME SyncsTyped, NEW p \in Indexers, NEW t \in Threads, NEW s, SyncTyped(s), SyncGoes(p, t, s)
  PROVE  SyncsTyped'
<1>1. /\ DOMAIN sync' = Indexers /\ \A q \in Indexers : DOMAIN sync'[q] = Threads
      /\ \A q \in Indexers, u \in Threads :
           sync'[q][u] = IF q = p /\ u = t THEN s ELSE sync[q][u]
  BY DEF SyncsTyped, SyncGoes
<1>2. \A q \in Indexers, u \in Threads : SyncTyped(sync'[q][u])
  BY <1>1 DEF SyncsTyped
<1> QED BY <1>1, <1>2 DEF SyncsTyped, SyncTyped

LEMMA StagesTyped ==
  ASSUME NEW s, SyncTyped(s), NEW at \in Stages
  PROVE  /\ SyncTyped([s EXCEPT !.at = at])
         /\ \A cut \in SUBSET Chunks : SyncTyped([s EXCEPT !.at = at, !.cut = cut])
         /\ \A cut \in SUBSET Chunks : \A b :
              SyncTyped([s EXCEPT !.at = at, !.cut = cut, !.reused = b])
         /\ \A b : SyncTyped([s EXCEPT !.at = at, !.complete = b])
         /\ \A a, b : SyncTyped([s EXCEPT !.at = at, !.complete = a, !.reused = b])
         /\ \A c, m \in SUBSET Chunks : \A b :
              SyncTyped([s EXCEPT !.at = at, !.changed = c, !.missing = m, !.complete = b])
<1> QED BY DEF SyncTyped, Parts

LEMMA StagesAre ==
  {"idle", "collected", "loading", "chunking", "planning", "writing", "recording", "synced"} = Stages
<1> QED BY DEF Stages

LEMMA CutTyped ==
  ASSUME IndexTypes, NEW s, SyncTyped(s)
  PROVE  CutOf(s) \subseteq Chunks /\ \A f \in CodeFiles : TextOf(s, f) \in EditTexts
<1>1. \A f \in CodeFiles : TextOf(s, f) \in EditTexts
  BY DEF TextOf, IndexTypes, TablesTyped
<1>2. ASSUME NEW f \in CodeFiles, TextOf(s, f) > 0 PROVE TextOf(s, f) \in 1 .. MaxEdits
  BY <1>1, <1>2, CodeIndexAssumptions DEF EditTexts
<1>3. \A c \in CutOf(s) : \E f \in CodeFiles : c = <<f, TextOf(s, f)>> /\ TextOf(s, f) > 0
  BY DEF CutOf
<1>4. CutOf(s) \subseteq Chunks
  BY <1>2, <1>3 DEF Chunks
<1> QED BY <1>1, <1>4

(* A sync that leaves the tables alone. *)
LEMMA OnlySyncs ==
  ASSUME IndexTypes, SyncsTyped', UNCHANGED <<source, IndexTables, edits, graph>>
  PROVE  IndexTypes'
<1> QED BY DEF IndexTypes, IndexTables, TablesTyped

LEMMA IndexTypesStep ==
  ASSUME IndexTypes, [CodeIndexNext]_indexVars
  PROVE  IndexTypes'
<1>1. ASSUME NEW f \in CodeFiles, EditFile(f) PROVE IndexTypes'
  <2>1. edits' \in Nat /\ edits' \in EditTexts /\ 0 \in EditTexts
    BY <1>1, CodeIndexAssumptions DEF EditFile, IndexTypes, EditTexts
  <2>2. source' \in [CodeFiles -> EditTexts]
    BY <1>1, <2>1 DEF EditFile, IndexTypes
  <2>3. UNCHANGED <<rows, vectors, manifest, known, chunkCache, generation, graph, sync>>
    BY <1>1 DEF EditFile, IndexTables
  <2> QED BY <2>1, <2>2, <2>3 DEF IndexTypes, TablesTyped, SyncsTyped, SyncTyped
<1>2. SyncsTyped /\ TablesTyped
  BY DEF IndexTypes
<1>3. ASSUME NEW p \in Indexers, NEW t \in Threads, Collect(p, t) PROVE IndexTypes'
  <2> DEFINE z == [NoSync EXCEPT !.at = "collected", !.stats = source]
  <2>1. SyncGoes(p, t, z) /\ UNCHANGED <<source, IndexTables, edits, graph>>
    BY <1>3 DEF Collect
  <2>2. SyncTyped(z)
    <3>1. source \in [CodeFiles -> EditTexts]
      BY DEF IndexTypes
    <3> QED BY <3>1, NoSyncTyped DEF SyncTyped, Parts, Stages
  <2> HIDE DEF z
  <2>3. SyncsTyped'
    BY <1>2, <2>1, <2>2, GoesTyped
  <2> QED BY <2>1, <2>3, OnlySyncs
<1>4. ASSUME NEW p \in Indexers, TurnSyncs(p) \/ BackgroundSyncs(p) PROVE IndexTypes'
  <2>1. \E t \in Threads : Collect(p, t)
    BY <1>4 DEF TurnSyncs, BackgroundSyncs, Threads
  <2> QED BY <1>3, <2>1
<1>5. ASSUME NEW p \in Indexers, NEW t \in Threads, Check(p, t) PROVE IndexTypes'
  <2> DEFINE s == sync[p][t]
  <2>1. SyncTyped(s)
    BY <1>2 DEF SyncsTyped
  <2>2. \E z : SyncGoes(p, t, z) /\
          \/ z = [s EXCEPT !.at = "chunking"]
          \/ \E c : z = [s EXCEPT !.at = "synced", !.complete = c, !.reused = TRUE]
          \/ z = [s EXCEPT !.at = "loading"]
    BY <1>5, Zenon DEF Check, SyncOf
  <2> HIDE DEF s
  <2>3. PICK z : SyncGoes(p, t, z) /\
          \/ z = [s EXCEPT !.at = "chunking"]
          \/ \E c : z = [s EXCEPT !.at = "synced", !.complete = c, !.reused = TRUE]
          \/ z = [s EXCEPT !.at = "loading"]
    BY <2>2
  <2>4. "chunking" \in Stages /\ "synced" \in Stages /\ "loading" \in Stages
    BY StagesAre
  <2>5. SyncTyped(z)
    <3>1. CASE z = [s EXCEPT !.at = "chunking"]
      BY <2>1, <2>4, <3>1, StagesTyped
    <3>2. ASSUME NEW c, z = [s EXCEPT !.at = "synced", !.complete = c, !.reused = TRUE]
          PROVE  SyncTyped(z)
      <4>1. \A a, b : SyncTyped([s EXCEPT !.at = "synced", !.complete = a, !.reused = b])
        BY <2>1, <2>4, StagesTyped
      <4>2. SyncTyped([s EXCEPT !.at = "synced", !.complete = c, !.reused = TRUE])
        BY <4>1, Zenon
      <4> QED BY <3>2, <4>2
    <3>3. CASE z = [s EXCEPT !.at = "loading"]
      BY <2>1, <2>4, <3>3, StagesTyped
    <3> QED BY <2>3, <3>1, <3>2, <3>3
  <2>6. SyncsTyped'
    BY <1>2, <2>3, <2>5, GoesTyped
  <2>7. UNCHANGED <<source, IndexTables, edits, graph>>
    BY <1>5 DEF Check, IndexBounds
  <2> QED BY <2>6, <2>7, OnlySyncs
<1>6. ASSUME NEW p \in Indexers, NEW t \in Threads, LoadChunks(p, t) PROVE IndexTypes'
  <2> DEFINE s == sync[p][t]
             z == [s EXCEPT !.at = "planning", !.cut = rows, !.reused = TRUE]
  <2>1. SyncTyped(s) /\ "planning" \in Stages /\ rows \in SUBSET Chunks
    BY <1>2, StagesAre DEF SyncsTyped, TablesTyped
  <2>2. SyncGoes(p, t, z)
    BY <1>6 DEF LoadChunks, SyncOf
  <2> HIDE DEF s
  <2>3. SyncTyped(z)
    BY <2>1, StagesTyped
  <2>4. SyncsTyped'
    BY <1>2, <2>2, <2>3, GoesTyped
  <2>5. UNCHANGED <<source, IndexTables, edits, graph>>
    BY <1>6 DEF LoadChunks, IndexBounds
  <2> QED BY <2>4, <2>5, OnlySyncs
<1>7. ASSUME NEW p \in Indexers, NEW t \in Threads, Chunk(p, t) PROVE IndexTypes'
  <2> DEFINE s == sync[p][t]
             z == [s EXCEPT !.at = "planning", !.cut = CutOf(s)]
  <2>1. SyncTyped(s) /\ "planning" \in Stages
    BY <1>2, StagesAre DEF SyncsTyped
  <2>2. /\ SyncGoes(p, t, z) /\ UNCHANGED <<source, rows, vectors, manifest, known, generation, graph, edits>>
        /\ chunkCache' = [f \in CodeFiles |->
             IF \E c \in CutOf(s) : c[1] = f THEN TextOf(s, f) ELSE chunkCache[f]]
    BY <1>7 DEF Chunk, SyncOf, IndexBounds
  <2> HIDE DEF s
  <2>3. CutOf(s) \in SUBSET Chunks /\ \A f \in CodeFiles : TextOf(s, f) \in EditTexts
    BY <2>1, CutTyped
  <2>4. SyncTyped(z)
    BY <2>1, <2>3, StagesTyped
  <2>5. SyncsTyped'
    BY <1>2, <2>2, <2>4, GoesTyped
  <2>6. chunkCache' \in [CodeFiles -> EditTexts]
    BY <2>2, <2>3 DEF IndexTypes, TablesTyped
  <2> QED BY <2>2, <2>5, <2>6 DEF IndexTypes, TablesTyped
<1>8. ASSUME NEW p \in Indexers, NEW t \in Threads, Plan(p, t) PROVE IndexTypes'
  <2> DEFINE s == sync[p][t]
             changed == s.cut \ rows
             missing == IF t = "turn" THEN {} ELSE s.cut \ (vectors \cap rows)
             same == /\ manifest = [signed |-> s.cut, model |-> ModelOf(t)]
                     /\ changed = {} /\ missing = {}
             at == IF ~ same THEN "writing" ELSE IF s.reused THEN "synced" ELSE "recording"
             complete == DenseComplete(rows, vectors, ModelOf(t))
             z == [s EXCEPT !.at = at, !.changed = changed, !.missing = missing,
                            !.complete = complete]
  <2>1. SyncGoes(p, t, z) /\ UNCHANGED <<source, IndexTables, edits, graph>>
    BY <1>8 DEF Plan, SyncOf, IndexBounds
  <2>2. SyncTyped(s) /\ at \in Stages
    BY <1>2, StagesAre DEF SyncsTyped
  <2>3. changed \in SUBSET Chunks /\ missing \in SUBSET Chunks
    BY <2>2 DEF SyncTyped
  <2> HIDE DEF s, at, changed, missing, complete
  <2>4. SyncTyped(z)
    BY <2>2, <2>3, StagesTyped
  <2>5. SyncsTyped'
    BY <1>2, <2>1, <2>4, GoesTyped
  <2> QED BY <2>1, <2>5, OnlySyncs
<1>9. ASSUME NEW p \in Indexers, NEW t \in Threads, EmbeddingFails(p, t) \/ SyncEnds(p, t)
      PROVE IndexTypes'
  <2>1. SyncGoes(p, t, NoSync) /\ UNCHANGED <<source, IndexTables, edits, graph>>
    BY <1>9 DEF EmbeddingFails, SyncEnds, IndexBounds
  <2>2. SyncsTyped'
    BY <1>2, <2>1, NoSyncTyped, GoesTyped
  <2> QED BY <2>1, <2>2, OnlySyncs
<1>10. ASSUME NEW p \in Indexers, NEW t \in Threads, WriteIndex(p, t) PROVE IndexTypes'
  <2> DEFINE s == sync[p][t]
             at == IF s.reused THEN "synced" ELSE "recording"
             complete == DenseComplete(rows', vectors', ModelOf(t))
             z == [s EXCEPT !.at = at, !.complete = complete]
  <2>1. /\ SyncGoes(p, t, z) /\ rows' = (rows \ (rows \ s.cut)) \cup s.changed
        /\ vectors' = (vectors \ ((rows \ s.cut) \cup s.changed)) \cup s.missing
        /\ manifest' = [signed |-> s.cut, model |-> ModelOf(t)]
        /\ generation' = generation + 1 /\ graph' = [graph EXCEPT ![p] = NoGraph]
        /\ UNCHANGED <<source, known, chunkCache, edits>>
    BY <1>10 DEF WriteIndex, SyncOf, IndexBounds
  <2>2. SyncTyped(s) /\ at \in Stages
    BY <1>2, StagesAre DEF SyncsTyped
  <2> HIDE DEF s, at, complete
  <2>3. SyncTyped(z)
    BY <2>2, StagesTyped
  <2>4. SyncsTyped'
    BY <1>2, <2>1, <2>3, GoesTyped
  <2>5. ModelOf(t) \in {"none", "disabled", "m"}
    BY <1>2 DEF ModelOf, TablesTyped
  <2>6. TablesTyped'
    BY <1>2, <2>1, <2>2, <2>5 DEF TablesTyped, SyncTyped
  <2>7. DOMAIN graph' = Indexers /\ \A q \in Indexers : graph'[q].holds \subseteq Chunks
    BY <2>1 DEF IndexTypes, NoGraph
  <2> QED BY <2>1, <2>4, <2>6, <2>7 DEF IndexTypes
<1>11. ASSUME NEW p \in Indexers, NEW t \in Threads, RecordStates(p, t) PROVE IndexTypes'
  <2> DEFINE s == sync[p][t]
             Of(f) == IF \E c \in s.cut : c[1] = f THEN (CHOOSE c \in s.cut : c[1] = f)[2] ELSE 0
             z == [s EXCEPT !.at = "synced"]
  <2>1. /\ SyncGoes(p, t, z) /\ UNCHANGED <<source, rows, vectors, manifest, chunkCache, generation, graph, edits>>
        /\ known' = [f \in CodeFiles |-> [stat |-> StatOf(s, f), text |-> Of(f)]]
    BY <1>11 DEF RecordStates, SyncOf, IndexBounds
  <2>2. SyncTyped(s) /\ "synced" \in Stages
    BY <1>2, StagesAre DEF SyncsTyped
  <2> HIDE DEF s
  <2>3. SyncTyped(z)
    BY <2>2, StagesTyped
  <2>4. SyncsTyped'
    BY <1>2, <2>1, <2>3, GoesTyped
  <2>5. ASSUME NEW f \in CodeFiles PROVE Of(f) \in EditTexts /\ StatOf(s, f) \in EditTexts
    <3>1. StatOf(s, f) \in EditTexts
      BY <2>2 DEF StatOf, SyncTyped
    <3>2. 0 \in EditTexts /\ 1 .. MaxEdits \subseteq EditTexts
      BY CodeIndexAssumptions DEF EditTexts
    <3>3. \A c \in s.cut : c[2] \in 1 .. MaxEdits
      BY <2>2 DEF SyncTyped, Chunks
    <3> QED BY <3>1, <3>2, <3>3
  <2> HIDE DEF Of
  <2>6. known' \in [CodeFiles -> [stat : EditTexts, text : EditTexts]]
    BY <2>1, <2>5
  <2> QED BY <2>1, <2>4, <2>6 DEF IndexTypes, TablesTyped
<1>12. ASSUME NEW p \in Indexers, Retrieve(p) PROVE IndexTypes'
  <2>1. graph' = [graph EXCEPT ![p] = [generation |-> generation, holds |-> vectors \cap rows]]
        /\ UNCHANGED <<source, IndexTables, sync, edits>>
    BY <1>12 DEF Retrieve, IndexBounds
  <2>2. DOMAIN graph' = Indexers /\ \A q \in Indexers : graph'[q].holds \subseteq Chunks
    BY <1>2, <2>1 DEF IndexTypes, TablesTyped
  <2> QED BY <2>1, <2>2 DEF IndexTypes, IndexTables, TablesTyped, SyncsTyped, SyncTyped
<1>13. ASSUME NEW p \in Indexers, IndexerDies(p) PROVE IndexTypes'
  <2>1. /\ sync' = [sync EXCEPT ![p] = [t \in Threads |-> NoSync]]
        /\ graph' = [graph EXCEPT ![p] = NoGraph] /\ UNCHANGED <<source, IndexTables, edits>>
    BY <1>13 DEF IndexerDies
  <2>2. DOMAIN graph' = Indexers /\ \A q \in Indexers : graph'[q].holds \subseteq Chunks
    BY <2>1 DEF IndexTypes, NoGraph
  <2>3. /\ DOMAIN sync' = Indexers /\ \A q \in Indexers : DOMAIN sync'[q] = Threads
        /\ \A q \in Indexers, u \in Threads : sync'[q][u] = IF q = p THEN NoSync ELSE sync[q][u]
    BY <1>2, <2>1 DEF SyncsTyped
  <2>4. \A q \in Indexers, u \in Threads : SyncTyped(sync'[q][u])
    BY <1>2, <2>3, NoSyncTyped DEF SyncsTyped
  <2>5. SyncsTyped'
    BY <2>3, <2>4 DEF SyncsTyped, SyncTyped
  <2> QED BY <2>1, <2>2, <2>5 DEF IndexTypes, IndexTables, TablesTyped
<1>14. CASE UNCHANGED indexVars
  BY <1>14 DEF indexVars, IndexTypes, TablesTyped, SyncsTyped, SyncTyped
<1> QED BY <1>1, <1>4, <1>5, <1>6, <1>7, <1>8, <1>9, <1>10, <1>11, <1>12, <1>13, <1>14
        DEF CodeIndexNext

LEMMA IndexTypesCorrect == IndexTypes => CodeIndexTypeOK
<1> SUFFICES ASSUME IndexTypes PROVE CodeIndexTypeOK
  OBVIOUS
<1>1. \A p \in Indexers, t \in Threads : sync[p][t].at \in Stages
  BY DEF IndexTypes, SyncsTyped, SyncTyped
<1> QED BY <1>1 DEF IndexTypes, TablesTyped, CodeIndexTypeOK, EditTexts, Stages

-----------------------------------------------------------------------------
(***************************************************************************)
(* RepoMap, for any files, symbols and loaders: an entry whose stat is the *)
(* file's has the file's text, a load gives no tags of a text that was     *)
(* gone before it began, and a map fits in its room.                       *)
(***************************************************************************)

(* A load has the parts of a load. *)
IsLoad(x) ==
  /\ x = [at |-> x.at, loaded |-> x.loaded, entries |-> x.entries, states |-> x.states,
          todo |-> x.todo, tags |-> x.tags, dirty |-> x.dirty]
  /\ x.at \in {"idle", "begun", "tagging", "saving", "tagged"}
  /\ x.entries \in [MapFiles -> Entries] /\ x.states \in [MapFiles -> 0 .. MaxWrites]
  /\ x.todo \subseteq MapFiles /\ x.tags = [f \in MapFiles |-> x.tags[f]]

(* An entry is not newer than the last write, and current when its stat is   *)
(* the file's.                                                               *)
GoodEntry(fs, w, f, e) ==
  /\ e.stat <= w
  /\ fs[f] # Absent /\ e.stat = fs[f].stat => e.text = fs[f].text
GoodTag(fs, w, x, f) ==
  /\ x.states[f] <= w
  /\ f \in x.todo => x.states[f] # 0
  /\ x.tags[f] # "none" =>
       x.states[f] # 0 /\ (x.states[f] = fs[f].stat => x.tags[f] = fs[f].text)
GoodLoad(fs, w, x) ==
  /\ IsLoad(x)
  /\ \A f \in MapFiles : GoodEntry(fs, w, f, x.entries[f]) /\ GoodTag(fs, w, x, f)
GoodCache(fs, w, c) ==
  /\ c.entries \in [MapFiles -> Entries]
  /\ \A f \in MapFiles : GoodEntry(fs, w, f, c.entries[f])
(* Tags are taken after the files are listed.                                *)
Untagged(x) == x.at = "begun" => \A f \in MapFiles : x.tags[f] = "none"
GoodFile(w, e) == e.stat <= w /\ (e.stat = 0 => e = Absent)

LoadsInv ==
  /\ files \in [MapFiles -> Entries] /\ sourceWrites \in 0 .. MaxWrites
  /\ GoodCache(files, sourceWrites, tagCache)
  /\ DOMAIN loader = Loaders
  /\ \A f \in MapFiles : GoodFile(sourceWrites, files[f])
  /\ \A l \in Loaders : GoodLoad(files, sourceWrites, loader[l]) /\ Untagged(loader[l])

(* The entry of a file that is absent from the cache.                       *)
LEMMA AbsentIs == Absent \in Entries /\ Absent.stat = 0 /\ MaxWrites \in Nat
<1> QED BY RepoMapAssumption DEF Absent, Entries

(* A cache without entries is sound.                                        *)
LEMMA NoEntriesIs ==
  ASSUME NEW fs, NEW w \in Nat, \A f \in MapFiles : GoodFile(w, fs[f])
  PROVE  /\ NoEntries \in [MapFiles -> Entries]
         /\ \A f \in MapFiles : GoodEntry(fs, w, f, NoEntries[f])
<1>1. NoEntries \in [MapFiles -> Entries] /\ \A f \in MapFiles : NoEntries[f] = Absent
  BY AbsentIs DEF NoEntries
<1> QED BY <1>1, AbsentIs DEF GoodEntry, GoodFile

(* A loader that does not load is sound.                                    *)
LEMMA NoLoadIs ==
  ASSUME NEW fs, NEW w \in Nat, \A f \in MapFiles : GoodFile(w, fs[f])
  PROVE  GoodLoad(fs, w, NoLoad)
<1>1. /\ NoLoad.at = "idle" /\ NoLoad.entries = NoEntries /\ NoLoad.states = Unlisted
      /\ NoLoad.todo = {} /\ NoLoad.tags = [f \in MapFiles |-> "none"]
      /\ NoLoad.loaded = FALSE /\ NoLoad.dirty = FALSE
  BY DEF NoLoad
<1>2. NoLoad = [at |-> NoLoad.at, loaded |-> NoLoad.loaded, entries |-> NoLoad.entries,
                states |-> NoLoad.states, todo |-> NoLoad.todo, tags |-> NoLoad.tags,
                dirty |-> NoLoad.dirty]
  BY DEF NoLoad
<1>3. Unlisted \in [MapFiles -> 0 .. MaxWrites] /\ \A f \in MapFiles : Unlisted[f] = 0
  BY AbsentIs DEF Unlisted
<1>4. NoLoad.tags = [f \in MapFiles |-> NoLoad.tags[f]] /\ \A f \in MapFiles : NoLoad.tags[f] = "none"
  BY <1>1
<1>5. NoEntries \in [MapFiles -> Entries] /\ \A f \in MapFiles : GoodEntry(fs, w, f, NoEntries[f])
  BY NoEntriesIs
<1>6. IsLoad(NoLoad)
  BY <1>1, <1>2, <1>3, <1>4, <1>5 DEF IsLoad
<1>7. \A f \in MapFiles : GoodTag(fs, w, NoLoad, f)
  BY <1>1, <1>3, <1>4 DEF GoodTag
<1> QED BY <1>1, <1>5, <1>6, <1>7 DEF GoodLoad

(* What a change of one part of a load leaves. *)
LEMMA WithAt ==
  ASSUME NEW fs, NEW w, NEW x, GoodLoad(fs, w, x),
         NEW a \in {"idle", "begun", "tagging", "saving", "tagged"}
  PROVE  LET y == [x EXCEPT !.at = a]
         IN  GoodLoad(fs, w, y) /\ y.at = a /\ y.tags = x.tags /\ y.entries = x.entries
<1> DEFINE y == [x EXCEPT !.at = a]
<1>1. x = [at |-> x.at, loaded |-> x.loaded, entries |-> x.entries, states |-> x.states,
          todo |-> x.todo, tags |-> x.tags, dirty |-> x.dirty]
  BY DEF GoodLoad, IsLoad
<1>2. y = [at |-> a, loaded |-> x.loaded, entries |-> x.entries, states |-> x.states,
          todo |-> x.todo, tags |-> x.tags, dirty |-> x.dirty]
  BY <1>1
<1>3. /\ y.at = a /\ y.loaded = x.loaded /\ y.entries = x.entries /\ y.states = x.states
      /\ y.todo = x.todo /\ y.tags = x.tags /\ y.dirty = x.dirty
  BY <1>2
<1> HIDE DEF y
<1> QED BY <1>2, <1>3 DEF GoodLoad, IsLoad, GoodTag, y

(* A loader that took the entries of the cache has sound ones.              *)
LEMMA WithCacheIs ==
  ASSUME LoadsInv, NEW x, GoodLoad(files, sourceWrites, x)
  PROVE  GoodLoad(files, sourceWrites, WithCache(x)) /\ WithCache(x).tags = x.tags
<1> DEFINE y == WithCache(x)
           cached == IF tagCache.torn THEN NoEntries ELSE tagCache.entries
           b == ~tagCache.torn
           u == [x EXCEPT !.loaded = b]
<1>0. /\ cached \in [MapFiles -> Entries]
      /\ \A f \in MapFiles : GoodEntry(files, sourceWrites, f, cached[f])
  <2>1. sourceWrites \in Nat
    BY AbsentIs DEF LoadsInv
  <2>2. \A f \in MapFiles : GoodFile(sourceWrites, files[f])
    BY DEF LoadsInv
  <2>3. /\ NoEntries \in [MapFiles -> Entries]
        /\ \A f \in MapFiles : GoodEntry(files, sourceWrites, f, NoEntries[f])
    BY <2>1, <2>2, NoEntriesIs
  <2> QED BY <2>3 DEF LoadsInv, GoodCache
<1>1. x = [at |-> x.at, loaded |-> x.loaded, entries |-> x.entries, states |-> x.states,
          todo |-> x.todo, tags |-> x.tags, dirty |-> x.dirty]
  BY DEF GoodLoad, IsLoad
<1>3. y = [u EXCEPT !.entries = cached]
  BY DEF WithCache
<1> HIDE DEF y, b, cached
<1>4. u = [at |-> x.at, loaded |-> b, entries |-> x.entries, states |-> x.states,
          todo |-> x.todo, tags |-> x.tags, dirty |-> x.dirty]
  BY <1>1
<1> HIDE DEF u
<1>5. y = [at |-> x.at, loaded |-> b, entries |-> cached, states |-> x.states,
          todo |-> x.todo, tags |-> x.tags, dirty |-> x.dirty]
  BY <1>3, <1>4
<1>6. /\ y.at = x.at /\ y.loaded = b /\ y.entries = cached /\ y.states = x.states
      /\ y.todo = x.todo /\ y.tags = x.tags /\ y.dirty = x.dirty
  BY <1>5
<1> QED BY <1>0, <1>5, <1>6 DEF GoodLoad, IsLoad, GoodTag, y

(* The files are listed: no tag has been taken yet. *)
LEMMA ListedIs ==
  ASSUME LoadsInv, NEW x, GoodLoad(files, sourceWrites, x),
         \A f \in MapFiles : x.tags[f] = "none"
  PROVE  GoodLoad(files, sourceWrites, Listed(x)) /\ Listed(x).tags = x.tags
<1> DEFINE y == Listed(x)
           stats == [f \in MapFiles |-> files[f].stat]
           todo == {f \in MapFiles : Present(f)}
           u == [x EXCEPT !.states = stats]
<1>0. /\ stats \in [MapFiles -> 0 .. MaxWrites] /\ todo \subseteq MapFiles
      /\ \A f \in MapFiles : stats[f] <= sourceWrites
      /\ \A f \in todo : stats[f] # 0
  BY DEF LoadsInv, Entries, GoodFile, Present
<1>1. x = [at |-> x.at, loaded |-> x.loaded, entries |-> x.entries, states |-> x.states,
          todo |-> x.todo, tags |-> x.tags, dirty |-> x.dirty]
  BY DEF GoodLoad, IsLoad
<1>2. u = [at |-> x.at, loaded |-> x.loaded, entries |-> x.entries, states |-> stats,
          todo |-> x.todo, tags |-> x.tags, dirty |-> x.dirty]
  BY <1>1
<1>3. y = [u EXCEPT !.todo = todo]
  BY DEF Listed
<1> HIDE DEF y, u, stats, todo
<1>4. y = [at |-> x.at, loaded |-> x.loaded, entries |-> x.entries, states |-> stats,
          todo |-> todo, tags |-> x.tags, dirty |-> x.dirty]
  BY <1>2, <1>3
<1>5. /\ y.at = x.at /\ y.loaded = x.loaded /\ y.entries = x.entries /\ y.states = stats
      /\ y.todo = todo /\ y.tags = x.tags /\ y.dirty = x.dirty
  BY <1>4
<1>6. IsLoad(y)
  BY <1>0, <1>4, <1>5 DEF GoodLoad, IsLoad
<1>7. \A f \in MapFiles : GoodTag(files, sourceWrites, y, f)
  BY <1>0, <1>5 DEF GoodTag
<1>8. \A f \in MapFiles : GoodEntry(files, sourceWrites, f, y.entries[f])
  BY <1>5 DEF GoodLoad
<1> QED BY <1>5, <1>6, <1>7, <1>8 DEF GoodLoad, y

(* A file is done: with the text that was taken, or without any. *)
LEMMA SkippedIs ==
  ASSUME NEW fs, NEW w, NEW x, GoodLoad(fs, w, x), NEW f \in MapFiles
  PROVE  LET y == [x EXCEPT !.todo = @ \ {f}]
         IN  GoodLoad(fs, w, y) /\ y.at = x.at
<1> DEFINE todo == x.todo \ {f}
           y == [x EXCEPT !.todo = todo]
<1>1. x = [at |-> x.at, loaded |-> x.loaded, entries |-> x.entries, states |-> x.states,
          todo |-> x.todo, tags |-> x.tags, dirty |-> x.dirty]
  BY DEF GoodLoad, IsLoad
<1>2. todo \subseteq x.todo /\ y = [x EXCEPT !.todo = @ \ {f}]
  OBVIOUS
<1> HIDE DEF todo
<1>3. y = [at |-> x.at, loaded |-> x.loaded, entries |-> x.entries, states |-> x.states,
          todo |-> todo, tags |-> x.tags, dirty |-> x.dirty]
  BY <1>1
<1>4. /\ y.at = x.at /\ y.loaded = x.loaded /\ y.entries = x.entries /\ y.states = x.states
      /\ y.todo = todo /\ y.tags = x.tags /\ y.dirty = x.dirty
  BY <1>3
<1> HIDE DEF y
<1>5. GoodLoad(fs, w, y) /\ y.at = x.at
  BY <1>2, <1>3, <1>4 DEF GoodLoad, IsLoad, GoodTag
<1> QED BY <1>2, <1>5

(* A file that is handled with the tags of its text leaves a sound load.    *)
LEMMA HandledIs ==
  ASSUME NEW fs, NEW w, NEW x, GoodLoad(fs, w, x), NEW f \in MapFiles, f \in x.todo, NEW text,
         x.states[f] = fs[f].stat => text = fs[f].text
  PROVE  /\ GoodLoad(fs, w, Handled(x, f, text))
         /\ Handled(x, f, text).entries = x.entries /\ Handled(x, f, text).states = x.states
         /\ Handled(x, f, text).at = x.at
<1> DEFINE u == [x EXCEPT !.todo = @ \ {f}]
           tags == [x.tags EXCEPT ![f] = text]
           y == [u EXCEPT !.tags = tags]
<1>1. GoodLoad(fs, w, u)
  BY SkippedIs
<1>2. u.entries = x.entries /\ u.states = x.states /\ u.tags = x.tags /\ u.at = x.at
  <2>1. x = [at |-> x.at, loaded |-> x.loaded, entries |-> x.entries, states |-> x.states,
            todo |-> x.todo, tags |-> x.tags, dirty |-> x.dirty]
    BY DEF GoodLoad, IsLoad
  <2> QED BY <2>1
<1>3. Handled(x, f, text) = y
  <2>1. Handled(x, f, text) = [u EXCEPT !.tags[f] = text]
    BY DEF Handled
  <2>2. u.tags = x.tags
    BY <1>2
  <2> HIDE DEF u
  <2> QED BY <2>1, <2>2
<1>4. /\ tags = [g \in MapFiles |-> tags[g]]
      /\ \A g \in MapFiles : tags[g] = IF g = f THEN text ELSE x.tags[g]
  BY DEF GoodLoad, IsLoad
<1> HIDE DEF u, tags
<1>5. u = [at |-> u.at, loaded |-> u.loaded, entries |-> u.entries, states |-> u.states,
          todo |-> u.todo, tags |-> u.tags, dirty |-> u.dirty]
  BY <1>1 DEF GoodLoad, IsLoad
<1>6. y = [at |-> u.at, loaded |-> u.loaded, entries |-> u.entries, states |-> u.states,
          todo |-> u.todo, tags |-> tags, dirty |-> u.dirty]
  BY <1>5
<1>7. /\ y.at = u.at /\ y.loaded = u.loaded /\ y.entries = u.entries /\ y.states = u.states
      /\ y.todo = u.todo /\ y.tags = tags /\ y.dirty = u.dirty
  BY <1>6
<1> HIDE DEF y
<1>8. \A g \in MapFiles : GoodTag(fs, w, y, g)
  <2>1. x.states[f] # 0
    BY DEF GoodLoad, GoodTag
  <2>2. \A g \in MapFiles : GoodTag(fs, w, u, g)
    BY <1>1 DEF GoodLoad
  <2> QED BY <1>2, <1>4, <1>7, <2>1, <2>2 DEF GoodTag
<1>9. IsLoad(y)
  BY <1>1, <1>4, <1>6, <1>7 DEF GoodLoad, IsLoad
<1>10. \A g \in MapFiles : GoodEntry(fs, w, g, y.entries[g])
  BY <1>1, <1>7 DEF GoodLoad
<1> QED BY <1>2, <1>3, <1>7, <1>8, <1>9, <1>10 DEF GoodLoad

(* So does one whose entry is made anew from the file as it is.             *)
LEMMA RewrittenIs ==
  ASSUME LoadsInv, NEW x, GoodLoad(files, sourceWrites, x), NEW f \in MapFiles, f \in x.todo
  PROVE  LET y == Rewritten(x, f, files[f].text)
         IN  GoodLoad(files, sourceWrites, y) /\ y.at = x.at
<1> DEFINE text == files[f].text
           h == Handled(x, f, text)
           e == [text |-> text, stat |-> x.states[f]]
           entries == [h.entries EXCEPT ![f] = e]
           u == [h EXCEPT !.entries = entries]
           b == TRUE
           y == [u EXCEPT !.dirty = b]
<1>1. GoodLoad(files, sourceWrites, h) /\ h.states = x.states /\ h.at = x.at
  BY HandledIs
<1>2. e \in Entries /\ GoodEntry(files, sourceWrites, f, e)
  <2>1. files[f] \in Entries /\ x.states[f] \in 0 .. MaxWrites /\ x.states[f] <= sourceWrites
    BY DEF LoadsInv, GoodLoad, IsLoad, GoodTag
  <2>2. e.stat = x.states[f] /\ e.text = text
    OBVIOUS
  <2>3. e \in Entries
    BY <2>1 DEF Entries
  <2> QED BY <2>1, <2>2, <2>3 DEF GoodEntry
<1>3. Rewritten(x, f, text) = y
  BY DEF Rewritten
<1> HIDE DEF h, e, b
<1>4. /\ entries \in [MapFiles -> Entries]
      /\ \A g \in MapFiles : entries[g] = IF g = f THEN e ELSE h.entries[g]
  BY <1>1, <1>2 DEF GoodLoad, IsLoad
<1> HIDE DEF entries
<1>5. h = [at |-> h.at, loaded |-> h.loaded, entries |-> h.entries, states |-> h.states,
          todo |-> h.todo, tags |-> h.tags, dirty |-> h.dirty]
  BY <1>1 DEF GoodLoad, IsLoad
<1>6. u = [at |-> h.at, loaded |-> h.loaded, entries |-> entries, states |-> h.states,
          todo |-> h.todo, tags |-> h.tags, dirty |-> h.dirty]
  BY <1>5
<1> HIDE DEF u
<1>7. y = [at |-> h.at, loaded |-> h.loaded, entries |-> entries, states |-> h.states,
          todo |-> h.todo, tags |-> h.tags, dirty |-> b]
  BY <1>6
<1>8. /\ y.at = h.at /\ y.loaded = h.loaded /\ y.entries = entries /\ y.states = h.states
      /\ y.todo = h.todo /\ y.tags = h.tags /\ y.dirty = b
  <2> HIDE DEF y
  <2> QED BY <1>7
<1> HIDE DEF y
<1>9. GoodLoad(files, sourceWrites, y)
  BY <1>1, <1>2, <1>4, <1>7, <1>8 DEF GoodLoad, IsLoad, GoodTag
<1> QED BY <1>1, <1>3, <1>8, <1>9

-----------------------------------------------------------------------------
(* A loader goes on while the files stay as they are.                       *)
LEMMA LoadChanges ==
  ASSUME LoadsInv, UNCHANGED <<files, sourceWrites>>, NEW l \in Loaders, NEW new, LoadGoes(l, new),
         GoodLoad(files, sourceWrites, new), Untagged(new),
         GoodCache(files, sourceWrites, tagCache')
  PROVE  LoadsInv'
<1>1. /\ DOMAIN loader' = Loaders
      /\ \A m \in Loaders : loader'[m] = IF m = l THEN new ELSE loader[m]
  BY DEF LoadGoes, LoadsInv
<1>2. \A m \in Loaders : GoodLoad(files, sourceWrites, loader'[m]) /\ Untagged(loader'[m])
  BY <1>1 DEF LoadsInv
<1>3. \A m \in Loaders : GoodLoad(files', sourceWrites', loader'[m]) /\ Untagged(loader'[m])
  BY <1>2
<1>4. GoodCache(files', sourceWrites', tagCache')
  OBVIOUS
<1>5. /\ files' \in [MapFiles -> Entries] /\ sourceWrites' \in 0 .. MaxWrites
      /\ \A f \in MapFiles : GoodFile(sourceWrites', files'[f])
  BY DEF LoadsInv
<1> HIDE DEF LoadsInv, GoodCache, GoodLoad, Untagged
<1> QED BY <1>1, <1>3, <1>4, <1>5 DEF LoadsInv, GoodCache, GoodLoad, Untagged, GoodFile, GoodEntry, GoodTag, IsLoad

(* A load that begins is sound.                                             *)
LEMMA BeginStep == ASSUME LoadsInv, NEW l \in Loaders, BeginLoad(l) PROVE LoadsInv'
<1> DEFINE load == [NoLoad EXCEPT !.at = "begun"]
           new == IF l = "map" THEN WithCache(load) ELSE Listed(load)
<1>1. GoodLoad(files, sourceWrites, NoLoad) /\ \A f \in MapFiles : NoLoad.tags[f] = "none"
  <2>1. sourceWrites \in Nat /\ \A f \in MapFiles : GoodFile(sourceWrites, files[f])
    BY AbsentIs DEF LoadsInv
  <2> QED BY <2>1, NoLoadIs DEF NoLoad
<1>2. GoodLoad(files, sourceWrites, load) /\ load.tags = NoLoad.tags
  <2> DEFINE a == "begun"
  <2>1. a \in {"idle", "begun", "tagging", "saving", "tagged"}
    OBVIOUS
  <2> HIDE DEF a
  <2> DEFINE y == [NoLoad EXCEPT !.at = a]
  <2>2. GoodLoad(files, sourceWrites, y)
    BY <1>1, <2>1, WithAt
  <2>3. y.tags = NoLoad.tags
    BY <1>1 DEF GoodLoad, IsLoad
  <2> QED BY <2>2, <2>3 DEF a
<1>3. /\ LoadGoes(l, new) /\ UNCHANGED <<files, tagCache, sourceWrites>>
  BY DEF BeginLoad
<1> HIDE DEF load
<1>4. GoodLoad(files, sourceWrites, new) /\ new.tags = load.tags
  BY <1>1, <1>2, WithCacheIs, ListedIs
<1>5. GoodCache(files, sourceWrites, tagCache') /\ Untagged(new)
  BY <1>1, <1>2, <1>3, <1>4 DEF LoadsInv, Untagged
<1> HIDE DEF new
<1> QED BY <1>3, <1>4, <1>5, LoadChanges

(* A load that goes on to its next file stays sound.                        *)
LEMMA GoOnStep == ASSUME LoadsInv, NEW l \in Loaders, GoOn(l) PROVE LoadsInv'
<1> DEFINE load == [loader[l] EXCEPT !.at = "tagging"]
           new == IF l = "map" THEN Listed(load) ELSE WithCache(load)
<1>1. GoodLoad(files, sourceWrites, loader[l]) /\ \A f \in MapFiles : loader[l].tags[f] = "none"
  BY DEF LoadsInv, Untagged, GoOn, LoadOf
<1>2. GoodLoad(files, sourceWrites, load) /\ load.tags = loader[l].tags
  <2> DEFINE a == "tagging"
  <2>1. a \in {"idle", "begun", "tagging", "saving", "tagged"}
    OBVIOUS
  <2> HIDE DEF a
  <2> DEFINE y == [loader[l] EXCEPT !.at = a]
  <2>2. GoodLoad(files, sourceWrites, y)
    BY <1>1, <2>1, WithAt
  <2>3. y.tags = loader[l].tags
    BY <1>1 DEF GoodLoad, IsLoad
  <2> QED BY <2>2, <2>3 DEF a
<1>3. /\ LoadGoes(l, new) /\ UNCHANGED <<files, tagCache, sourceWrites>>
  BY DEF GoOn, LoadOf
<1> HIDE DEF load
<1>4. GoodLoad(files, sourceWrites, new) /\ new.tags = load.tags
  BY <1>1, <1>2, WithCacheIs, ListedIs
<1>5. GoodCache(files, sourceWrites, tagCache') /\ Untagged(new)
  BY <1>1, <1>2, <1>3, <1>4 DEF LoadsInv, Untagged
<1> HIDE DEF new
<1> QED BY <1>3, <1>4, <1>5, LoadChanges

(* A file that is tagged leaves a sound load, whether or not its entry was  *)
(* of this stat.                                                            *)
LEMMA TagStep ==
  ASSUME LoadsInv, NEW l \in Loaders, NEW f \in MapFiles, TagFile(l, f) PROVE LoadsInv'
<1> DEFINE x == loader[l]
<1>1. /\ x.at = "tagging" /\ f \in x.todo /\ UNCHANGED <<files, tagCache, sourceWrites>>
      /\ TakeByStat(l, f) \/ TakeByText(l, f) \/ Vanished(l, f)
  BY DEF TagFile, LoadOf
<1>2. GoodLoad(files, sourceWrites, x)
  BY DEF LoadsInv
<1> DEFINE byStat == Handled(x, f, x.entries[f].text)
           byText == Rewritten(x, f, files[f].text)
           gone == [x EXCEPT !.todo = @ \ {f}]
<1>3. \/ LoadGoes(l, byStat) /\ x.entries[f].stat = x.states[f]
      \/ LoadGoes(l, byText)
      \/ LoadGoes(l, gone)
  BY <1>1 DEF TakeByStat, TakeByText, Vanished, SameStat, SameText, LoadOf
<1> HIDE DEF x
<1>4. ASSUME x.entries[f].stat = x.states[f]
      PROVE  GoodLoad(files, sourceWrites, byStat) /\ byStat.at = "tagging"
  <2>1. x.states[f] # 0
    BY <1>1, <1>2 DEF GoodLoad, GoodTag
  <2>2. x.states[f] = files[f].stat => x.entries[f].text = files[f].text
    <3>1. x.states[f] = files[f].stat => files[f] # Absent
      BY <2>1, AbsentIs
    <3> QED BY <1>2, <1>4, <3>1 DEF GoodLoad, GoodEntry
  <2> QED BY <1>1, <1>2, <2>2, HandledIs
<1>5. GoodLoad(files, sourceWrites, byText) /\ byText.at = "tagging"
  BY <1>1, <1>2, RewrittenIs
<1>6. GoodLoad(files, sourceWrites, gone) /\ gone.at = "tagging"
  BY <1>1, <1>2, SkippedIs
<1> HIDE DEF byStat, byText, gone
<1>7. PICK new : LoadGoes(l, new) /\ GoodLoad(files, sourceWrites, new) /\ new.at = "tagging"
  BY <1>3, <1>4, <1>5, <1>6
<1>8. GoodCache(files, sourceWrites, tagCache') /\ Untagged(new)
  BY <1>1, <1>7 DEF LoadsInv, Untagged
<1> QED BY <1>1, <1>7, <1>8, LoadChanges

(* What is saved is sound, for every reader of the cache.                   *)
LEMMA SaveStep ==
  ASSUME LoadsInv, NEW l \in Loaders, BeginSave(l) \/ EndSave(l) \/ SaveNothing(l)
  PROVE  LoadsInv'
<1>1. UNCHANGED <<files, sourceWrites>> /\ GoodLoad(files, sourceWrites, loader[l])
  BY DEF LoadsInv, BeginSave, EndSave, SaveNothing
<1>2. \E a \in {"saving", "tagged"} : LoadGoes(l, [loader[l] EXCEPT !.at = a])
  BY DEF BeginSave, EndSave, SaveNothing, LoadOf
<1>3. PICK new : LoadGoes(l, new) /\ GoodLoad(files, sourceWrites, new) /\ new.at # "begun"
  BY <1>1, <1>2, WithAt
<1>4. \/ tagCache' = tagCache
      \/ tagCache' = [torn |-> TRUE, entries |-> NoEntries]
      \/ tagCache' = [torn |-> FALSE, entries |-> loader[l].entries]
  BY DEF BeginSave, EndSave, SaveNothing, LoadOf
<1>5. tagCache' = tagCache \/ tagCache'.entries = NoEntries \/ tagCache'.entries = loader[l].entries
  BY <1>4
<1>6. GoodCache(files, sourceWrites, tagCache')
  <2>1. sourceWrites \in Nat /\ \A f \in MapFiles : GoodFile(sourceWrites, files[f])
    BY AbsentIs DEF LoadsInv
  <2>2. /\ NoEntries \in [MapFiles -> Entries]
        /\ \A f \in MapFiles : GoodEntry(files, sourceWrites, f, NoEntries[f])
    BY <2>1, NoEntriesIs
  <2> QED BY <1>1, <1>5, <2>2 DEF GoodCache, GoodLoad, IsLoad, LoadsInv
<1> QED BY <1>1, <1>3, <1>6, LoadChanges DEF Untagged

(* A write of a file gives it a stat that nothing else has. *)
LEMMA WriteStep == ASSUME LoadsInv, NEW f \in MapFiles, WriteSource(f) PROVE LoadsInv'
<1> DEFINE w == sourceWrites
<1>1. /\ w \in Nat /\ w < MaxWrites /\ sourceWrites' = w + 1 /\ MaxWrites \in Nat
      /\ UNCHANGED <<tagCache, loader>>
  BY AbsentIs DEF WriteSource, LoadsInv
<1>2. PICK e : /\ files' = [files EXCEPT ![f] = e]
               /\ e = Absent \/ \E t \in Texts : e = [text |-> t, stat |-> w + 1]
  BY DEF WriteSource
<1>3. e \in Entries /\ (e = Absent \/ e.stat = w + 1)
  BY <1>1, <1>2, AbsentIs DEF Entries
<1>4. /\ files' \in [MapFiles -> Entries]
      /\ \A g \in MapFiles : files'[g] = IF g = f THEN e ELSE files[g]
  BY <1>2, <1>3 DEF LoadsInv
<1>5. \A g \in MapFiles : GoodFile(w + 1, files'[g])
  <2>1. \A g \in MapFiles : GoodFile(w, files[g]) /\ files[g].stat \in Nat
    BY <1>1 DEF LoadsInv, Entries
  <2>2. GoodFile(w + 1, e)
    BY <1>1, <1>3, AbsentIs DEF GoodFile
  <2>3. \A g \in MapFiles : GoodFile(w + 1, files[g])
    BY <1>1, <2>1 DEF GoodFile
  <2> QED BY <1>4, <2>2, <2>3
<1>6. ASSUME NEW g \in MapFiles, NEW n \in Nat, n <= w
      PROVE  n <= w + 1 /\ (g = f /\ n = files'[g].stat => files'[g] = Absent)
  BY <1>1, <1>3, <1>4, <1>6
<1>7. ASSUME NEW g \in MapFiles, NEW c \in Entries, GoodEntry(files, w, g, c)
      PROVE  GoodEntry(files', w + 1, g, c)
  <2>1. c.stat \in Nat
    BY <1>1 DEF Entries
  <2> QED BY <1>4, <1>6, <1>7, <2>1 DEF GoodEntry
<1>8. ASSUME NEW x, GoodLoad(files, w, x) PROVE GoodLoad(files', w + 1, x)
  <2>1. ASSUME NEW g \in MapFiles PROVE GoodTag(files', w + 1, x, g)
    <3>1. x.states[g] \in Nat
      BY <1>1, <1>8 DEF GoodLoad, IsLoad
    <3>2. GoodTag(files, w, x, g)
      BY <1>8 DEF GoodLoad
    <3> QED BY <1>4, <1>6, <3>1, <3>2, AbsentIs DEF GoodTag
  <2>2. \A g \in MapFiles : x.entries[g] \in Entries
    BY <1>8 DEF GoodLoad, IsLoad
  <2> QED BY <1>7, <1>8, <2>1, <2>2 DEF GoodLoad
<1>9. GoodCache(files', w + 1, tagCache)
  BY <1>7 DEF LoadsInv, GoodCache
<1>10. \A l \in Loaders : GoodLoad(files', w + 1, loader[l]) /\ Untagged(loader[l])
  BY <1>8 DEF LoadsInv
<1>11. sourceWrites' \in 0 .. MaxWrites /\ DOMAIN loader' = Loaders
  BY <1>1 DEF LoadsInv
<1>12. GoodCache(files', sourceWrites', tagCache')
  BY <1>1, <1>9
<1>13. \A l \in Loaders : GoodLoad(files', sourceWrites', loader'[l]) /\ Untagged(loader'[l])
  BY <1>1, <1>10
<1>14. \A g \in MapFiles : GoodFile(sourceWrites', files'[g])
  BY <1>1, <1>5
<1>15. files' \in [MapFiles -> Entries]
  BY <1>4
<1> HIDE DEF LoadsInv, GoodCache, GoodLoad, Untagged
<1> QED BY <1>11, <1>12, <1>13, <1>14, <1>15
        DEF LoadsInv, GoodCache, GoodLoad, Untagged, GoodFile, GoodEntry, GoodTag, IsLoad

-----------------------------------------------------------------------------
(* The lines of a map are as many as fit, and each is of another file.      *)
LEMMA NothingIsNarrow == WidthOf(<<>>) = 0
<1> DEFINE f == [i \in DOMAIN << >> |-> 1 + Cardinality(<<>>[i].symbols)]
<1>1. DOMAIN << >> = 1 .. 0 /\ Len(<<>>) = 0
  OBVIOUS
<1>2. f \in [1 .. 0 -> Nat]
  BY <1>1
<1>3. WidthOf(<<>>) = SumTo(f, 0)
  BY <1>1 DEF WidthOf
<1> HIDE DEF f
<1> QED BY <1>2, <1>3, SumToRecursion

(* A rendered map is within its room and has each file once.                *)
LEMMA RenderedFits ==
  ASSUME NEW tags, NEW ranking \in SUBSET MapFiles, NEW ranked \in SetToSeqs(ranking)
  PROVE  LET drawn == Rendered(tags, ranked)
         IN  /\ WidthOf(drawn) <= MapRoom
             /\ \A i, j \in DOMAIN drawn : drawn[i].file = drawn[j].file => i = j
<1> DEFINE N == Cardinality(ranking)
           S == {Line(tags, g) : g \in ranking}
           lines == [i \in DOMAIN ranked |-> Line(tags, ranked[i])]
           fits == {n \in 0 .. Len(lines) : WidthOf(SubSeq(lines, 1, n)) <= MapRoom}
           drawn == SubSeq(lines, 1, Max(fits))
<1>1. N \in Nat
  BY RepoMapAssumption, FS_Subset, FS_CardinalityType
<1>2. /\ ranked \in [1 .. N -> ranking]
      /\ \A i, j \in 1 .. N : i # j => ranked[i] # ranked[j]
  BY DEF SetToSeqs
<1>3. \A i \in 1 .. N : ranked[i] \in ranking
  BY <1>2
<1>4. \A g : Line(tags, g).file = g
  BY DEF Line
<1>5. /\ lines \in [1 .. N -> S] /\ \A i \in 1 .. N : lines[i].file = ranked[i]
  BY <1>2, <1>3, <1>4
<1> HIDE DEF S, N
<1>6. lines \in Seq(S) /\ Len(lines) = N
  <2> HIDE DEF lines
  <2> QED BY <1>1, <1>5
<1> HIDE DEF lines
<1>7. fits \in SUBSET Nat /\ \A n \in fits : n <= N
  BY <1>1, <1>6
<1>8. 0 \in fits
  <2>1. SubSeq(lines, 1, 0) = <<>>
    BY <1>6
  <2>2. 0 <= MapRoom
    BY RepoMapAssumption
  <2>3. WidthOf(SubSeq(lines, 1, 0)) = 0
    BY <2>1, NothingIsNarrow
  <2>4. WidthOf(SubSeq(lines, 1, 0)) <= MapRoom
    BY <2>2, <2>3
  <2>5. 0 \in 0 .. Len(lines)
    BY <1>1, <1>6
  <2> QED BY <2>4, <2>5, Zenon
<1>9. Max(fits) \in fits
  <2> HIDE DEF fits
  <2>1. \E x \in fits : \A y \in fits : x >= y
    BY <1>1, <1>7, <1>8, GreatestMember
  <2> QED BY <2>1 DEF Max
<1>10. Max(fits) \in 0 .. Len(lines) /\ WidthOf(drawn) <= MapRoom
  BY <1>9
<1> HIDE DEF fits
<1>11. DOMAIN drawn = 1 .. Max(fits) /\ \A i \in 1 .. Max(fits) : i \in 1 .. N /\ drawn[i] = lines[i]
  <2> DEFINE m == Max(fits)
  <2>1. m \in 0 .. Len(lines)
    BY <1>10
  <2> HIDE DEF m
  <2>2. /\ SubSeq(lines, 1, m) \in Seq(S) /\ Len(SubSeq(lines, 1, m)) = m
        /\ \A i \in 1 .. m : SubSeq(lines, 1, m)[i] = lines[i]
    BY <1>6, <2>1, PrefixIs
  <2>3. DOMAIN SubSeq(lines, 1, m) = 1 .. m
    BY <2>2
  <2>4. \A i \in 1 .. m : i \in 1 .. N
    BY <1>1, <1>6, <2>1
  <2> QED BY <2>2, <2>3, <2>4 DEF m
<1> HIDE DEF drawn
<1>12. \A i, j \in DOMAIN drawn : drawn[i].file = drawn[j].file => i = j
  BY <1>2, <1>5, <1>11
<1> QED BY <1>10, <1>12 DEF Rendered, drawn, fits, lines

(* No file refers to itself.                                                *)
LEMMA NoSelfReference == \A tags : \A e \in References(tags) : e[1] # e[2]
<1> SUFFICES ASSUME NEW tags, NEW e \in References(tags) PROVE e[1] # e[2]
  OBVIOUS
<1>1. \E s : e[2] \in Definers(tags, e[1], s)
  BY DEF References
<1> QED BY <1>1 DEF Definers

(* Where there is no map, it fits.                                          *)
LEMMA NoMapFits ==
  ASSUME map' = NoMap
  PROVE  MapFits'
<1>1. map'.lines = <<>> /\ map'.edges = {} /\ DOMAIN << >> = {}
  BY DEF NoMap
<1>2. 0 <= MapRoom
  BY RepoMapAssumption
<1> QED BY <1>1, <1>2, NothingIsNarrow DEF MapFits

(* Every step leaves a map that fits.                                       *)
LEMMA MapFitsStep ==
  ASSUME MapFits, [RepoMapNext]_mapVars
  PROVE  MapFits'
<1>1. ASSUME map' = map PROVE MapFits'
  BY <1>1 DEF MapFits, WidthOf
<1>2. CASE Render
  <2> DEFINE tags == LoadOf("map").tags
             ranking == {f \in Tagged(tags) : Defines(tags, f) # {}}
  <2>1. ranking \in SUBSET MapFiles
    BY DEF Tagged
  <2>2. PICK ranked \in SetToSeqs(ranking) :
          \E query \in Queries, recent \in SUBSET MapFiles :
           map' = [lines |-> Rendered(tags, ranked),
                   seeds |-> Seeds(tags, query, recent),
                   edges |-> References(tags)]
    BY <1>2 DEF Render
  <2> HIDE DEF tags, ranking
  <2>3. map'.lines = Rendered(tags, ranked) /\ map'.edges = References(tags)
    BY <2>2
  <2>4. LET drawn == Rendered(tags, ranked)
        IN  /\ WidthOf(drawn) <= MapRoom
            /\ \A i, j \in DOMAIN drawn : drawn[i].file = drawn[j].file => i = j
    BY <2>1, RenderedFits
  <2>5. \A e \in References(tags) : e[1] # e[2]
    BY NoSelfReference
  <2>6. /\ WidthOf(map'.lines) <= MapRoom
        /\ \A i, j \in DOMAIN map'.lines : map'.lines[i].file = map'.lines[j].file => i = j
        /\ \A e \in map'.edges : e[1] # e[2]
    BY <2>3, <2>4, <2>5
  <2> QED BY <2>6 DEF MapFits, WidthOf
<1>3. CASE Restart
  BY <1>3, NoMapFits DEF Restart
<1>4. ASSUME NEW l \in Loaders, BeginLoad(l) PROVE MapFits'
  <2>1. map' = NoMap \/ map' = map
    BY <1>4 DEF BeginLoad
  <2> QED BY <1>1, <2>1, NoMapFits
<1>5. ASSUME NEW l \in Loaders,
             \/ GoOn(l) \/ BeginSave(l) \/ EndSave(l) \/ SaveNothing(l)
             \/ \E f \in MapFiles : TagFile(l, f)
      PROVE  MapFits'
  BY <1>1, <1>5 DEF GoOn, BeginSave, EndSave, SaveNothing, TagFile
<1>6. ASSUME NEW f \in MapFiles, WriteSource(f) PROVE MapFits'
  BY <1>1, <1>6 DEF WriteSource
<1>7. CASE Chunked
  BY <1>1, <1>7 DEF Chunked
<1>8. CASE UNCHANGED mapVars
  BY <1>1, <1>8 DEF mapVars
<1> QED BY <1>2, <1>3, <1>4, <1>5, <1>6, <1>7, <1>8 DEF RepoMapNext, LoadStep

(* Every step of the files, the cache and the loaders keeps them sound.     *)
LEMMA LoadsStep ==
  ASSUME LoadsInv, [RepoMapNext]_mapVars
  PROVE  LoadsInv'
<1>1. GoodLoad(files, sourceWrites, NoLoad) /\ Untagged(NoLoad)
  <2>1. sourceWrites \in Nat /\ \A f \in MapFiles : GoodFile(sourceWrites, files[f])
    BY AbsentIs DEF LoadsInv
  <2>2. NoLoad.at = "idle"
    BY DEF NoLoad
  <2> QED BY <2>1, <2>2, NoLoadIs DEF Untagged
<1>2. CASE Render \/ Chunked
  <2>1. PICK l \in Loaders : LoadGoes(l, NoLoad)
    BY <1>2 DEF Render, Chunked, Loaders
  <2>2. UNCHANGED <<files, sourceWrites, tagCache>>
    BY <1>2 DEF Render, Chunked
  <2>3. GoodCache(files, sourceWrites, tagCache')
    BY <2>2 DEF LoadsInv
  <2> QED BY <1>1, <2>1, <2>2, <2>3, LoadChanges
<1>3. CASE Restart
  <2>1. /\ UNCHANGED <<files, sourceWrites, tagCache>>
        /\ DOMAIN loader' = Loaders /\ \A l \in Loaders : loader'[l] = NoLoad
    BY <1>3 DEF Restart
  <2>2. GoodCache(files', sourceWrites', tagCache')
    BY <2>1 DEF LoadsInv
  <2>3. \A l \in Loaders : GoodLoad(files', sourceWrites', loader'[l]) /\ Untagged(loader'[l])
    BY <1>1, <2>1
  <2>4. /\ files' \in [MapFiles -> Entries] /\ sourceWrites' \in 0 .. MaxWrites
        /\ \A f \in MapFiles : GoodFile(sourceWrites', files'[f])
    BY <2>1 DEF LoadsInv
  <2> HIDE DEF LoadsInv, GoodCache, GoodLoad, Untagged
  <2> QED BY <2>1, <2>2, <2>3, <2>4
          DEF LoadsInv, GoodCache, GoodLoad, Untagged, GoodFile, GoodEntry, GoodTag, IsLoad
<1>4. ASSUME NEW l \in Loaders, LoadStep(l) PROVE LoadsInv'
  BY <1>4, BeginStep, GoOnStep, SaveStep, TagStep DEF LoadStep
<1>5. CASE UNCHANGED mapVars
  BY <1>5 DEF mapVars, LoadsInv, GoodCache, GoodLoad, Untagged, GoodFile, GoodEntry, GoodTag, IsLoad
<1> QED BY <1>2, <1>3, <1>4, <1>5, WriteStep DEF RepoMapNext

(* They are sound at the start.                                             *)
LEMMA LoadsInit == RepoMapInit => LoadsInv /\ MapFits
<1> SUFFICES ASSUME RepoMapInit PROVE LoadsInv /\ MapFits
  OBVIOUS
<1>1. /\ files = NoEntries /\ tagCache.entries = NoEntries /\ sourceWrites = 0 /\ map = NoMap
      /\ DOMAIN loader = Loaders /\ \A l \in Loaders : loader[l] = NoLoad
  BY DEF RepoMapInit
<1>2. \A f \in MapFiles : GoodFile(sourceWrites, files[f])
  BY <1>1, AbsentIs DEF NoEntries, GoodFile
<1>3. /\ NoEntries \in [MapFiles -> Entries] /\ sourceWrites \in Nat /\ sourceWrites \in 0 .. MaxWrites
      /\ \A f \in MapFiles : GoodEntry(files, sourceWrites, f, NoEntries[f])
  BY <1>1, <1>2, NoEntriesIs, AbsentIs
<1>4. \A l \in Loaders : GoodLoad(files, sourceWrites, loader[l]) /\ Untagged(loader[l])
  <2>1. NoLoad.at = "idle"
    BY DEF NoLoad
  <2> QED BY <1>1, <1>2, <1>3, <2>1, NoLoadIs DEF Untagged
<1>5. MapFits
  <2>1. map.lines = <<>> /\ map.edges = {} /\ DOMAIN << >> = {} /\ 0 <= MapRoom
    BY <1>1, RepoMapAssumption DEF NoMap
  <2> QED BY <2>1, NothingIsNarrow DEF MapFits
<1> QED BY <1>1, <1>2, <1>3, <1>4, <1>5 DEF LoadsInv, GoodCache

(* Sound loads have the tags of the files as they are.                      *)
LEMMA LoadsAreSound == LoadsInv => EntriesAreCurrent /\ TagsAreCurrent
<1> SUFFICES ASSUME LoadsInv PROVE EntriesAreCurrent /\ TagsAreCurrent
  OBVIOUS
<1>1. EntriesAreCurrent
  <2>1. \A f \in MapFiles, l \in Loaders : GoodEntry(files, sourceWrites, f, loader[l].entries[f])
    BY DEF LoadsInv, GoodLoad
  <2>2. \A f \in MapFiles : GoodEntry(files, sourceWrites, f, tagCache.entries[f])
    BY DEF LoadsInv, GoodCache
  <2> QED BY <2>1, <2>2 DEF EntriesAreCurrent, GoodEntry, LoadOf, Present
<1>2. TagsAreCurrent
  <2>1. \A f \in MapFiles, l \in Loaders : GoodTag(files, sourceWrites, loader[l], f)
    BY DEF LoadsInv, GoodLoad
  <2> QED BY <2>1 DEF TagsAreCurrent, GoodTag, LoadOf, Tagged
<1> QED BY <1>1, <1>2

(* The cache file, which a process that dies may leave torn. *)
CacheTyped == tagCache \in [torn : BOOLEAN, entries : [MapFiles -> Entries]]

LEMMA CacheIs ==
  ASSUME NEW e \in [MapFiles -> Entries]
  PROVE  /\ [torn |-> TRUE, entries |-> e] \in [torn : BOOLEAN, entries : [MapFiles -> Entries]]
         /\ [torn |-> FALSE, entries |-> e] \in [torn : BOOLEAN, entries : [MapFiles -> Entries]]
<1> QED OBVIOUS

LEMMA NoEntriesTyped == NoEntries \in [MapFiles -> Entries]
<1> QED BY AbsentIs DEF NoEntries

LEMMA CacheInit == RepoMapInit => CacheTyped
<1> QED BY NoEntriesTyped, CacheIs DEF RepoMapInit, CacheTyped

LEMMA CacheStep == ASSUME LoadsInv, CacheTyped, [RepoMapNext]_mapVars PROVE CacheTyped'
<1>1. \/ tagCache' = tagCache
      \/ tagCache' = [torn |-> TRUE, entries |-> NoEntries]
      \/ \E l \in Loaders : tagCache' = [torn |-> FALSE, entries |-> loader[l].entries]
  <2>1. ASSUME NEW l \in Loaders, LoadStep(l)
        PROVE  \/ tagCache' = tagCache
               \/ tagCache' = [torn |-> TRUE, entries |-> NoEntries]
               \/ tagCache' = [torn |-> FALSE, entries |-> loader[l].entries]
    BY <2>1 DEF LoadStep, BeginLoad, GoOn, BeginSave, EndSave, SaveNothing, TagFile, LoadOf
  <2> QED BY <2>1 DEF RepoMapNext, mapVars, Render, Chunked, Restart, WriteSource
<1>2. \A l \in Loaders : loader[l].entries \in [MapFiles -> Entries]
  BY DEF LoadsInv, GoodLoad, IsLoad
<1> QED BY <1>1, <1>2, NoEntriesTyped, CacheIs DEF CacheTyped

LEMMA RepoMapTypes == ASSUME LoadsInv, CacheTyped PROVE RepoMapTypeOK
<1>1. \A l \in Loaders : IsLoad(loader[l])
  BY DEF LoadsInv, GoodLoad
<1> QED BY <1>1 DEF LoadsInv, CacheTyped, RepoMapTypeOK, IsLoad, LoadOf

(* A load gives no tags of a text that was gone before it began, and a map  *)
(* has room for what it shows.                                              *)
THEOREM TagsAreOfTheFiles == RepoMapSpec => []TagsAreSound
<1>1. LoadsInv /\ MapFits => TagsAreSound
  BY LoadsAreSound DEF TagsAreSound
<1> QED BY <1>1, LoadsInit, LoadsStep, MapFitsStep, PTL DEF RepoMapSpec

-----------------------------------------------------------------------------
(* The seven parts in one specification: each of its steps is one of each    *)
(* part's, or leaves it alone, so what is proved of the parts holds of it.  *)

(* A step of the workspace is one of each part's, or leaves the part alone. *)
LEMMA StepsOfParts ==
  ASSUME [Next]_vars
  PROVE  /\ [ToolGitNext]_gitVars /\ [ToolGatesNext]_gateVars
         /\ [SessionStateNext]_sessionVars /\ [KnowledgeNext]_knowledgeVars
         /\ [DreamNext]_dreamVars /\ [CodeIndexNext]_indexVars /\ [RepoMapNext]_mapVars
<1>1. CASE GitMoves
  BY <1>1, Zenon DEF GitMoves
<1>2. CASE GatesMove
  BY <1>2, Zenon DEF GatesMove
<1>3. CASE SessionMoves
  BY <1>3, Zenon DEF SessionMoves
<1>4. CASE KnowledgeMoves
  BY <1>4, Zenon DEF KnowledgeMoves
<1>5. CASE DreamMoves
  BY <1>5, Zenon DEF DreamMoves
<1>6. CASE IndexMoves
  BY <1>6, Zenon DEF IndexMoves
<1>7. CASE MapMoves
  BY <1>7, Zenon DEF MapMoves
<1>8. CASE UNCHANGED vars
  BY <1>8 DEF vars
<1> QED BY <1>1, <1>2, <1>3, <1>4, <1>5, <1>6, <1>7, <1>8, Zenon DEF Next

(* So that every part behaves as its own specification says. *)
LEMMA WorkspaceIsItsParts ==
  Spec => /\ ToolGitSpec /\ ToolGatesSpec /\ SessionStateSpec /\ KnowledgeSpec
          /\ DreamSpec /\ CodeIndexSpec /\ RepoMapSpec
<1>1. Init => /\ ToolGitInit /\ ToolGatesInit /\ SessionStateInit /\ KnowledgeInit
              /\ DreamInit /\ CodeIndexInit /\ RepoMapInit
  BY DEF Init
<1> QED
  BY <1>1, StepsOfParts, PTL
  DEF Spec, ToolGitSpec, ToolGatesSpec, SessionStateSpec, KnowledgeSpec, DreamSpec,
      CodeIndexSpec, RepoMapSpec

(* The variables of all that turns share in a workspace keep their types    *)
(* and bounds, for every value of the constants.                            *)
THEOREM WorkspaceTypesCorrect == Spec => []TypesOK
<1>1. /\ GitInv => ToolGitTypeOK
      /\ GatesInv => ToolGatesTypeOK
      /\ SessionTypes => SessionStateTypeOK
      /\ KnowledgeInv /\ VersionInv => KnowledgeTypeOK
      /\ DreamInv => DreamTypeOK
      /\ IndexTypes => CodeIndexTypeOK
      /\ LoadsInv /\ CacheTyped => RepoMapTypeOK
  BY GitTypes, ToolGatesTypes, SessionTypesCorrect, KnowledgeTypes, IndexTypesCorrect, RepoMapTypes
     DEF DreamInv, KnowledgeInv
<1>2. SessionStateSpec => []SessionTypes
  BY SessionInitTypes, SessionTypesStep, PTL DEF SessionStateSpec
<1>3. KnowledgeSpec => [](KnowledgeInv /\ VersionInv)
  <2>1. KnowledgeInv => KnowledgeShape
    BY DEF KnowledgeInv
  <2> QED BY <2>1, KnowledgeInvariant, VersionInit, VersionStep, PTL DEF KnowledgeSpec
<1>4. CodeIndexSpec => []IndexTypes
  BY IndexInitTypes, IndexTypesStep, PTL DEF CodeIndexSpec
<1>5. RepoMapSpec => [](LoadsInv /\ CacheTyped)
  BY LoadsInit, LoadsStep, CacheInit, CacheStep, PTL DEF RepoMapSpec
<1>6. ToolGitTypeOK /\ ToolGatesTypeOK /\ SessionStateTypeOK /\ KnowledgeTypeOK
      /\ DreamTypeOK /\ CodeIndexTypeOK /\ RepoMapTypeOK => TypesOK
  BY DEF TypesOK
<1> QED
  BY <1>1, <1>2, <1>3, <1>4, <1>5, <1>6, WorkspaceIsItsParts, GitInvariant, ToolGatesInvariant,
     DreamInvariant, PTL
=============================================================================
