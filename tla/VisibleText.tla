----------------------------- MODULE VisibleText -----------------------------
(***************************************************************************)
(* What the user is shown of a reply while it streams in                   *)
(* (engine_stream.py): the text outside the markup of the text protocol.   *)
(* The pieces of a reply end anywhere, within a tag too, so the filter     *)
(* holds back what might still become one.  A reply is a sequence of       *)
(* characters; the tags are constants so that short ones can be checked.   *)
(***************************************************************************)
EXTENDS Lists, FiniteSets, SequencesExt

CONSTANTS
  Chars,       \* the characters of a reply
  Open,        \* "<", the character every tag begins with
  FinalTag,    \* <final>
  ClosingTag,  \* </final>
  OtherTags,   \* <tool>, <tools> and <retry>
  ToolWord,    \* <tool
  Blanks,      \* what may follow it if the tool is named by attributes
  MaxText,     \* bound: characters of a reply
  MaxDelta     \* bound: characters of a piece

BlankWords == {Append(ToolWord, b) : b \in Blanks}

(* Every tag begins with "<"; <tool begins one of the tags, and none but   *)
(* itself begins <final>.                                                  *)
ASSUME VisibleTextAssumptions ==
  /\ Blanks \subseteq Chars /\ Open \in Chars /\ {MaxText, MaxDelta} \subseteq Nat
  /\ \A tag \in {FinalTag, ClosingTag, ToolWord} \cup OtherTags :
       tag \in Seq(Chars) /\ tag # <<>> /\ tag[1] = Open
  /\ \E tag \in OtherTags : IsPrefix(ToolWord, tag)
  /\ \A tag \in OtherTags \cup BlankWords : ~IsPrefix(tag, FinalTag)

VARIABLES
  text,      \* history: the reply so far
  buffer,    \* what is held back of it
  phase,     \* "auto", "final" (inside <final>) or "suppressed"
  displayed, \* what has been shown
  ended

textVars == <<text, buffer, phase, displayed, ended>>

ControlTags == {FinalTag} \cup OtherTags
HoldBack == Len(FinalTag)   \* 7: no tag is longer

Rest(s, n) == SubSeq(s, n + 1, Len(s))
Starts(s, tag) == IsPrefix(tag, s)
LeastOf(S) == CHOOSE i \in S : \A j \in S : i <= j
Places(s, tags) == {i \in DOMAIN s : \E tag \in tags : Starts(Rest(s, i - 1), tag)}
IndexOf(s, tag) ==   \* 0 if it does not occur
  IF Places(s, {tag}) = {} THEN 0 ELSE LeastOf(Places(s, {tag}))

Phases == {"auto", "final", "suppressed"}
States == [buffer : Seq(Chars), phase : Phases, out : Seq(Chars)]
State(b, p, out) == [buffer |-> b, phase |-> p, out |-> out]
Release(st, n) == State(Rest(st.buffer, n), st.phase, st.out \o SubSeq(st.buffer, 1, n))
AtLeast0(n) == IF n < 0 THEN 0 ELSE n

(* Inside <final>: all up to its closing tag.                              *)
InFinal(st, last) ==
  LET i == IndexOf(st.buffer, ClosingTag) IN
  IF i > 0
  THEN State(<<>>, "suppressed", st.out \o SubSeq(st.buffer, 1, i - 1))
  ELSE Release(st, IF last THEN Len(st.buffer)
                   ELSE AtLeast0(Len(st.buffer) - Len(ClosingTag) + 1))

(* At a "<": a tag, what may become one, or a character like any other.    *)
MayBecomeTagEager(s, last) == FALSE                                 \* faulty
MayBecomeTag(s, last) ==
  ~last /\ (s = ToolWord \/ \E tag \in ControlTags : IsPrefix(s, tag))

(* VisibleTextStream._drain: one round of its loop, and the loop.          *)
Round(st, last) ==
  LET s == st.buffer  i == IndexOf(s, <<Open>>) IN
  CASE st.phase = "suppressed" -> State(<<>>, st.phase, st.out)
    [] st.phase = "final"      -> InFinal(st, last)
    [] st.phase = "auto" /\ i = 0 ->
         Release(st, IF last THEN Len(s) ELSE AtLeast0(Len(s) - HoldBack))
    [] st.phase = "auto" /\ i > 1 -> Release(st, i - 1)
    [] st.phase = "auto" /\ i = 1 ->
         IF Starts(s, FinalTag) THEN State(Rest(s, Len(FinalTag)), "final", st.out)
         ELSE IF \E tag \in OtherTags \cup BlankWords : Starts(s, tag)
              THEN State(<<>>, "suppressed", st.out)
         ELSE IF MayBecomeTag(s, last) THEN st
         ELSE Release(st, 1)

(* A round takes a character at least, or nothing changes any more.        *)
Drain(st, last) ==
  LET round == [r \in States |-> Round(r, last)]
  IN  Loop(st, [n \in 1..Len(st.buffer) |-> round], Len(st.buffer))

-----------------------------------------------------------------------------
VisibleTextInit ==
  text = <<>> /\ buffer = <<>> /\ phase = "auto" /\ displayed = <<>> /\ ended = FALSE

Becomes(st) == buffer' = st.buffer /\ phase' = st.phase /\ displayed' = st.out

(* feed: a piece of the reply, of any length.                              *)
Feed(piece) ==
  /\ ~ended /\ Len(text) + Len(piece) <= MaxText
  /\ text' = text \o piece
  /\ \E st \in {Drain(State(buffer \o piece, phase, displayed), FALSE)} : Becomes(st)
  /\ UNCHANGED ended

(* finish.                                                                 *)
Finish ==
  /\ ~ended /\ ended' = TRUE
  /\ \E st \in {Drain(State(buffer, phase, displayed), TRUE)} : Becomes(st)
  /\ UNCHANGED text

VisibleTextNext ==
  \/ \E n \in 1..MaxDelta : \E piece \in [1..n -> Chars] : Feed(piece)
  \/ Finish

VisibleTextSpec == VisibleTextInit /\ [][VisibleTextNext]_textVars

-----------------------------------------------------------------------------
VisibleTextTypeOK ==
  /\ phase \in Phases /\ ended \in BOOLEAN
  /\ text \in Seq(Chars) /\ buffer \in Seq(Chars) /\ displayed \in Seq(Chars)

(* What a reader would mark as visible in a whole reply: all before the    *)
(* first tag, and after <final> all up to its closing tag.                 *)
Before(s, tags) ==
  IF Places(s, tags) = {} THEN s ELSE SubSeq(s, 1, LeastOf(Places(s, tags)) - 1)
Inner(s) == Before(s, {ClosingTag})
Visible(s) ==
  LET tags   == ControlTags \cup BlankWords
      before == Before(s, tags)
      after  == Rest(s, Len(before))
  IN before \o (IF Starts(after, FinalTag) THEN Inner(Rest(after, Len(FinalTag))) ELSE <<>>)

(* However a reply is cut into pieces, what is shown of it is what is      *)
(* visible of the whole; and nothing is ever shown too early, as if the    *)
(* reply could not go on with a tag.                                       *)
ShownIsVisible ==
  /\ IsPrefix(displayed, Visible(text))
  /\ ended => displayed = Visible(text)
=============================================================================
