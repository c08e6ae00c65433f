------------------------------- MODULE Chunking --------------------------------
(***************************************************************************)
(* How features/retrieval/chunking.py cuts what it indexes: a page into    *)
(* the sections of its headings, a file into the bodies of its             *)
(* definitions, and the text of either into pieces at the best separator,  *)
(* which are packed into chunks that overlap.  An author writes; what is   *)
(* cut is a function of what is written.  A character is a symbol with a   *)
(* weight in quarters of a token, a line the level of its heading, Words   *)
(* or Empty.  Definitions marked faulty are changes to the code under which   *)
(* the property fails; nothing else uses them.                             *)
(***************************************************************************)
EXTENDS Sums, Lists, FiniteSets, SequencesExt, FiniteSetsExt

CONSTANTS
  Weight,      \* symbol -> quarters of a token: 4 if wide, else 1
  Space,       \* the symbols strip() takes away
  Separators,  \* _RECURSIVE_SEPARATORS but the empty one: sequences of symbols
  ChunkTokens, \* child_chunk_tokens
  Share,       \* round(child_chunk_tokens * child_chunk_overlap)
  MaxLevel,    \* levels of headings
  MaxName,     \* names of definitions, in their order
  MaxSymbols, MaxLines, MaxDefinitions  \* bounds: what the author writes

Words == 0
Empty == -1
ASSUME ChunkingAssumptions ==
  /\ Weight \in [DOMAIN Weight -> {1, 4}]
  /\ ChunkTokens \in Nat \ {0}
  /\ {Share, MaxLevel, MaxName, MaxSymbols, MaxLines, MaxDefinitions} \subseteq Nat
  /\ Separators \in Seq(Seq(DOMAIN Weight)) /\ \A i \in DOMAIN Separators : Separators[i] # <<>>

VARIABLES
  passage,  \* a text, as symbols
  page,     \* a page, as lines
  marks     \* definitions of a file of the page's length: <<line, name>>
chunkingVars == <<passage, page, marks>>

ChunkingInit == passage = <<>> /\ page = <<>> /\ marks = {}

WriteSymbol(s) == Len(passage) < MaxSymbols /\ page = <<>>
  /\ passage' = Append(passage, s) /\ UNCHANGED <<page, marks>>
WriteLine(kind) == Len(page) < MaxLines /\ passage = <<>>
  /\ page' = Append(page, kind) /\ UNCHANGED <<passage, marks>>
Define(line, name) == Cardinality(marks) < MaxDefinitions /\ line <= Len(page)
  /\ marks' = marks \cup {<<line, name>>} /\ UNCHANGED <<passage, page>>

ChunkingNext ==
  \/ \E s \in DOMAIN Weight : WriteSymbol(s)
  \/ \E kind \in Empty..MaxLevel : WriteLine(kind)
  \/ \E line \in 1..MaxLines, name \in 1..MaxName : Define(line, name)
ChunkingSpec == ChunkingInit /\ [][ChunkingNext]_chunkingVars

-----------------------------------------------------------------------------
(* A piece is the interval of the passage it stands for.                   *)
Piece(a, b) == [from |-> a, to |-> b]
Span == [from : Nat, to : Nat]

(* estimate_tokens: the quarters are summed, and rounded up.               *)
Weighed(n) == SumTo([k \in DOMAIN passage |-> Weight[passage[k]]], n)
Quarters(a, b) == Weighed(b) - Weighed(a - 1)
Tokens(p) == (Quarters(p.from, p.to) + 3) \div 4
Fits(p) == Tokens(p) <= ChunkTokens

(* A text as far as it has been cut: the pieces, and where the next begins.*)
Begun == [done : Seq(Span), from : Nat]
CutTo(st, n) == [done |-> Append(st.done, Piece(st.from, n)), from |-> n + 1]

(* _hard_split: a piece ends with the character that fills it.             *)
Fill(n) == [st \in Begun |->
  IF Quarters(st.from, n) >= 4 * ChunkTokens THEN CutTo(st, n) ELSE st]
HardSplit(p) ==
  LET length == p.to - p.from + 1
      filled == Loop([done |-> <<>>, from |-> p.from],
                     [k \in 1..length |-> Fill(p.from + k - 1)], length)
  IN  IF filled.from > p.to THEN filled.done ELSE CutTo(filled, p.to).done

(* _split_keeping_separator: a part ends with its separator; what follows  *)
(* the last one is a part as well.  There are no more parts than symbols.  *)
Found(sep, a, b) == {n \in a..(b - Len(sep) + 1) : SubSeq(passage, n, n + Len(sep) - 1) = sep}
LastPartLost(st, b) == st.done    \* faulty
LastPart(st, b) == IF st.from > b THEN st.done ELSE CutTo(st, b).done
NextPart(sep, b) == [st \in Begun |->
  IF Found(sep, st.from, b) = {} THEN st
  ELSE CutTo(st, Min(Found(sep, st.from, b)) + Len(sep) - 1)]
Parts(sep, p) ==
  LET length == p.to - p.from + 1
  IN  LastPart(Loop([done |-> <<>>, from |-> p.from],
                    [k \in 1..length |-> NextPart(sep, p.to)], length), p.to)

(* split_recursive: what is too long is cut at the first separator that    *)
(* occurs in it, and the parts that still are at the next ones; what is    *)
(* too long after the last is split hard.  The recursion is followed level *)
(* by level, with all pieces of a separator at once.                       *)
Divide(cut) == [pieces \in Seq(Span) |->
  Loop(<<>>, [i \in DOMAIN pieces |-> [done \in Seq(Span) |-> done \o cut[pieces[i]]]], Len(pieces))]
AtSeparator(sep) == [p \in Span |->
  IF Fits(p) \/ Found(sep, p.from, p.to) = {} THEN <<p>> ELSE Parts(sep, p)]
AtLength == [p \in Span |-> IF Fits(p) THEN <<p>> ELSE HardSplit(p)]
Pieces ==
  IF passage = <<>> THEN <<>>
  ELSE Divide(AtLength)[Loop(<<Piece(1, Len(passage))>>,
                             [i \in DOMAIN Separators |-> Divide(AtSeparator(Separators[i]))],
                             Len(Separators))]

(* pack_pieces: blank pieces are left out; a chunk that the next piece     *)
(* would make too long ends, and the next begins with as many of its last  *)
(* pieces as the overlap has room for.                                     *)
Blank(p) == \A n \in p.from..p.to : passage[n] \in Space
Overlap == Min({ChunkTokens - 1, Share})
Size(units) == SumTo([i \in DOMAIN units |-> Tokens(units[i])], Len(units))
Ending(units) ==
  LET fits == {n \in 1..Len(units) : Size(SubSeq(units, n, Len(units))) <= Overlap}
  IN  IF fits = {} THEN <<>> ELSE SubSeq(units, Min(fits), Len(units))
Packing == [done : Seq(Seq(Span)), current : Seq(Span)]
Pack(p) == [st \in Packing |->
  IF st.current # <<>> /\ Size(st.current) + Tokens(p) > ChunkTokens
  THEN [done |-> Append(st.done, st.current), current |-> Append(Ending(st.current), p)]
  ELSE [st EXCEPT !.current = Append(@, p)]]
Units == Only(Pieces, {p \in ToSet(Pieces) : ~Blank(p)})
Chunks ==
  LET units == Units
      packed == Loop([done |-> <<>>, current |-> <<>>],
                     [i \in DOMAIN units |-> Pack(units[i])], Len(units))
  IN  IF packed.current = <<>> THEN packed.done ELSE Append(packed.done, packed.current)

-----------------------------------------------------------------------------
(* split_markdown_sections: a section ends at a heading and is kept if it  *)
(* has words, or if the page has no heading and no section yet.  Its path  *)
(* are the headings that are open: a heading closes those of its level and *)
(* of the levels below.                                                    *)
IsHeading(line) == page[line] > 0
Flushed(st, end) ==
  LET body == {line \in st.body : page[line] = Words} IN
  IF body # {} \/ (st.sections = <<>> /\ \A line \in DOMAIN page : ~IsHeading(line))
  THEN Append(st.sections, [path |-> st.path, start |-> st.start,
                            end |-> Max({st.start, end}), body |-> body])
  ELSE st.sections
SectionSet == [path : Seq(Nat), start : Nat, end : Nat, body : SUBSET Nat]
Reading == [sections : Seq(SectionSet), start : Nat, body : SUBSET Nat, path : Seq(Nat)]
NextLine(line) == [st \in Reading |->
  IF ~IsHeading(line) THEN [st EXCEPT !.body = @ \cup {line}]
  ELSE [sections |-> Flushed(st, line - 1), start |-> line, body |-> {},
        path |-> Append(Only(st.path, {h \in DOMAIN page : page[h] < page[line]}), line)]]
MarkdownSections ==
  LET st == Loop([sections |-> <<>>, start |-> 1, body |-> {}, path |-> <<>>],
                 [line \in DOMAIN page |-> NextLine(line)], Len(page))
  IN  Flushed(st, Len(page))

(* chunk_code_repository: the body of a definition goes to the next one in *)
(* the order of their lines and names; a file without definitions has one  *)
(* for the whole; blank bodies are left out.                               *)
Definitions == IF marks = {} THEN {<<1, 0>>} ELSE marks
After(d) == {c \in Definitions : d[1] < c[1] \/ (d[1] = c[1] /\ d[2] < c[2])}
Body(d) ==
  LET next == IF After(d) = {} THEN Len(page) + 1 ELSE Min({c[1] : c \in After(d)})
  IN  d[1]..Min({Len(page), Max({d[1], next - 1})})
CodeSections ==
  LET kept == {d \in Definitions : \E line \in Body(d) : page[line] # Empty}
  IN  [d \in kept |-> Body(d)]

-----------------------------------------------------------------------------
ChunkingTypeOK ==
  /\ passage \in Seq(DOMAIN Weight) /\ page \in Seq(Empty..MaxLevel)
  /\ marks \subseteq (1..MaxLines) \X (1..MaxName)

(* The pieces of a text follow one another and are all of it; only a hard  *)
(* split makes one longer than a chunk, by less than a token.  Each word   *)
(* is in a chunk, a chunk is no longer than a chunk and its overlap, and   *)
(* each brings the text further.                                           *)
TextIsCovered ==
  LET pieces == Pieces
      chunks == Chunks
      Furthest(c) == chunks[c][Len(chunks[c])].to
  IN
  /\ \A i \in DOMAIN pieces :
       /\ pieces[i].from = IF i = 1 THEN 1 ELSE pieces[i - 1].to + 1
       /\ pieces[i].from <= pieces[i].to
       /\ Quarters(pieces[i].from, pieces[i].to) < 4 * ChunkTokens + 4
  /\ passage # <<>> => pieces[Len(pieces)].to = Len(passage)
  /\ \A n \in DOMAIN passage : passage[n] \notin Space =>
       \E c \in DOMAIN chunks : \E i \in DOMAIN chunks[c] :
         n \in chunks[c][i].from..chunks[c][i].to
  /\ \A c \in DOMAIN chunks :
       /\ Size(chunks[c]) <= ChunkTokens + 1 + Overlap
       /\ c > 1 => Furthest(c) > Furthest(c - 1)

(* Each line of words of a page is in one section, whose path are the      *)
(* headings that enclose it: those after which no heading of their level   *)
(* or above came.                                                          *)
Encloses(h, line) == IsHeading(h) /\ h <= line
  /\ \A k \in (h + 1)..line : IsHeading(k) => page[k] > page[h]
PageIsCovered ==
  LET sections == MarkdownSections IN
  \A line \in DOMAIN page : page[line] = Words =>
    \E i \in DOMAIN sections :
      /\ line \in sections[i].body /\ line \in sections[i].start..sections[i].end
      /\ \A j \in DOMAIN sections : line \in sections[j].body => j = i
      /\ ToSet(sections[i].path) = {h \in DOMAIN page : Encloses(h, line)}

(* From its first definition on each line of a file that is not empty is   *)
(* in a section, and only where a line has several definitions in more     *)
(* than one.                                                               *)
FileIsCovered ==
  LET sections == CodeSections IN
  \A line \in DOMAIN page :
    LET of == {i \in DOMAIN sections : line \in sections[i]} IN
    page[line] # Empty /\ (marks = {} \/ \E d \in marks : d[1] <= line) =>
      /\ of # {}
      /\ Cardinality(of) > 1 => Cardinality({d \in marks : d[1] = line}) > 1

ChunksAreSound == TextIsCovered /\ PageIsCovered /\ FileIsCovered
=============================================================================
