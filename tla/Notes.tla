--------------------------------- MODULE Notes ---------------------------------
(***************************************************************************)
(* The notes a session keeps of what its tools found (features/memory.py   *)
(* append_note, normalize_memory_state, retrieval_view_structured; the     *)
(* tools leave them through runtime.py) and which of them a prompt is      *)
(* shown.  A note of a read file is the summary of what was read; nothing  *)
(* takes it back when the file is written.  SessionState has the recent    *)
(* files and their summaries.  The definition marked faulty is a change to *)
(* the code under which the property fails; nothing else uses it.          *)
(***************************************************************************)
EXTENDS Integers, Sequences, FiniteSets, SequencesExt, FiniteSetsExt, Lists

CONSTANTS
  NoteFiles,   \* files the tools read and write
  Plain,       \* those whose path is a single word, as Makefile
  Readings,   \* what a file may read like
  NoteWords,   \* words a message may have, names of files among them
  NoteLimit,   \* EPISODIC_NOTE_LIMIT
  Relevant,    \* RELEVANT_MEMORY_LIMIT
  MaxNotes,    \* bound: notes of a session, those it had included
  MaxSeconds   \* bound: seconds of a session

ASSUME NotesAssumptions ==
  Plain \subseteq NoteFiles /\ NoteFiles \subseteq NoteWords
  /\ {NoteLimit, Relevant, MaxNotes, MaxSeconds} \subseteq Nat
  /\ NoteLimit > 0 /\ MaxNotes >= 2

VARIABLES
  notes,     \* episodic_notes
  nextNote,  \* next_note_index
  contents,  \* what each file reads like now
  seconds,   \* now(), which notes that follow closely share
  found      \* what a retrieval from these notes selected and rejected
notesVars == <<notes, nextNote, contents, seconds, found>>

Note(text, tags, words, index) ==
  [text |-> text, tags |-> tags, words |-> words, created |-> seconds, index |-> index]
NothingFound == [query |-> {}, selected |-> <<>>, rejected |-> <<>>]

(* normalize_memory_state: a session of before has its notes as texts,     *)
(* which are numbered by their place.                                      *)
LastOf(seq) == SubSeq(seq, Len(seq) - Min({Len(seq), NoteLimit}) + 1, Len(seq))
NotesInit ==
  /\ seconds = 0 /\ found = NothingFound
  /\ \E s \in Readings : contents = [f \in NoteFiles |-> s]
  /\ \E old \in 0..2 :
       notes = LastOf([n \in 1..old |->
         [text |-> <<"old", n>>, tags |-> {}, words |-> NoteFiles, created |-> 0,
          index |-> n - 1]])
  /\ nextNote = IF notes = <<>> THEN 0 ELSE notes[Len(notes)].index + 1

-----------------------------------------------------------------------------
(* append_note: the same text is said once, by its last note.              *)
SaidAgain(kept, text) == kept    \* faulty
SaidOnce(kept, text) == Only(kept, {n \in ToSet(kept) : n.text # text})
AppendNote(text, tags, words) ==
  /\ nextNote < MaxNotes /\ nextNote' = nextNote + 1
  /\ notes' = LastOf(Append(SaidOnce(notes, text), Note(text, tags, words, nextNote)))

(* update_memory_after_tool: a file was read.  Its path is the note's tag, *)
(* which a word of the message can only be if the path is one word.        *)
ReadNoted(f) ==
  /\ AppendNote(<<"read", contents[f]>>, {f} \cap Plain, {f})
  /\ found' = NothingFound /\ UNCHANGED <<contents, seconds>>

(* record_process_note_for_tool: a call that did not succeed; a rejected   *)
(* one is as an error without paths.                                       *)
TroubleNoted(status, paths) ==
  /\ AppendNote(<<status, paths>>, {"process"} \cup (paths \cap Plain), {"process"} \cup paths)
  /\ found' = NothingFound /\ UNCHANGED <<contents, seconds>>

FileChanges(f, summary) ==
  /\ contents' = [contents EXCEPT ![f] = summary]
  /\ found' = NothingFound /\ UNCHANGED <<notes, nextNote, seconds>>
Tick ==
  /\ seconds < MaxSeconds /\ seconds' = seconds + 1
  /\ found' = NothingFound /\ UNCHANGED <<notes, nextNote, contents>>

(* _ranked_retrieval_notes: notes that share a word with the message; a    *)
(* tag counts before words, words before age, and age before order.        *)
Matches(n, query) == query \cap (n.words \cup n.tags) # {}
Rank(n, query) ==
  <<IF query \cap n.tags # {} THEN 1 ELSE 0, Cardinality(query \cap (n.words \cup n.tags)),
    n.created, n.index>>
Above(r, s) == \E k \in 1..4 : r[k] > s[k] /\ \A j \in 1..(k - 1) : r[j] = s[j]
Ranked(query, ranked) ==
  \A i, j \in DOMAIN ranked :
    i < j => Above(Rank(ranked[i], query), Rank(ranked[j], query))

(* retrieval_view_structured, for a prompt.                                *)
Retrieve(query) ==
  /\ found = NothingFound
  /\ \E ranked \in SetToSeqs({n \in ToSet(notes) : Matches(n, query)}) :
       /\ Ranked(query, ranked)
       /\ LET room == Min({Relevant, Len(ranked)})
          IN  found' = [query |-> query, selected |-> SubSeq(ranked, 1, room),
                        rejected |-> SubSeq(ranked, room + 1, Len(ranked))]
  /\ UNCHANGED <<notes, nextNote, contents, seconds>>

NotesNext ==
  \/ \E f \in NoteFiles : ReadNoted(f) \/ \E s \in Readings : FileChanges(f, s)
  \/ \E status \in {"error", "partial_success"}, paths \in {{}} \cup {{f} : f \in NoteFiles} :
       TroubleNoted(status, paths)
  \/ Tick \/ \E query \in SUBSET NoteWords : Retrieve(query)
NotesSpec == NotesInit /\ [][NotesNext]_notesVars

-----------------------------------------------------------------------------
NotesTypeOK ==
  /\ Len(notes) <= NoteLimit /\ nextNote \in 0..MaxNotes /\ seconds \in 0..MaxSeconds
  /\ contents \in [NoteFiles -> Readings] /\ Len(found.selected) <= Relevant

(* The notes are in the order they were made in, under numbers that are    *)
(* never given twice, and none is said twice.  A prompt is shown those     *)
(* that match its message best: no note with a word of the message is      *)
(* lost between the two lists, and what is left out is not above what is   *)
(* shown.                                                                  *)
NotesAreSound ==
  /\ \A i, j \in DOMAIN notes : i < j =>
       notes[i].index < notes[j].index /\ notes[i].text # notes[j].text
       /\ notes[i].created <= notes[j].created
  /\ \A i \in DOMAIN notes : notes[i].index < nextNote
  /\ LET all == found.selected \o found.rejected IN
     \A i, j \in DOMAIN all : i < j =>
       /\ Above(Rank(all[i], found.query), Rank(all[j], found.query))
       /\ all[i].text # all[j].text
=============================================================================
