-------------------------- MODULE RetrievalProofs ---------------------------
(***************************************************************************)
(* What is proved of what is looked up for a request: the notes, the       *)
(* evidence in the code, and the chunks it is found in.                    *)
(***************************************************************************)
EXTENDS Notes, Evidence, Chunking, DataProofs, FiniteSetTheorems

(***************************************************************************)
(* Notes, for any files, words and limits: notes are in order and said     *)
(* once, and those shown are the best that match.                          *)
(***************************************************************************)

(* Notes in the order they were made in, under the numbers below next, and  *)
(* none said twice.                                                         *)
InOrder(s, next, now) ==
  /\ \A i \in DOMAIN s : /\ s[i].index \in Nat /\ s[i].index < next
                         /\ s[i].created \in Nat /\ s[i].created <= now
  /\ \A i, j \in DOMAIN s : i < j =>
       /\ s[i].index < s[j].index /\ s[i].text # s[j].text
       /\ s[i].created <= s[j].created

(* t has some of the members of s, in their order.                          *)
Within(s, t) ==
  \E place \in [DOMAIN t -> DOMAIN s] :
    /\ \A i, j \in DOMAIN t : i < j => place[i] < place[j]
    /\ \A i \in DOMAIN t : t[i] = s[place[i]]

NotesInv ==
  /\ nextNote \in Nat /\ seconds \in Nat
  /\ \E S : notes \in Seq(S)
  /\ InOrder(notes, nextNote, seconds)

(* What a retrieval found is in the order of its rank, and nothing twice.   *)
InRank(f) ==
  LET all == f.selected \o f.rejected IN
  \A i, j \in DOMAIN all : i < j =>
    /\ Above(Rank(all[i], f.query), Rank(all[j], f.query))
    /\ all[i].text # all[j].text
FoundInv == InRank(found)

-----------------------------------------------------------------------------
(* What is left of a list in order is in order.                             *)
LEMMA WithinInOrder ==
  ASSUME NEW s, NEW t, NEW next, NEW now, InOrder(s, next, now), Within(s, t)
  PROVE  InOrder(t, next, now)
BY DEF InOrder, Within

(* A note of now, under the next number, goes to the end.                   *)
LEMMA AppendInOrder ==
  ASSUME NEW S, NEW s \in Seq(S), NEW x, NEW next \in Nat, NEW now \in Nat,
         InOrder(s, next, now), x.index = next, x.created = now,
         \A i \in DOMAIN s : s[i].text # x.text
  PROVE  InOrder(Append(s, x), next + 1, now)
<1> DEFINE t == Append(s, x)
<1>1. /\ DOMAIN t = 1 .. (Len(s) + 1) /\ Len(s) \in Nat /\ DOMAIN s = 1 .. Len(s)
      /\ t[Len(s) + 1] = x
      /\ \A i \in 1 .. Len(s) : t[i] = s[i]
  OBVIOUS
<1> HIDE DEF t
<1>2. ASSUME NEW i \in DOMAIN t
      PROVE  /\ t[i].index \in Nat /\ t[i].index < next + 1
             /\ t[i].created \in Nat /\ t[i].created <= now
  <2>1. CASE i = Len(s) + 1
    BY <1>1, <2>1
  <2>2. CASE i # Len(s) + 1
    <3>1. i \in DOMAIN s /\ t[i] = s[i]
      BY <1>1, <2>2
    <3>2. s[i].index \in Nat /\ s[i].index < next /\ s[i].created \in Nat /\ s[i].created <= now
      BY <3>1 DEF InOrder
    <3> QED BY <3>1, <3>2
  <2> QED BY <2>1, <2>2
<1>3. ASSUME NEW i \in DOMAIN t, NEW j \in DOMAIN t, i < j
      PROVE  /\ t[i].index < t[j].index /\ t[i].text # t[j].text
             /\ t[i].created <= t[j].created
  <2>1. i \in DOMAIN s /\ t[i] = s[i]
    BY <1>1, <1>3
  <2>2. CASE j = Len(s) + 1
    BY <1>1, <2>1, <2>2 DEF InOrder
  <2>3. CASE j # Len(s) + 1
    <3>1. j \in DOMAIN s /\ t[j] = s[j]
      BY <1>1, <2>3
    <3> QED BY <1>3, <2>1, <3>1 DEF InOrder
  <2> QED BY <2>2, <2>3
<1>4. InOrder(t, next + 1, now)
  BY <1>2, <1>3 DEF InOrder
<1> QED BY <1>4 DEF t

(* The smaller of two numbers.                                              *)
LEMMA MinOfTwo ==
  ASSUME NEW a \in Int, NEW b \in Int
  PROVE  Min({a, b}) = IF a <= b THEN a ELSE b
<1> DEFINE m == IF a <= b THEN a ELSE b
<1>1. m \in {a, b} /\ \A y \in {a, b} : m <= y
  OBVIOUS
<1>2. \A x \in {a, b} : (\A y \in {a, b} : x <= y) => x = m
  OBVIOUS
<1>3. Min({a, b}) = CHOOSE x \in {a, b} : \A y \in {a, b} : x <= y
  BY DEF Min
<1>4. Min({a, b}) \in {a, b} /\ \A y \in {a, b} : Min({a, b}) <= y
  <2> HIDE DEF m
  <2> QED BY <1>1, <1>3
<1> QED BY <1>2, <1>4

(* The last notes of a list are some of them.                               *)
LEMMA LastOfIs ==
  ASSUME NEW S, NEW s \in Seq(S)
  PROVE  LastOf(s) \in Seq(S) /\ Within(s, LastOf(s))
<1> DEFINE m == Min({Len(s), NoteLimit})
           k == Len(s) - m
           t == SubSeq(s, k + 1, Len(s))
<1>1. Len(s) \in Nat /\ NoteLimit \in Nat /\ DOMAIN s = 1 .. Len(s)
  BY NotesAssumptions
<1>2. m \in Nat /\ m <= Len(s)
  BY <1>1, MinOfTwo
<1>3. LastOf(s) = t
  <2>1. Len(s) - m + 1 = k + 1
    OBVIOUS
  <2> QED BY <2>1 DEF LastOf
<1> HIDE DEF m
<1>4. k \in Nat /\ k <= Len(s) /\ Len(s) - k = m
  BY <1>1, <1>2
<1> HIDE DEF k
<1>5. /\ t \in Seq(S) /\ DOMAIN t = 1 .. m
      /\ \A i \in 1 .. m : i + k \in 1 .. Len(s) /\ t[i] = s[i + k]
  <2>1. \A i \in 1 .. m : i + k \in 1 .. Len(s) /\ (k + 1) + i - 1 = i + k
    BY <1>1, <1>2, <1>4
  <2>2. k + 1 \in 1 .. (Len(s) + 1)
    BY <1>1, <1>4
  <2>4. (k + 1) - 1 = k /\ Len(s) - (k + 1) + 1 = m
    BY <1>1, <1>4
  <2>5. Len(s) \in (k + 1) - 1 .. Len(s)
    BY <1>1, <1>4, <2>4
  <2>3. t \in Seq(S) /\ Len(t) = m /\ \A i \in 1 .. m : t[i] = s[(k + 1) + i - 1]
    BY <1>1, <1>2, <2>2, <2>4, <2>5, SubSeqProperties
  <2> HIDE DEF t
  <2>6. DOMAIN t = 1 .. m
    BY <2>3
  <2>7. ASSUME NEW i \in 1 .. m
        PROVE  i + k \in 1 .. Len(s) /\ t[i] = s[i + k]
    <3>1. t[i] = s[(k + 1) + i - 1] /\ (k + 1) + i - 1 = i + k /\ i + k \in 1 .. Len(s)
      BY <2>1, <2>3
    <3> QED BY <3>1
  <2> QED BY <2>3, <2>6, <2>7
<1> HIDE DEF t
<1>6. Within(s, t)
  <2> DEFINE place == [i \in 1 .. m |-> i + k]
  <2>1. place \in [DOMAIN t -> DOMAIN s]
    BY <1>1, <1>5
  <2>2. \A i, j \in DOMAIN t : i < j => place[i] < place[j]
    BY <1>2, <1>4, <1>5
  <2>3. \A i \in DOMAIN t : t[i] = s[place[i]]
    BY <1>5
  <2> HIDE DEF place
  <2> QED BY <2>1, <2>2, <2>3 DEF Within
<1> QED BY <1>3, <1>5, <1>6

(* What is said once is kept otherwise, in order.                           *)
LEMMA SaidOnceIs ==
  ASSUME NEW S, NEW s \in Seq(S), NEW what
  PROVE  /\ SaidOnce(s, what) \in Seq(S) /\ Within(s, SaidOnce(s, what))
         /\ \A i \in DOMAIN SaidOnce(s, what) : SaidOnce(s, what)[i].text # what
<1> DEFINE K == {n \in ToSet(s) : n.text # what}
           t == Only(s, K)
<1>1. t = SaidOnce(s, what)
  BY DEF SaidOnce
<1> HIDE DEF K
<1>2. t \in Seq(S) /\ \E place : Picks(s, K, Len(s), t, place)
  BY OnlyPicks
<1> HIDE DEF t
<1>3. DOMAIN t = 1 .. Len(t) /\ DOMAIN s = 1 .. Len(s)
  BY <1>2
<1>4. Within(s, t)
  BY <1>2, <1>3 DEF Picks, Within
<1>5. \A i \in DOMAIN t : t[i] \in K
  BY <1>2, <1>3 DEF Picks
<1>6. \A i \in DOMAIN t : t[i].text # what
  BY <1>5 DEF K
<1> QED BY <1>1, <1>2, <1>4, <1>6

(* Three lemmas for append_note and normalize_memory_state: a list in order *)
(* stays in order when its last notes are taken,                            *)
LEMMA LastOfInOrder ==
  ASSUME NEW S, NEW s \in Seq(S), NEW next, NEW now, InOrder(s, next, now)
  PROVE  LastOf(s) \in Seq(S) /\ InOrder(LastOf(s), next, now)
<1> DEFINE t == LastOf(s)
<1>1. t \in Seq(S) /\ Within(s, t)
  BY LastOfIs
<1> HIDE DEF t
<1>2. InOrder(t, next, now)
  BY <1>1, WithinInOrder
<1> QED BY <1>1, <1>2 DEF t

(* when a new note is appended and the old one of its text goes,            *)
LEMMA AppendNoteInOrder ==
  ASSUME NotesInv, NEW what, NEW tags, NEW words, AppendNote(what, tags, words)
  PROVE  /\ nextNote' \in Nat
         /\ \E S : notes' \in Seq(S)
         /\ InOrder(notes', nextNote', seconds)
<1>1. PICK S : notes \in Seq(S)
  BY DEF NotesInv
<1> DEFINE x == Note(what, tags, words, nextNote)
           t == SaidOnce(notes, what)
           R == S \cup {x}
           u == Append(t, x)
<1>2. nextNote \in Nat /\ seconds \in Nat /\ InOrder(notes, nextNote, seconds)
  BY DEF NotesInv
<1>3. x.index = nextNote /\ x.created = seconds /\ x.text = what
  BY DEF Note
<1>4. nextNote' = nextNote + 1 /\ notes' = LastOf(u)
  BY DEF AppendNote
<1>5. /\ t \in Seq(S) /\ Within(notes, t) /\ \A i \in DOMAIN t : t[i].text # what
  BY <1>1, SaidOnceIs
<1> HIDE DEF x, t
<1>6. InOrder(t, nextNote, seconds)
  BY <1>2, <1>5, WithinInOrder
<1>7. InOrder(u, nextNote + 1, seconds)
  BY <1>2, <1>3, <1>5, <1>6, AppendInOrder
<1>8. t \in Seq(R) /\ x \in R
  BY <1>5
<1>9. u \in Seq(R)
  BY <1>8
<1> HIDE DEF u, R
<1>10. LastOf(u) \in Seq(R) /\ InOrder(LastOf(u), nextNote + 1, seconds)
  BY <1>7, <1>9, LastOfInOrder
<1> QED BY <1>2, <1>4, <1>10

(* and as the clock goes on.                                                *)
LEMMA LaterInOrder ==
  ASSUME NEW s, NEW next, NEW now \in Nat, NEW later \in Nat, now <= later,
         InOrder(s, next, now)
  PROVE  InOrder(s, next, later)
BY DEF InOrder

(* The ranking of the notes that match has each of them once.               *)
LEMMA RankedOnce ==
  ASSUME NotesInv, NEW query,
         NEW ranked \in SetToSeqs({n \in ToSet(notes) : Matches(n, query)})
  PROVE  /\ Len(ranked) \in Nat /\ DOMAIN ranked = 1 .. Len(ranked)
         /\ \E S : ranked \in Seq(S)
         /\ \A i, j \in DOMAIN ranked : i < j => ranked[i].text # ranked[j].text
<1> DEFINE M == {n \in ToSet(notes) : Matches(n, query)}
           c == Cardinality(M)
<1>1. DOMAIN notes = 1 .. Len(notes) /\ Len(notes) \in Nat
  BY DEF NotesInv
<1>2. IsFiniteSet(ToSet(notes))
  <2>1. IsFiniteSet(1 .. Len(notes))
    BY <1>1, FS_Interval
  <2>2. notes \in Surjection(1 .. Len(notes), ToSet(notes))
    <3>1. notes \in [1 .. Len(notes) -> ToSet(notes)]
      BY <1>1 DEF NotesInv, ToSet
    <3> QED BY <1>1, <3>1 DEF ToSet, Surjection
  <2> QED BY <2>1, <2>2, FS_Surjection
<1>3. M \subseteq ToSet(notes)
  OBVIOUS
<1>4. ranked \in {f \in [1 .. c -> M] : \A i, j \in 1 .. c : i # j => f[i] # f[j]}
  BY DEF SetToSeqs
<1> HIDE DEF M
<1>5. IsFiniteSet(M)
  BY <1>2, <1>3, FS_Subset
<1>6. c \in Nat
  BY <1>5, FS_CardinalityType
<1> HIDE DEF c
<1>7. ranked \in [1 .. c -> M] /\ \A i, j \in 1 .. c : i # j => ranked[i] # ranked[j]
  BY <1>4
<1>8. ranked \in Seq(M)
  BY <1>6, <1>7, SeqDef
<1>9. Len(ranked) = c /\ DOMAIN ranked = 1 .. c
  BY <1>6, <1>7, <1>8
<1>10. ASSUME NEW i \in DOMAIN ranked, NEW j \in DOMAIN ranked, i < j
       PROVE  ranked[i].text # ranked[j].text
  <2>1. ranked[i] \in ToSet(notes) /\ ranked[j] \in ToSet(notes)
    BY <1>3, <1>7, <1>9
  <2>2. PICK a \in DOMAIN notes, b \in DOMAIN notes :
          ranked[i] = notes[a] /\ ranked[j] = notes[b]
    BY <2>1 DEF ToSet
  <2>3. ranked[i] # ranked[j]
    BY <1>6, <1>7, <1>9, <1>10
  <2>4. a < b \/ b < a
    BY <1>1, <2>2, <2>3
  <2>5. \A k, l \in DOMAIN notes : k < l => notes[k].text # notes[l].text
    BY DEF NotesInv, InOrder
  <2> QED BY <2>2, <2>4, <2>5
<1> QED BY <1>6, <1>8, <1>9, <1>10

-----------------------------------------------------------------------------
(* A session's first notes are those it had, numbered by their place.       *)
LEMMA NotesInitInv == NotesInit => NotesInv /\ FoundInv
<1> SUFFICES ASSUME NotesInit PROVE NotesInv /\ FoundInv
  OBVIOUS
<1>1. PICK old \in 0 .. 2 :
        notes = LastOf([n \in 1 .. old |->
          [text |-> <<"old", n>>, tags |-> {}, words |-> NoteFiles, created |-> 0,
           index |-> n - 1]])
  BY DEF NotesInit
<1> DEFINE one(n) == [text |-> <<"old", n>>, tags |-> {}, words |-> NoteFiles,
                      created |-> 0, index |-> n - 1]
           S == {one(n) : n \in 1 .. old}
           s == [n \in 1 .. old |-> one(n)]
<1>2. s \in Seq(S) /\ DOMAIN s = 1 .. old
  <2>1. s \in [1 .. old -> S] /\ old \in Nat
    <3> HIDE DEF one
    <3> QED OBVIOUS
  <2> HIDE DEF s, S
  <2> QED BY <2>1
<1>3. \A n \in 1 .. old : s[n].index = n - 1 /\ s[n].created = 0 /\ s[n].text = <<"old", n>>
  OBVIOUS
<1>4. \A i, j \in 1 .. old : <<"old", i>> = <<"old", j>> => i = j
  OBVIOUS
<1>5. notes = LastOf(s)
  BY <1>1
<1> HIDE DEF S, s, one
<1>6. InOrder(s, old, 0)
  BY <1>2, <1>3, <1>4 DEF InOrder
<1>7. notes \in Seq(S) /\ InOrder(notes, old, 0)
  BY <1>2, <1>5, <1>6, LastOfInOrder
<1>8. seconds = 0 /\ nextNote = (IF notes = <<>> THEN 0 ELSE notes[Len(notes)].index + 1)
  BY DEF NotesInit
<1>9. nextNote \in Nat /\ InOrder(notes, nextNote, 0)
  <2>1. Len(notes) \in Nat /\ DOMAIN notes = 1 .. Len(notes)
    BY <1>7
  <2>2. CASE notes = <<>>
    BY <1>8, <2>1, <2>2 DEF InOrder
  <2>3. CASE notes # <<>>
    <3>1. Len(notes) \in DOMAIN notes
      BY <1>7, <2>1, <2>3
    <3> DEFINE last == notes[Len(notes)].index
    <3>2. last \in Nat
      BY <1>7, <3>1 DEF InOrder
    <3>3. \A i \in DOMAIN notes : notes[i].index <= last /\ notes[i].index \in Nat
      <4> SUFFICES ASSUME NEW i \in DOMAIN notes
                   PROVE  notes[i].index <= last /\ notes[i].index \in Nat
        OBVIOUS
      <4>1. i = Len(notes) \/ i < Len(notes)
        BY <2>1
      <4>2. notes[i].index \in Nat
        BY <1>7 DEF InOrder
      <4>3. CASE i < Len(notes)
        BY <1>7, <3>1, <3>2, <4>2, <4>3 DEF InOrder
      <4> QED BY <3>2, <4>1, <4>2, <4>3
    <3>4. nextNote = last + 1
      BY <1>8, <2>3
    <3> HIDE DEF last
    <3>5. \A i \in DOMAIN notes : notes[i].index < nextNote
      BY <3>2, <3>3, <3>4
    <3> QED BY <1>7, <3>2, <3>4, <3>5 DEF InOrder
  <2> QED BY <2>2, <2>3
<1>10. NotesInv
  BY <1>7, <1>8, <1>9 DEF NotesInv
<1>11. FoundInv
  <2>1. DOMAIN (found.selected \o found.rejected) = {}
    BY DEF NotesInit, NothingFound
  <2> QED BY <2>1 DEF FoundInv, InRank
<1> QED BY <1>10, <1>11

(* What no retrieval found is in order.                                     *)
LEMMA NothingFoundIs == ASSUME found' = NothingFound PROVE FoundInv'
<1>1. DOMAIN (found'.selected \o found'.rejected) = {}
  BY DEF NothingFound
<1> QED BY <1>1 DEF FoundInv, InRank

(* retrieval_view_structured selects and rejects in the order of the rank.  *)
LEMMA RetrieveFinds ==
  ASSUME NotesInv, NEW query, Retrieve(query)
  PROVE  FoundInv'
<1>1. PICK ranked \in SetToSeqs({n \in ToSet(notes) : Matches(n, query)}) :
        /\ Ranked(query, ranked)
        /\ LET room == Min({Relevant, Len(ranked)})
           IN  found' = [query |-> query, selected |-> SubSeq(ranked, 1, room),
                         rejected |-> SubSeq(ranked, room + 1, Len(ranked))]
  BY DEF Retrieve
<1> DEFINE room == Min({Relevant, Len(ranked)})
           all == SubSeq(ranked, 1, room) \o SubSeq(ranked, room + 1, Len(ranked))
<1>2. /\ Len(ranked) \in Nat /\ DOMAIN ranked = 1 .. Len(ranked)
      /\ \E S : ranked \in Seq(S)
      /\ \A i, j \in DOMAIN ranked : i < j => ranked[i].text # ranked[j].text
  BY RankedOnce
<1>3. room \in Nat /\ room <= Len(ranked)
  BY <1>2, MinOfTwo, NotesAssumptions
<1>4. found'.query = query /\ found'.selected \o found'.rejected = all
  BY <1>1
<1> HIDE DEF room
<1>5. DOMAIN all = DOMAIN ranked /\ \A i \in DOMAIN ranked : all[i] = ranked[i]
  BY <1>2, <1>3, CutInTwo
<1> HIDE DEF all
<1>6. \A i, j \in DOMAIN all : i < j =>
        /\ Above(Rank(all[i], query), Rank(all[j], query))
        /\ all[i].text # all[j].text
  BY <1>1, <1>2, <1>5 DEF Ranked
<1> QED BY <1>4, <1>6 DEF FoundInv, InRank

(* Every step of a session keeps its notes in order.                        *)
LEMMA NotesStep ==
  ASSUME NotesInv, FoundInv, [NotesNext]_notesVars
  PROVE  NotesInv' /\ FoundInv'
<1>1. ASSUME NEW what, NEW tags, NEW words, AppendNote(what, tags, words), seconds' = seconds
      PROVE  NotesInv'
  BY <1>1, AppendNoteInOrder DEF NotesInv
<1>2. ASSUME NEW f \in NoteFiles, ReadNoted(f) PROVE NotesInv' /\ FoundInv'
  BY <1>1, <1>2, NothingFoundIs DEF ReadNoted
<1>3. ASSUME NEW s, NEW paths, TroubleNoted(s, paths)
      PROVE  NotesInv' /\ FoundInv'
  BY <1>1, <1>3, NothingFoundIs DEF TroubleNoted
<1>4. ASSUME NEW f, NEW r, FileChanges(f, r) PROVE NotesInv' /\ FoundInv'
  BY <1>4, NothingFoundIs DEF FileChanges, NotesInv
<1>5. CASE Tick
  <2>1. seconds' \in Nat /\ seconds <= seconds' /\ notes' = notes /\ nextNote' = nextNote
    BY <1>5 DEF Tick, NotesInv
  <2>2. InOrder(notes, nextNote, seconds')
    BY <2>1, LaterInOrder DEF NotesInv
  <2>3. NotesInv'
    BY <2>1, <2>2 DEF NotesInv
  <2> QED BY <1>5, <2>3, NothingFoundIs DEF Tick
<1>6. ASSUME NEW query, Retrieve(query) PROVE NotesInv' /\ FoundInv'
  <2>1. NotesInv'
    BY <1>6 DEF Retrieve, NotesInv
  <2> QED BY <1>6, <2>1, RetrieveFinds
<1>7. CASE UNCHANGED notesVars
  <2>1. nextNote' = nextNote /\ seconds' = seconds /\ notes' = notes /\ found' = found
    BY <1>7 DEF notesVars
  <2>2. NotesInv'
    BY <2>1 DEF NotesInv
  <2>3. FoundInv'
    BY <2>1 DEF FoundInv
  <2> QED BY <2>2, <2>3
<1> QED BY <1>2, <1>3, <1>4, <1>5, <1>6, <1>7 DEF NotesNext

(* A session never says the same note twice, numbers its notes in the order *)
(* they were made in and never gives a number twice, whatever it read,      *)
(* however many notes it forgot; and what it shows a prompt is the best of  *)
(* the notes that match, in order (features/memory.py append_note,          *)
(* normalize_memory_state, retrieval_view_structured).                      *)
THEOREM NotesAreSaidOnce == NotesSpec => []NotesAreSound
<1>1. NotesInv /\ FoundInv => NotesAreSound
  BY DEF NotesInv, FoundInv, InRank, InOrder, NotesAreSound
<1> QED BY <1>1, NotesInitInv, NotesStep, PTL DEF NotesSpec

(* The last notes of a list are no more than the limit.                     *)
LEMMA LastOfBounds ==
  ASSUME NEW S, NEW s \in Seq(S)
  PROVE  Len(LastOf(s)) <= NoteLimit
<1> DEFINE m == Min({Len(s), NoteLimit})
           a == Len(s) - m + 1
<1>1. Len(s) \in Nat /\ NoteLimit \in Nat
  BY NotesAssumptions
<1>2. m \in Nat /\ m <= Len(s) /\ m <= NoteLimit
  BY <1>1, MinOfTwo
<1>3. LastOf(s) = SubSeq(s, a, Len(s))
  BY DEF LastOf
<1> HIDE DEF m
<1>4. a \in 1 .. (Len(s) + 1) /\ Len(s) \in (a - 1) .. Len(s) /\ Len(s) - a + 1 = m
  BY <1>1, <1>2
<1> HIDE DEF a
<1>5. Len(SubSeq(s, a, Len(s))) = m
  BY <1>4, SubSeqProperties
<1> QED BY <1>2, <1>3, <1>5

(* The notes of a session stay within their limits (NotesTypeOK).           *)
LEMMA NotesTypes ==
  /\ NotesInit => NotesTypeOK
  /\ NotesInv /\ NotesTypeOK /\ [NotesNext]_notesVars => NotesTypeOK'
<1>1. /\ NoteLimit \in Nat /\ Relevant \in Nat /\ MaxNotes \in Nat /\ MaxSeconds \in Nat
      /\ MaxNotes >= 2 /\ NoteLimit > 0
  BY NotesAssumptions
<1>2. Len(NothingFound.selected) = 0
  BY DEF NothingFound
<1>3. ASSUME NotesInit PROVE NotesTypeOK
  <2>1. PICK old \in 0 .. 2 :
          notes = LastOf([n \in 1 .. old |->
            [text |-> <<"old", n>>, tags |-> {}, words |-> NoteFiles, created |-> 0,
             index |-> n - 1]])
    BY <1>3 DEF NotesInit
  <2> DEFINE one(n) == [text |-> <<"old", n>>, tags |-> {}, words |-> NoteFiles, created |-> 0,
                        index |-> n - 1]
             s == [n \in 1 .. old |-> one(n)]
             S == {one(n) : n \in 1 .. old}
  <2>2. s \in [1 .. old -> S] /\ \A n \in 1 .. old : s[n].index = n - 1
    OBVIOUS
  <2>3. s \in Seq(S) /\ Len(s) = old
    <3> HIDE DEF s, S
    <3> QED BY <2>2, SeqDef
  <2>4. notes = LastOf(s)
    BY <2>1
  <2> HIDE DEF s, S
  <2>5. Len(notes) <= NoteLimit /\ Within(s, notes) /\ notes \in Seq(S)
    BY <2>3, <2>4, LastOfBounds, LastOfIs
  <2>6. nextNote \in 0 .. MaxNotes
    <3>1. CASE notes = <<>>
      BY <1>1, <1>3, <3>1 DEF NotesInit
    <3>2. CASE notes # <<>>
      <4>1. Len(notes) \in DOMAIN notes
        BY <2>5, <3>2
      <4>2. PICK k \in DOMAIN s : notes[Len(notes)] = s[k]
        BY <2>5, <4>1 DEF Within
      <4>3. k \in 1 .. old /\ s[k].index = k - 1
        BY <2>2, <4>2
      <4>4. nextNote = k
        BY <1>3, <3>2, <4>2, <4>3 DEF NotesInit
      <4> QED BY <1>1, <4>3, <4>4
    <3> QED BY <3>1, <3>2
  <2>7. contents \in [NoteFiles -> Readings] /\ seconds = 0 /\ found = NothingFound
    BY <1>3 DEF NotesInit
  <2> QED BY <1>1, <1>2, <2>5, <2>6, <2>7 DEF NotesTypeOK
<1>4. ASSUME NotesInv, NotesTypeOK, [NotesNext]_notesVars PROVE NotesTypeOK'
  <2> USE <1>4 DEF NotesTypeOK
  <2>1. ASSUME NEW what, NEW tags, NEW words, AppendNote(what, tags, words)
        PROVE  Len(notes') <= NoteLimit /\ nextNote' \in 0 .. MaxNotes
    <3>1. PICK S : notes \in Seq(S)
      BY DEF NotesInv
    <3> DEFINE new == Note(what, tags, words, nextNote)
               longer == Append(SaidOnce(notes, what), new)
    <3>2. SaidOnce(notes, what) \in Seq(S)
      BY <3>1, SaidOnceIs
    <3>3. longer \in Seq(S \cup {new})
      <4> HIDE DEF new
      <4>1. SaidOnce(notes, what) \in Seq(S \cup {new})
        BY <3>2
      <4> QED BY <4>1
    <3>4. notes' = LastOf(longer)
      BY <2>1 DEF AppendNote
    <3> HIDE DEF longer, new
    <3>5. Len(notes') <= NoteLimit
      BY <3>3, <3>4, LastOfBounds
    <3> QED BY <1>1, <2>1, <3>5 DEF AppendNote
  <2>2. ASSUME NEW f \in NoteFiles, ReadNoted(f) PROVE NotesTypeOK'
    <3>1. Len(notes') <= NoteLimit /\ nextNote' \in 0 .. MaxNotes
      BY <2>1, <2>2 DEF ReadNoted
    <3> QED BY <1>1, <1>2, <2>2, <3>1 DEF ReadNoted
  <2>3. ASSUME NEW s, NEW paths, TroubleNoted(s, paths) PROVE NotesTypeOK'
    <3>1. Len(notes') <= NoteLimit /\ nextNote' \in 0 .. MaxNotes
      BY <2>1, <2>3 DEF TroubleNoted
    <3> QED BY <1>1, <1>2, <2>3, <3>1 DEF TroubleNoted
  <2>4. ASSUME NEW f \in NoteFiles, NEW r \in Readings, FileChanges(f, r) PROVE NotesTypeOK'
    BY <1>1, <1>2, <2>4 DEF FileChanges
  <2>5. CASE Tick
    BY <1>1, <1>2, <2>5 DEF Tick
  <2>6. ASSUME NEW query, Retrieve(query) PROVE NotesTypeOK'
    <3>1. PICK ranked \in SetToSeqs({n \in ToSet(notes) : Matches(n, query)}) :
            LET room == Min({Relevant, Len(ranked)})
            IN  found' = [query |-> query, selected |-> SubSeq(ranked, 1, room),
                          rejected |-> SubSeq(ranked, room + 1, Len(ranked))]
      BY <2>6 DEF Retrieve
    <3>2. PICK T : ranked \in Seq(T)
      BY RankedOnce
    <3> DEFINE m == Min({Relevant, Len(ranked)})
    <3>3. Len(ranked) \in Nat
      BY <3>2
    <3>4. m \in Nat /\ m <= Len(ranked) /\ m <= Relevant
      BY <1>1, <3>3, MinOfTwo
    <3>5. found'.selected = SubSeq(ranked, 1, m)
      BY <3>1
    <3> HIDE DEF m
    <3>6. 1 \in 1 .. (Len(ranked) + 1) /\ m \in (1 - 1) .. Len(ranked) /\ m - 1 + 1 = m
      BY <3>3, <3>4
    <3>7. Len(SubSeq(ranked, 1, m)) = m
      BY <3>2, <3>6, SubSeqProperties
    <3>8. Len(found'.selected) <= Relevant
      BY <3>4, <3>5, <3>7
    <3> QED BY <2>6, <3>8 DEF Retrieve
  <2>7. CASE UNCHANGED notesVars
    BY <2>7 DEF notesVars
  <2> QED BY <2>2, <2>3, <2>4, <2>5, <2>6, <2>7 DEF NotesNext
<1> QED BY <1>3, <1>4

-----------------------------------------------------------------------------
(***************************************************************************)
(* Evidence, for any versions of the sources, any chunks and any limits,   *)
(* and any number of prompts, tools and background syncs: what a prompt    *)
(* shows of the code was found in the index as it was after the last tool  *)
(* of the turn that completed, and is nothing twice, of no parent too much *)
(* and nothing that may not be shown. The first needs to know of every     *)
(* answer that is kept under which signature and whether the index,        *)
(* written since, still is the one it was found in; the second follows the *)
(* hits through the filter, the conflicts, the parents, the ranking and    *)
(* the sections, each of which takes some of them or puts one in the place *)
(* of its rivals.                                                          *)
(***************************************************************************)

(* The answers there can be.                                               *)
QueryAnswers ==
  [of : SUBSET DOMAIN Versions, hits : Seq(Ids), cited : Nat, sparse : BOOLEAN,
   rejected : SUBSET Ids]
CacheEntries == [key : {0} \cup DOMAIN Versions, answer : QueryAnswers]

EvidenceTypeInv ==
  /\ sources \in DOMAIN Versions /\ index \in DOMAIN Versions /\ seen \subseteq DOMAIN Versions
  /\ dense \in BOOLEAN /\ keyedDense \in BOOLEAN /\ key \in {0} \cup DOMAIN Versions
  /\ at \in {"turn", "synced", "keyed", "words", "searched", "shown"}
  /\ answer \in QueryAnswers /\ section \in Seq(QueryAnswers)
  /\ queries \in Seq(CacheEntries) /\ Len(queries) <= CacheSize
  /\ background \in [at : {"idle", "started", "collected", "wrote"},
                      collected : {0} \cup DOMAIN Versions]
  /\ background.at = "collected" => background.collected \in DOMAIN Versions

(* What was found under this key was found in the index of that signature, *)
(* or in the one the background thread wrote since, which stays.           *)
FoundUnder(k, of) == of \subseteq {k} \/ (dense /\ of \subseteq {index})
CachesInv ==
  /\ dense => background.at \in {"idle", "wrote"}
  /\ at \in {"synced", "keyed", "words", "searched"} =>
       index \in seen /\ (keyedDense => dense)
  /\ at \in {"keyed", "words", "searched"} =>
       key \in seen /\ (index = key \/ dense) /\ (keyedDense => index = key)
  /\ at \in {"words", "searched"} => FoundUnder(key, answer.of)
  /\ \A i \in DOMAIN queries : FoundUnder(queries[i].key, queries[i].answer.of)
  /\ section # <<>> => section[1].of \subseteq seen
  /\ at = "shown" => answer.of \subseteq seen

(* What ShownIsSound says of an answer.                                    *)
ChunksOf(of) == UNION {Versions[v] : v \in of}
Apart(hits) ==
  \A i, j \in DOMAIN hits : i # j =>
    /\ ChunkOf[hits[i]].section # ChunkOf[hits[j]].section
    /\ ChunkOf[hits[i]].key # ChunkOf[hits[j]].key
FewOfEach(chunks) ==
  \A c \in chunks : Cardinality({d \in chunks : ChunkOf[d].parent = ChunkOf[c].parent}) <= PerParent
SoundAnswer(a) ==
  /\ ToSet(a.hits) \subseteq {c \in ChunksOf(a.of) : ChunkOf[c].active}
  /\ Len(a.hits) <= FinalTop /\ a.cited <= Len(a.hits) /\ (a.cited = 0) = (a.hits = <<>>)
  /\ Apart(a.hits) /\ FewOfEach(ToSet(a.hits))

AnswersInv ==
  /\ at = "words" => ToSet(answer.hits) \subseteq ChunksOf(answer.of)
  /\ at \in {"searched", "shown"} => SoundAnswer(answer)
  /\ section # <<>> => SoundAnswer(section[1])
  /\ \A i \in DOMAIN queries : SoundAnswer(queries[i].answer)

EvidenceInv == EvidenceTypeInv /\ CachesInv /\ AnswersInv

-----------------------------------------------------------------------------
(* Chunks, each once.                                                       *)
Once(hits) == hits \in Seq(Ids) /\ \A i, j \in DOMAIN hits : i # j => hits[i] # hits[j]

(* A list of chunks and the set of those in it.                             *)
LEMMA HitsAre ==
  ASSUME NEW S, NEW hits \in Seq(S)
  PROVE  /\ Len(hits) \in Nat /\ DOMAIN hits = 1 .. Len(hits)
         /\ ToSet(hits) \subseteq S /\ IsFiniteSet(ToSet(hits))
         /\ \A i \in DOMAIN hits : hits[i] \in S /\ hits[i] \in ToSet(hits)
         /\ \A c \in ToSet(hits) : \E i \in DOMAIN hits : hits[i] = c
<1>1. Len(hits) \in Nat /\ DOMAIN hits = 1 .. Len(hits) /\ \A i \in DOMAIN hits : hits[i] \in S
  BY SeqIs
<1>2. \A c \in ToSet(hits) : \E i \in DOMAIN hits : hits[i] = c
  BY DEF ToSet
<1>3. \A i \in DOMAIN hits : hits[i] \in ToSet(hits)
  BY DEF ToSet
<1>4. IsFiniteSet(ToSet(hits))
  <2>1. IsFiniteSet(1 .. Len(hits))
    BY <1>1, FS_Interval
  <2>2. hits \in [1 .. Len(hits) -> ToSet(hits)]
    <3>1. hits = [i \in 1 .. Len(hits) |-> hits[i]]
      BY <1>1
    <3> QED BY <1>1, <1>3, <3>1
  <2>3. hits \in Surjection(1 .. Len(hits), ToSet(hits))
    BY <1>1, <1>2, <2>2 DEF Surjection
  <2> QED BY <2>1, <2>3, FS_Surjection
<1> QED BY <1>1, <1>2, <1>3, <1>4

(* What a list of chunks keeps of them is there once if they were.          *)
LEMMA OnlyOnce ==
  ASSUME NEW hits, Once(hits), NEW S
  PROVE  Once(Only(hits, S)) /\ ToSet(Only(hits, S)) = ToSet(hits) \cap S
<1> DEFINE t == Only(hits, S)
<1>1. hits \in Seq(Ids) /\ \A i, j \in DOMAIN hits : i # j => hits[i] # hits[j]
  BY DEF Once
<1>2. PICK where : Picks(hits, S, Len(hits), t, where)
  BY <1>1, OnlyPicks
<1>3. t \in Seq(Ids)
  BY <1>1, OnlyPicks
<1> HIDE DEF t
<1>4. /\ Len(t) \in Nat /\ DOMAIN t = 1 .. Len(t)
      /\ Len(hits) \in Nat /\ DOMAIN hits = 1 .. Len(hits)
  BY <1>1, <1>3, HitsAre
<1>5. ASSUME NEW i \in DOMAIN t, NEW j \in DOMAIN t, i # j PROVE t[i] # t[j]
  <2>1. where[i] \in DOMAIN hits /\ where[j] \in DOMAIN hits
        /\ t[i] = hits[where[i]] /\ t[j] = hits[where[j]]
    BY <1>2, <1>4 DEF Picks
  <2>2. i < j \/ j < i
    BY <1>4, <1>5
  <2>3. where[i] # where[j]
    <3>1. where[i] < where[j] \/ where[j] < where[i]
      BY <1>2, <1>4, <2>2 DEF Picks
    <3>2. where[i] \in Nat /\ where[j] \in Nat
      BY <1>4, <2>1
    <3> QED BY <3>1, <3>2
  <2> QED BY <1>1, <2>1, <2>3
<1>6. ToSet(t) = ToSet(hits) \cap S
  <2>1. ASSUME NEW c \in ToSet(t) PROVE c \in ToSet(hits) \cap S
    <3>1. PICK i \in DOMAIN t : t[i] = c
      BY DEF ToSet
    <3>2. where[i] \in DOMAIN hits /\ c = hits[where[i]] /\ c \in S
      BY <1>2, <1>4, <3>1 DEF Picks
    <3> QED BY <3>2 DEF ToSet
  <2>2. ASSUME NEW c \in ToSet(hits) \cap S PROVE c \in ToSet(t)
    <3>1. PICK m \in DOMAIN hits : hits[m] = c
      BY DEF ToSet
    <3>2. PICK i \in DOMAIN t : where[i] = m
      BY <1>2, <1>4, <2>2, <3>1 DEF Picks
    <3>3. t[i] = c
      BY <1>2, <1>4, <3>1, <3>2 DEF Picks
    <3> QED BY <3>2, <3>3 DEF ToSet
  <2> QED BY <2>1, <2>2
<1>7. Once(t)
  BY <1>3, <1>5 DEF Once
<1> QED BY <1>6, <1>7 DEF t

(* The hits at the kept places are those, in their order.                   *)
LEMMA AtPlacesIs ==
  ASSUME NEW hits \in Seq(Ids), NEW kept \in SUBSET DOMAIN hits
  PROVE  /\ AtPlaces(hits, kept) \in Seq(Ids)
         /\ \E where \in [DOMAIN AtPlaces(hits, kept) -> kept] :
              /\ \A i, j \in DOMAIN AtPlaces(hits, kept) : i < j => where[i] < where[j]
              /\ \A i \in DOMAIN AtPlaces(hits, kept) : AtPlaces(hits, kept)[i] = hits[where[i]]
              /\ \A m \in kept : \E i \in DOMAIN AtPlaces(hits, kept) : where[i] = m
<1> DEFINE numbers == [i \in DOMAIN hits |-> i]
           order == Only(numbers, kept)
<1>1. Len(hits) \in Nat /\ DOMAIN hits = 1 .. Len(hits) /\ \A i \in DOMAIN hits : hits[i] \in Ids
  BY SeqIs
<1>2. numbers \in Seq(Nat) /\ Len(numbers) = Len(hits) /\ DOMAIN numbers = DOMAIN hits
      /\ \A i \in DOMAIN hits : numbers[i] = i
  BY <1>1
<1> HIDE DEF numbers
<1>3. order \in Seq(Nat)
  BY <1>2, OnlyPicks
<1>4. PICK where : Picks(numbers, kept, Len(hits), order, where)
  BY <1>2, OnlyPicks
<1>5. AtPlaces(hits, kept) = [n \in DOMAIN order |-> hits[order[n]]]
  BY DEF AtPlaces, numbers
<1> HIDE DEF order
<1>6. Len(order) \in Nat /\ DOMAIN order = 1 .. Len(order)
  BY <1>3, SeqIs
<1>7. \A i \in DOMAIN order : where[i] \in DOMAIN hits /\ order[i] = where[i] /\ order[i] \in kept
  BY <1>1, <1>2, <1>4, <1>6 DEF Picks
<1>8. AtPlaces(hits, kept) \in Seq(Ids) /\ DOMAIN AtPlaces(hits, kept) = DOMAIN order
  <2>1. \A n \in DOMAIN order : hits[order[n]] \in Ids
    BY <1>1, <1>7
  <2> QED BY <1>5, <1>6, <2>1
<1>9. order \in [DOMAIN order -> kept]
  <2>1. order = [i \in DOMAIN order |-> order[i]]
    BY <1>3, <1>6
  <2> QED BY <1>7, <2>1
<1>10. \A i, j \in DOMAIN order : i < j => order[i] < order[j]
  BY <1>4, <1>6, <1>7 DEF Picks
<1>11. \A m \in kept : \E i \in DOMAIN order : order[i] = m
  BY <1>1, <1>2, <1>4, <1>6, <1>7 DEF Picks
<1>12. \A i \in DOMAIN order : AtPlaces(hits, kept)[i] = hits[order[i]]
  BY <1>5
<1> QED BY <1>8, <1>9, <1>10, <1>11, <1>12

(* So they are there once, no more and no others.                           *)
LEMMA AtOnce ==
  ASSUME NEW hits, Once(hits), NEW kept \in SUBSET DOMAIN hits
  PROVE  /\ Once(AtPlaces(hits, kept)) /\ ToSet(AtPlaces(hits, kept)) \subseteq ToSet(hits)
         /\ Len(AtPlaces(hits, kept)) <= Len(hits)
         /\ kept # {} => AtPlaces(hits, kept) # <<>>
<1> DEFINE t == AtPlaces(hits, kept)
<1>1. hits \in Seq(Ids) /\ \A i, j \in DOMAIN hits : i # j => hits[i] # hits[j]
  BY DEF Once
<1>2. t \in Seq(Ids)
  BY <1>1, AtPlacesIs
<1>3. PICK where \in [DOMAIN t -> kept] :
        /\ \A i, j \in DOMAIN t : i < j => where[i] < where[j]
        /\ \A i \in DOMAIN t : t[i] = hits[where[i]]
        /\ \A m \in kept : \E i \in DOMAIN t : where[i] = m
  BY <1>1, AtPlacesIs
<1> HIDE DEF t
<1>4. /\ Len(t) \in Nat /\ DOMAIN t = 1 .. Len(t)
      /\ Len(hits) \in Nat /\ DOMAIN hits = 1 .. Len(hits)
  BY <1>1, <1>2, SeqIs
<1>5. \A i \in DOMAIN t : where[i] \in DOMAIN hits /\ where[i] \in Nat /\ where[i] \in kept
  BY <1>3, <1>4
<1>6. ASSUME NEW i \in DOMAIN t, NEW j \in DOMAIN t, i # j PROVE t[i] # t[j]
  <2>1. i < j \/ j < i
    BY <1>4, <1>6
  <2>2. where[i] # where[j]
    BY <1>3, <1>5, <2>1
  <2> QED BY <1>1, <1>3, <1>5, <2>2
<1>7. ToSet(t) \subseteq ToSet(hits)
  BY <1>3, <1>5 DEF ToSet
<1>8. Len(t) <= Len(hits)
  <2>1. where \in [1 .. Len(t) -> 1 .. Len(hits)]
    BY <1>3, <1>4
  <2> QED BY <1>3, <1>4, <2>1, ClimbsWithin
<1>9. kept # {} => t # <<>>
  BY <1>3, <1>4
<1>10. Once(t)
  BY <1>2, <1>6 DEF Once
<1> QED BY <1>7, <1>8, <1>9, <1>10 DEF t

(* The first hits of a list.                                                *)
LEMMA FirstHitsAre ==
  ASSUME NEW hits, Once(hits), NEW n \in Nat
  PROVE  /\ Once(FirstHits(hits, n)) /\ ToSet(FirstHits(hits, n)) \subseteq ToSet(hits)
         /\ Len(FirstHits(hits, n)) <= n
<1> DEFINE m == Min({n, Len(hits)})
           t == SubSeq(hits, 1, m)
<1>1. hits \in Seq(Ids) /\ \A i, j \in DOMAIN hits : i # j => hits[i] # hits[j]
  BY DEF Once
<1>2. Len(hits) \in Nat /\ DOMAIN hits = 1 .. Len(hits)
  BY <1>1, SeqIs
<1>3. m \in 0 .. Len(hits) /\ m <= n
  <2> DEFINE l == Len(hits)
  <2>1. l \in Nat
    BY <1>2
  <2>2. m = IF n <= l THEN n ELSE l
    BY <2>1, MinOfTwo
  <2> HIDE DEF m, l
  <2>3. m \in 0 .. l /\ m <= n
    BY <2>1, <2>2
  <2> QED BY <2>3 DEF l
<1>4. FirstHits(hits, n) = t
  BY DEF FirstHits
<1> HIDE DEF m
<1>5. t \in Seq(Ids) /\ Len(t) = m /\ \A i \in 1 .. m : t[i] = hits[i]
  BY <1>1, <1>3, PrefixIs
<1> HIDE DEF t
<1>6. DOMAIN t = 1 .. m /\ \A i \in DOMAIN t : i \in DOMAIN hits
  <2>1. DOMAIN t = 1 .. m
    BY <1>5, SeqIs
  <2> QED BY <1>2, <1>3, <2>1
<1>7. \A i, j \in DOMAIN t : i # j => t[i] # t[j]
  BY <1>1, <1>5, <1>6
<1>8. ToSet(t) \subseteq ToSet(hits)
  BY <1>5, <1>6 DEF ToSet
<1> QED BY <1>3, <1>4, <1>5, <1>7, <1>8 DEF Once

-----------------------------------------------------------------------------
(* No two of these chunks have one conflict key.                            *)
KeysApart(chunks) == \A c, d \in chunks : c # d => ChunkOf[c].key # ChunkOf[d].key

(* A list of some chunks, each once.                                        *)
LEMMA PermutedOnce ==
  ASSUME NEW S \in SUBSET Ids, IsFiniteSet(S), NEW ranked \in SetToSeqs(S)
  PROVE  Once(ranked) /\ ToSet(ranked) \subseteq S
<1> DEFINE c == Cardinality(S)
<1>1. ranked \in {f \in [1 .. c -> S] : \A i, j \in 1 .. c : i # j => f[i] # f[j]}
  BY DEF SetToSeqs
<1>2. c \in Nat
  BY FS_CardinalityType
<1> HIDE DEF c
<1>3. ranked \in [1 .. c -> S] /\ \A i, j \in 1 .. c : i # j => ranked[i] # ranked[j]
  BY <1>1
<1>4. ranked \in Seq(Ids) /\ ranked \in Seq(S)
  <2>1. ranked \in [1 .. c -> Ids]
    BY <1>3
  <2> QED BY <1>2, <1>3, <2>1, SeqDef
<1>5. DOMAIN ranked = 1 .. c
  BY <1>3
<1> QED BY <1>3, <1>4, <1>5, HitsAre DEF Once

(* The fusion has what the channels found, each once.                       *)
LEMMA FusedOnce ==
  ASSUME NEW sparse \in Seq(Ids), NEW vector \in Seq(Ids), NEW fused \in Fusions(sparse, vector)
  PROVE  Once(fused) /\ ToSet(fused) \subseteq ToSet(sparse) \cup ToSet(vector)
<1> DEFINE S == ToSet(sparse) \cup ToSet(vector)
<1>1. S \in SUBSET Ids /\ IsFiniteSet(S)
  <2>1. /\ ToSet(sparse) \subseteq Ids /\ IsFiniteSet(ToSet(sparse))
        /\ ToSet(vector) \subseteq Ids /\ IsFiniteSet(ToSet(vector))
    BY HitsAre
  <2> QED BY <2>1, FS_Union
<1>2. fused \in SetToSeqs(S)
  BY DEF Fusions
<1> HIDE DEF S
<1>3. Once(fused) /\ ToSet(fused) \subseteq S
  BY <1>1, <1>2, PermutedOnce
<1> QED BY <1>3 DEF S

(* The rivals of a chunk are those of its key, itself among them.           *)
LEMMA RivalsAre ==
  ASSUME NEW fused, Once(fused), NEW c \in ToSet(fused)
  PROVE  /\ Rivals(fused, c) \in Seq(Ids) /\ Rivals(fused, c) # <<>>
         /\ \A d \in ToSet(Rivals(fused, c)) : d \in ToSet(fused) /\ ChunkOf[d].key = ChunkOf[c].key
<1> DEFINE same == {d \in Ids : ChunkOf[d].key = ChunkOf[c].key}
           rivals == Only(fused, same)
<1>1. fused \in Seq(Ids)
  BY DEF Once
<1>2. c \in Ids
  BY <1>1, HitsAre
<1>3. c \in ToSet(fused) \cap same
  BY <1>2
<1>4. Once(rivals) /\ ToSet(rivals) = ToSet(fused) \cap same
  BY OnlyOnce
<1>5. \A d \in ToSet(rivals) : d \in ToSet(fused) /\ ChunkOf[d].key = ChunkOf[c].key
  BY <1>4
<1>6. Rivals(fused, c) = rivals
  BY DEF Rivals
<1> HIDE DEF same, rivals
<1>7. rivals # <<>>
  BY <1>3, <1>4 DEF ToSet
<1> QED BY <1>4, <1>5, <1>6, <1>7 DEF Once

(* Of two rivals one is preferred.                                          *)
LEMMA PreferredIs ==
  ASSUME NEW c, NEW d
  PROVE  Preferred(c, d) \in {c, d}
<1>1. CASE ChunkOf[d].supersedes = c
  BY <1>1 DEF Preferred
<1>2. CASE ChunkOf[d].supersedes # c /\ ChunkOf[c].supersedes = d
  BY <1>2 DEF Preferred
<1>3. CASE ChunkOf[d].supersedes # c /\ ChunkOf[c].supersedes # d
  BY <1>3 DEF Preferred
<1> QED BY <1>1, <1>2, <1>3

(* The winner is one of the rivals.                                         *)
LEMMA WinnerIs ==
  ASSUME NEW rivals \in Seq(Ids), rivals # <<>>
  PROVE  Winner(rivals) \in ToSet(rivals)
<1> DEFINE n == Len(rivals) - 1
           against == [m \in 1 .. n |-> [c \in Ids |-> Preferred(c, rivals[m + 1])]]
<1>1. /\ Len(rivals) \in Nat /\ DOMAIN rivals = 1 .. Len(rivals) /\ Len(rivals) # 0
      /\ \A i \in DOMAIN rivals : rivals[i] \in Ids /\ rivals[i] \in ToSet(rivals)
  BY HitsAre
<1>2. /\ n \in Nat /\ 1 \in DOMAIN rivals /\ \A m \in 1 .. n : m + 1 \in DOMAIN rivals
  BY <1>1
<1>3. Winner(rivals) = Loop(rivals[1], against, n)
  BY DEF Winner
<1> HIDE DEF n
<1>4. ASSUME NEW m \in 1 .. n, NEW c \in Ids PROVE Preferred(c, rivals[m + 1]) \in Ids
  <2>1. Preferred(c, rivals[m + 1]) \in {c, rivals[m + 1]}
    BY PreferredIs
  <2> QED BY <1>1, <1>2, <2>1
<1>5. against \in [1 .. n -> [Ids -> Ids]]
  BY <1>4
<1>6. \A m \in 1 .. n : \A c \in Ids : against[m][c] = Preferred(c, rivals[m + 1])
  OBVIOUS
<1> HIDE DEF against
<1>7. rivals[1] \in Ids
  BY <1>1, <1>2
<1>8. PICK t : Rounds(rivals[1], against, n, t) /\ Loop(rivals[1], against, n) = t[n]
  BY <1>2, LoopIsRound
<1>9. t[0] = rivals[1] /\ \A i \in 1 .. n : t[i] = against[i][t[i - 1]]
  BY <1>2, <1>8 DEF Rounds
<1> DEFINE R == {i \in 0 .. n : t[i] \in ToSet(rivals)}
<1>10. 0 \in R
  BY <1>1, <1>2, <1>9
<1>11. ASSUME NEW i \in 0 .. n, i \in R, i < n PROVE i + 1 \in R
  <2>1. i + 1 \in 1 .. n /\ i + 1 \in 0 .. n /\ (i + 1) - 1 = i
    BY <1>2, <1>11
  <2>2. t[i] \in Ids /\ t[i] \in ToSet(rivals)
    BY <1>11, HitsAre
  <2>3. t[i + 1] = Preferred(t[i], rivals[(i + 1) + 1])
    <3>1. t[i + 1] = against[i + 1][t[i]]
      BY <1>9, <2>1
    <3> QED BY <1>6, <2>1, <2>2, <3>1
  <2>4. t[i + 1] \in {t[i], rivals[(i + 1) + 1]}
    BY <2>3, PreferredIs
  <2> QED BY <1>1, <1>2, <2>1, <2>2, <2>4
<1>12. 0 .. n \subseteq R
  <2> HIDE DEF R
  <2> QED BY <1>2, <1>10, <1>11, BoundedInduction
<1> QED BY <1>2, <1>3, <1>8, <1>12

(* Of each key one chunk is left.                                           *)
LEMMA ResolvedIs ==
  ASSUME NEW fused, Once(fused)
  PROVE  /\ Once(Resolved(fused)) /\ ToSet(Resolved(fused)) \subseteq ToSet(fused)
         /\ KeysApart(ToSet(Resolved(fused)))
<1> DEFINE first == {c \in ToSet(fused) : Rivals(fused, c)[1] = c}
           firsts == Only(fused, first)
           won == [i \in DOMAIN firsts |-> Winner(Rivals(fused, firsts[i]))]
<1>1. Once(firsts) /\ ToSet(firsts) = ToSet(fused) \cap first
  BY OnlyOnce
<1>2. Resolved(fused) = won
  BY DEF Resolved
<1>3. \A c \in ToSet(firsts) : c \in ToSet(fused) /\ Rivals(fused, c)[1] = c
  BY <1>1
<1> HIDE DEF first, firsts
<1>4. firsts \in Seq(Ids) /\ \A i, j \in DOMAIN firsts : i # j => firsts[i] # firsts[j]
  BY <1>1 DEF Once
<1>5. /\ Len(firsts) \in Nat /\ DOMAIN firsts = 1 .. Len(firsts)
      /\ \A i \in DOMAIN firsts : firsts[i] \in ToSet(firsts)
  BY <1>4, HitsAre
<1>6. ASSUME NEW i \in DOMAIN firsts
      PROVE  won[i] \in ToSet(fused) /\ ChunkOf[won[i]].key = ChunkOf[firsts[i]].key
  <2>1. firsts[i] \in ToSet(fused)
    BY <1>3, <1>5
  <2> DEFINE rivals == Rivals(fused, firsts[i])
  <2>2. rivals \in Seq(Ids) /\ rivals # <<>>
        /\ \A d \in ToSet(rivals) : d \in ToSet(fused) /\ ChunkOf[d].key = ChunkOf[firsts[i]].key
    BY <2>1, RivalsAre
  <2>3. won[i] = Winner(rivals)
    OBVIOUS
  <2> HIDE DEF rivals, won
  <2> QED BY <2>2, <2>3, WinnerIs
<1>7. ASSUME NEW i \in DOMAIN firsts, NEW j \in DOMAIN firsts, i # j
      PROVE  ChunkOf[won[i]].key # ChunkOf[won[j]].key
  <2>1. SUFFICES ASSUME ChunkOf[firsts[i]].key = ChunkOf[firsts[j]].key PROVE FALSE
    BY <1>6
  <2>2. Rivals(fused, firsts[i]) = Rivals(fused, firsts[j])
    BY <2>1 DEF Rivals
  <2>3. firsts[i] = firsts[j]
    BY <1>3, <1>5, <2>2
  <2> QED BY <1>4, <1>7, <2>3
<1>8. \A c \in ToSet(fused) : c \in Ids
  BY HitsAre DEF Once
<1>9. won \in Seq(Ids) /\ DOMAIN won = DOMAIN firsts
  <2>1. \A i \in DOMAIN firsts : Winner(Rivals(fused, firsts[i])) \in Ids
    BY <1>6, <1>8
  <2> QED BY <1>5, <2>1
<1> HIDE DEF won
<1>10. Once(won)
  BY <1>7, <1>9 DEF Once
<1>11. ToSet(won) \subseteq ToSet(fused)
  BY <1>6, <1>9 DEF ToSet
<1>12. KeysApart(ToSet(won))
  <2> SUFFICES ASSUME NEW c \in ToSet(won), NEW d \in ToSet(won), c # d
               PROVE  ChunkOf[c].key # ChunkOf[d].key
    BY DEF KeysApart
  <2>1. PICK i \in DOMAIN won, j \in DOMAIN won : won[i] = c /\ won[j] = d
    BY DEF ToSet
  <2> QED BY <1>7, <1>9, <2>1
<1> QED BY <1>2, <1>10, <1>11, <1>12

-----------------------------------------------------------------------------
(* At most PerParent of the kept places are of one parent.                  *)
LEMMA FewPlaces ==
  ASSUME NEW hits \in Seq(Ids), NEW c, NEW K \in SUBSET DOMAIN hits,
         \A i \in K : /\ Cardinality(Siblings(hits, i)) < PerParent
                      /\ ChunkOf[hits[i]].parent = ChunkOf[c].parent
  PROVE  IsFiniteSet(K) /\ Cardinality(K) <= PerParent
<1>1. Len(hits) \in Nat /\ DOMAIN hits = 1 .. Len(hits)
  BY SeqIs
<1>2. IsFiniteSet(K)
  <2>1. IsFiniteSet(1 .. Len(hits))
    BY <1>1, FS_Interval
  <2> QED BY <1>1, <2>1, FS_Subset
<1>3. PerParent \in Nat
  BY EvidenceAssumptions
<1>4. CASE K = {}
  BY <1>2, <1>3, <1>4, FS_EmptySet
<1>5. CASE K # {}
  <2>1. PICK m \in K : \A i \in K : i <= m
    <3>1. K \subseteq Nat /\ \A i \in K : i <= Len(hits)
      BY <1>1
    <3> QED BY <1>1, <1>5, <3>1, GreatestMember
  <2> DEFINE before == Siblings(hits, m)
  <2>2. m \in Nat /\ \A i \in K \ {m} : i \in 1 .. (m - 1)
    BY <1>1, <2>1
  <2>3. before = {j \in 1 .. (m - 1) : ChunkOf[hits[j]].parent = ChunkOf[hits[m]].parent}
    BY DEF Siblings
  <2>4. K \ {m} \subseteq before
    BY <2>1, <2>2, <2>3
  <2>5. IsFiniteSet(before)
    <3>1. IsFiniteSet(1 .. (m - 1))
      BY <2>2, FS_Interval
    <3> QED BY <2>3, <3>1, FS_Subset
  <2>6. Cardinality(before) < PerParent
    BY <2>1
  <2> HIDE DEF before
  <2>7. Cardinality(K \ {m}) <= Cardinality(before) /\ IsFiniteSet(K \ {m})
    BY <2>4, <2>5, FS_Subset
  <2>8. Cardinality(K \ {m}) = Cardinality(K) - 1
    BY <1>2, <2>1, FS_RemoveElement
  <2>9. Cardinality(K) \in Nat /\ Cardinality(before) \in Nat /\ Cardinality(K \ {m}) \in Nat
    BY <1>2, <2>5, <2>7, FS_CardinalityType
  <2>10. Cardinality(K) <= PerParent
    BY <1>3, <2>6, <2>7, <2>8, <2>9
  <2> QED BY <1>2, <2>10
<1> QED BY <1>4, <1>5

(* Some of a set of which no parent has too many.                           *)
LEMMA FewerOfEach ==
  ASSUME NEW chunks, IsFiniteSet(chunks), FewOfEach(chunks), NEW some \in SUBSET chunks
  PROVE  FewOfEach(some)
<1> SUFFICES ASSUME NEW c \in some
             PROVE  Cardinality({d \in some : ChunkOf[d].parent = ChunkOf[c].parent}) <= PerParent
  BY DEF FewOfEach
<1> DEFINE S == {d \in chunks : ChunkOf[d].parent = ChunkOf[c].parent}
           T == {d \in some : ChunkOf[d].parent = ChunkOf[c].parent}
<1>1. Cardinality(S) <= PerParent
  BY DEF FewOfEach
<1>2. IsFiniteSet(S) /\ T \subseteq S
  BY FS_Subset
<1> HIDE DEF S, T
<1>3. Cardinality(T) <= Cardinality(S) /\ IsFiniteSet(T)
  BY <1>2, FS_Subset
<1>4. Cardinality(T) \in Nat /\ Cardinality(S) \in Nat /\ PerParent \in Nat
  BY <1>2, <1>3, FS_CardinalityType, EvidenceAssumptions
<1>5. Cardinality(T) <= PerParent
  BY <1>1, <1>3, <1>4
<1> QED BY <1>5 DEF T

(* What is left of each parent, and of what.                                *)
LEMMA DeduplicatedIs ==
  ASSUME NEW hits, Once(hits)
  PROVE  /\ Once(Deduplicated(hits)) /\ ToSet(Deduplicated(hits)) \subseteq ToSet(hits)
         /\ FewOfEach(ToSet(Deduplicated(hits)))
<1> DEFINE kept == {i \in DOMAIN hits : Cardinality(Siblings(hits, i)) < PerParent}
           t == AtPlaces(hits, kept)
<1>1. hits \in Seq(Ids) /\ kept \in SUBSET DOMAIN hits
  BY DEF Once
<1>2. Once(t) /\ ToSet(t) \subseteq ToSet(hits)
  BY <1>1, AtOnce
<1>3. PICK where \in [DOMAIN t -> kept] : \A i \in DOMAIN t : t[i] = hits[where[i]]
  BY <1>1, AtPlacesIs
<1>4. CoarseTop \in Nat /\ PerParent \in Nat
  BY EvidenceAssumptions
<1>5. FewOfEach(ToSet(t))
  <2> SUFFICES ASSUME NEW c \in ToSet(t)
               PROVE  Cardinality({d \in ToSet(t) :
                              ChunkOf[d].parent = ChunkOf[c].parent}) <= PerParent
    BY DEF FewOfEach
  <2> DEFINE K == {i \in kept : ChunkOf[hits[i]].parent = ChunkOf[c].parent
                                /\ hits[i] \in ToSet(t)}
             D == {d \in ToSet(t) : ChunkOf[d].parent = ChunkOf[c].parent}
             f == [i \in K |-> hits[i]]
  <2>1. /\ K \in SUBSET DOMAIN hits
        /\ \A i \in K : /\ Cardinality(Siblings(hits, i)) < PerParent
                        /\ ChunkOf[hits[i]].parent = ChunkOf[c].parent
    OBVIOUS
  <2>2. \A i \in K : hits[i] \in D
    OBVIOUS
  <2>3. \A d \in D : \E i \in K : hits[i] = d
    <3> SUFFICES ASSUME NEW d \in D PROVE \E i \in K : hits[i] = d
      OBVIOUS
    <3>1. PICK i \in DOMAIN t : t[i] = d
      BY DEF ToSet
    <3>2. where[i] \in kept /\ hits[where[i]] = d
      BY <1>3, <3>1
    <3> QED BY <3>2
  <2> HIDE DEF K, D
  <2>4. f \in Surjection(K, D)
    <3>1. f \in [K -> D]
      BY <2>2
    <3> QED BY <2>3, <3>1 DEF Surjection
  <2>5. IsFiniteSet(K) /\ Cardinality(K) <= PerParent
    BY <1>1, <2>1, FewPlaces
  <2> HIDE DEF f
  <2>6. IsFiniteSet(D) /\ Cardinality(D) <= Cardinality(K)
    BY <2>4, <2>5, FS_Surjection
  <2>7. Cardinality(D) \in Nat /\ Cardinality(K) \in Nat
    BY <2>5, <2>6, FS_CardinalityType
  <2>8. Cardinality(D) <= PerParent
    BY <1>4, <2>5, <2>6, <2>7
  <2> QED BY <2>8 DEF D
<1>6. Deduplicated(hits) = FirstHits(t, CoarseTop)
  BY DEF Deduplicated
<1> HIDE DEF t
<1>7. /\ Once(FirstHits(t, CoarseTop)) /\ ToSet(FirstHits(t, CoarseTop)) \subseteq ToSet(t)
  BY <1>2, <1>4, FirstHitsAre
<1>8. IsFiniteSet(ToSet(t))
  BY <1>2, HitsAre DEF Once
<1>9. FewOfEach(ToSet(FirstHits(t, CoarseTop)))
  BY <1>5, <1>7, <1>8, FewerOfEach
<1> QED BY <1>2, <1>6, <1>7, <1>9

(* One entry for a section.                                                 *)
LEMMA ExpandedIs ==
  ASSUME NEW hits, Once(hits)
  PROVE  /\ Once(Expanded(hits)) /\ ToSet(Expanded(hits)) \subseteq ToSet(hits)
         /\ Len(Expanded(hits)) <= Len(hits)
         /\ \A i, j \in DOMAIN Expanded(hits) : i # j =>
              ChunkOf[Expanded(hits)[i]].section # ChunkOf[Expanded(hits)[j]].section
<1> DEFINE kept == {i \in DOMAIN hits : ~ Again(hits, i)}
           t == AtPlaces(hits, kept)
<1>1. hits \in Seq(Ids) /\ kept \in SUBSET DOMAIN hits
  BY DEF Once
<1>2. Once(t) /\ ToSet(t) \subseteq ToSet(hits) /\ Len(t) <= Len(hits)
  BY <1>1, AtOnce
<1>3. PICK where \in [DOMAIN t -> kept] :
        /\ \A i, j \in DOMAIN t : i < j => where[i] < where[j]
        /\ \A i \in DOMAIN t : t[i] = hits[where[i]]
  BY <1>1, AtPlacesIs
<1>4. Expanded(hits) = t
  BY DEF Expanded
<1>5. \A i \in kept : i \in DOMAIN hits /\ ~ Again(hits, i)
  OBVIOUS
<1> HIDE DEF t, kept
<1>6. /\ Len(t) \in Nat /\ DOMAIN t = 1 .. Len(t)
      /\ Len(hits) \in Nat /\ DOMAIN hits = 1 .. Len(hits)
  BY <1>1, <1>2, SeqIs DEF Once
<1>7. ASSUME NEW i \in DOMAIN t, NEW j \in DOMAIN t, i < j
      PROVE  ChunkOf[t[i]].section # ChunkOf[t[j]].section
  <2>1. where[i] < where[j] /\ where[i] \in 1 .. Len(hits) /\ where[j] \in 1 .. Len(hits)
    BY <1>3, <1>5, <1>6, <1>7
  <2>2. where[i] \in 1 .. (where[j] - 1)
    BY <1>6, <2>1
  <2>3. ~ Again(hits, where[j])
    BY <1>3, <1>5
  <2>4. ChunkOf[hits[where[i]]].section # ChunkOf[hits[where[j]]].section
    BY <2>2, <2>3 DEF Again
  <2> QED BY <1>3, <2>4
<1>8. ASSUME NEW i \in DOMAIN t, NEW j \in DOMAIN t, i # j
      PROVE  ChunkOf[t[i]].section # ChunkOf[t[j]].section
  <2>1. i < j \/ j < i
    BY <1>6, <1>8
  <2>2. CASE i < j
    BY <1>7, <2>2
  <2>3. CASE j < i
    BY <1>7, <2>3
  <2> QED BY <2>1, <2>2, <2>3
<1> QED BY <1>2, <1>4, <1>8

-----------------------------------------------------------------------------
(* A number is added to what is used, and an entry unless it is full.       *)
LEMMA EntryIs ==
  ASSUME NEW used \in UsedRoom, NEW c \in Ids
  PROVE  /\ Entry(used, c) \in UsedRoom /\ Entry(used, c).cited \in {used.cited, used.cited + 1}
         /\ used = [chars |-> 0, cited |-> 0, full |-> FALSE] => Entry(used, c).cited = 1
<1>1. used.chars \in Int /\ used.cited \in Nat /\ used.full \in BOOLEAN
  BY DEF UsedRoom
<1>2. Budget \in Nat /\ LeastEntry \in Nat /\ Budget > LeastEntry
      /\ ChunkOf[c].length \in Nat /\ ChunkOf[c].sectionLength \in Nat
  BY EvidenceAssumptions
<1>3. BodyLength(c) \in Nat
  BY <1>2 DEF BodyLength
<1> DEFINE room == Budget - used.chars
           taken == Min({BodyLength(c), room})
<1>4. room \in Int
  BY <1>1, <1>2
<1>5. taken \in Int
  <2> HIDE DEF room
  <2>1. taken = IF BodyLength(c) <= room THEN BodyLength(c) ELSE room
    BY <1>3, <1>4, MinOfTwo
  <2> HIDE DEF taken
  <2> QED BY <1>3, <1>4, <2>1
<1>6. CASE used.full \/ room <= LeastEntry
  <2> DEFINE next == [chars |-> used.chars, cited |-> used.cited, full |-> TRUE]
  <2>1. Entry(used, c) = next
    BY <1>6 DEF Entry
  <2>2. next \in UsedRoom /\ next.cited = used.cited
    BY <1>1 DEF UsedRoom
  <2>3. used # [chars |-> 0, cited |-> 0, full |-> FALSE]
    <3>1. ASSUME used = [chars |-> 0, cited |-> 0, full |-> FALSE] PROVE FALSE
      <4>1. used.full = FALSE /\ used.chars = 0
        BY <3>1
      <4> QED BY <1>2, <1>6, <4>1
    <3> QED BY <3>1
  <2> QED BY <2>1, <2>2, <2>3
<1>7. CASE ~ (used.full \/ room <= LeastEntry)
  <2> DEFINE next == [chars |-> used.chars + taken, cited |-> used.cited + 1, full |-> FALSE]
  <2>1. Entry(used, c) = next
    BY <1>7 DEF Entry
  <2> HIDE DEF taken
  <2>2. next \in UsedRoom /\ next.cited = used.cited + 1
    BY <1>1, <1>5 DEF UsedRoom
  <2>3. used = [chars |-> 0, cited |-> 0, full |-> FALSE] => used.cited + 1 = 1
    OBVIOUS
  <2> QED BY <2>1, <2>2, <2>3
<1> QED BY <1>6, <1>7

(* What is cited is a beginning of what was selected, the first at least.   *)
LEMMA UsedIs ==
  ASSUME NEW hits \in Seq(Ids)
  PROVE  /\ UsedBy(hits).cited \in Nat /\ UsedBy(hits).cited <= Len(hits)
         /\ (UsedBy(hits).cited = 0) = (hits = <<>>)
<1> DEFINE n == Len(hits)
           none == [chars |-> 0, cited |-> 0, full |-> FALSE]
           add == [i \in 1 .. n |-> [used \in UsedRoom |-> Entry(used, hits[i])]]
<1>1. n \in Nat /\ DOMAIN hits = 1 .. n /\ (hits = <<>> <=> n = 0)
      /\ \A i \in 1 .. n : hits[i] \in Ids
  OBVIOUS
<1>2. none \in UsedRoom /\ none.cited = 0
  BY DEF UsedRoom
<1>3. UsedBy(hits) = Loop(none, add, n)
  BY DEF UsedBy
<1>4. \A i \in 1 .. n : \A used \in UsedRoom : add[i][used] = Entry(used, hits[i])
  OBVIOUS
<1>13. none = [chars |-> 0, cited |-> 0, full |-> FALSE]
  OBVIOUS
<1> HIDE DEF n, none, add
<1>5. PICK t : Rounds(none, add, n, t) /\ Loop(none, add, n) = t[n]
  BY <1>1, LoopIsRound
<1>6. t[0] = none /\ \A i \in 1 .. n : t[i] = add[i][t[i - 1]]
  BY <1>1, <1>5 DEF Rounds
<1> DEFINE R == {i \in 0 .. n : t[i] \in UsedRoom /\ t[i].cited \in 0 .. i
                                /\ (i # 0 => t[i].cited # 0)}
<1>7. 0 \in R
  BY <1>1, <1>2, <1>6
<1>8. ASSUME NEW i \in 0 .. n, i \in R, i < n PROVE i + 1 \in R
  <2>1. i + 1 \in 1 .. n /\ i + 1 \in 0 .. n /\ (i + 1) - 1 = i /\ i \in Nat
    BY <1>1, <1>8
  <2>2. t[i] \in UsedRoom /\ t[i].cited \in 0 .. i /\ (i # 0 => t[i].cited # 0)
    BY <1>8
  <2>3. t[i + 1] = Entry(t[i], hits[i + 1]) /\ hits[i + 1] \in Ids
    <3>1. t[i + 1] = add[i + 1][t[i]]
      BY <1>6, <2>1
    <3> QED BY <1>1, <1>4, <2>1, <2>2, <3>1
  <2>4. t[i + 1] \in UsedRoom /\ t[i + 1].cited \in {t[i].cited, t[i].cited + 1}
    BY <2>2, <2>3, EntryIs
  <2>5. i = 0 => t[i + 1].cited = 1
    BY <1>6, <1>13, <2>2, <2>3, EntryIs
  <2>6. t[i + 1].cited \in 0 .. (i + 1) /\ t[i + 1].cited # 0
    BY <2>1, <2>2, <2>4, <2>5
  <2> QED BY <2>1, <2>4, <2>6
<1>9. 0 .. n \subseteq R
  <2> HIDE DEF R
  <2> QED BY <1>1, <1>7, <1>8, BoundedInduction
<1>10. n \in R
  <2> HIDE DEF R
  <2> QED BY <1>1, <1>9
<1>11. UsedBy(hits) = t[n] /\ t[n].cited \in 0 .. n /\ (n # 0 => t[n].cited # 0)
  BY <1>3, <1>5, <1>10
<1>12. (t[n].cited = 0) = (hits = <<>>)
  BY <1>1, <1>11
<1> QED BY <1>1, <1>11, <1>12 DEF n

-----------------------------------------------------------------------------
(* What the channels found is of the versions that were searched, and the   *)
(* answer is one that SearchVectors may give of it: it is of those versions *)
(* and sound.                                                               *)
FoundThere(sparse, vector) ==
  /\ sparse \in Seq(Ids) /\ ToSet(sparse) \subseteq ChunksOf(answer.of)
  /\ vector \in Seq(Ids)
  /\ ToSet(vector) \subseteq ChunksOf(IF keyedDense THEN {index} ELSE {})
Responds(sparse, vector, a) ==
  \E score \in [ToSet(sparse) \cup ToSet(vector) -> 0..1] :
  \E relevance \in IF keyedDense /\ Semantic THEN BOOLEAN ELSE {FALSE} :
  \E fused \in Fusions(Admitted(sparse), Admitted(vector)) :
  \E ranked \in Rankings(Deduplicated(Resolved(fused)), score) :
    a = Respond(sparse, vector, ranked, score, relevance)
GoodAnswer(a) ==
  /\ a \in QueryAnswers /\ SoundAnswer(a)
  /\ a.of = answer.of \cup (IF keyedDense THEN {index} ELSE {})
LEMMA RespondIs ==
  ASSUME EvidenceTypeInv, NEW sparse, NEW vector, FoundThere(sparse, vector),
         NEW a, Responds(sparse, vector, a)
  PROVE  GoodAnswer(a)
<1>1. /\ sparse \in Seq(Ids) /\ ToSet(sparse) \subseteq ChunksOf(answer.of)
       /\ vector \in Seq(Ids)
       /\ ToSet(vector) \subseteq ChunksOf(IF keyedDense THEN {index} ELSE {})
  BY DEF FoundThere
<1>2. PICK score \in [ToSet(sparse) \cup ToSet(vector) -> 0..1] :
         \E relevance \in IF keyedDense /\ Semantic THEN BOOLEAN ELSE {FALSE} :
         \E fused \in Fusions(Admitted(sparse), Admitted(vector)) :
         \E ranked \in Rankings(Deduplicated(Resolved(fused)), score) :
           a = Respond(sparse, vector, ranked, score, relevance)
  BY Zenon DEF Responds
<1>3. PICK relevance \in (IF keyedDense /\ Semantic THEN BOOLEAN ELSE {FALSE}) :
         \E fused \in Fusions(Admitted(sparse), Admitted(vector)) :
         \E ranked \in Rankings(Deduplicated(Resolved(fused)), score) :
           a = Respond(sparse, vector, ranked, score, relevance)
  BY <1>2, Zenon
<1>4. PICK fused \in Fusions(Admitted(sparse), Admitted(vector)) :
         \E ranked \in Rankings(Deduplicated(Resolved(fused)), score) :
           a = Respond(sparse, vector, ranked, score, relevance)
  BY <1>3, Zenon
<1>5. PICK ranked \in Rankings(Deduplicated(Resolved(fused)), score) :
         a = Respond(sparse, vector, ranked, score, relevance)
  BY <1>4, Zenon
<1> DEFINE there == ChunksOf(answer.of \cup (IF keyedDense THEN {index} ELSE {}))
           candidates == Deduplicated(Resolved(fused))
           top == FirstHits(ranked, FinalTop)
           kept == IF Abstains(top, score, relevance) THEN <<>> ELSE Expanded(top)
<1>6. /\ Admitted(sparse) \in Seq(Ids) /\ Admitted(vector) \in Seq(Ids)
      /\ ToSet(Admitted(sparse)) \subseteq ToSet(sparse) \cap Active
      /\ ToSet(Admitted(vector)) \subseteq ToSet(vector) \cap Active
  <2>1. ASSUME NEW hits \in Seq(Ids)
        PROVE  /\ Admitted(hits) \in Seq(Ids)
               /\ ToSet(Admitted(hits)) \subseteq ToSet(hits) \cap Active
    <3> DEFINE t == Only(hits, Active)
    <3>1. /\ t \in Seq(Ids)
          /\ \A i \in DOMAIN t : t[i] \in Active /\ \E j \in DOMAIN hits : t[i] = hits[j]
      BY OnlyMembers
    <3>2. Admitted(hits) = t
      BY DEF Admitted
    <3> HIDE DEF t
    <3>3. ToSet(t) \subseteq ToSet(hits) \cap Active
      BY <3>1 DEF ToSet
    <3> QED BY <3>1, <3>2, <3>3
  <2> QED BY <1>1, <2>1
<1>7. Once(fused) /\ ToSet(fused) \subseteq ToSet(Admitted(sparse)) \cup ToSet(Admitted(vector))
  BY <1>6, <1>4, FusedOnce
<1>8. ToSet(fused) \subseteq {c \in there : ChunkOf[c].active}
  <2>1. ASSUME NEW c \in ToSet(fused) PROVE c \in there /\ ChunkOf[c].active
    <3>1. c \in Active /\ (c \in ToSet(sparse) \/ c \in ToSet(vector))
      BY <1>6, <1>7
    <3>2. c \in ChunksOf(answer.of) \/ c \in ChunksOf(IF keyedDense THEN {index} ELSE {})
      BY <1>1, <3>1
    <3> QED BY <3>1, <3>2 DEF ChunksOf, Active
  <2> QED BY <2>1
<1>9. /\ Once(Resolved(fused)) /\ ToSet(Resolved(fused)) \subseteq ToSet(fused)
      /\ KeysApart(ToSet(Resolved(fused)))
  BY <1>7, ResolvedIs
<1>10. /\ Once(candidates) /\ ToSet(candidates) \subseteq ToSet(Resolved(fused))
      /\ FewOfEach(ToSet(candidates))
  BY <1>9, DeduplicatedIs
<1> HIDE DEF candidates
<1>11. /\ IsFiniteSet(ToSet(candidates)) /\ ToSet(candidates) \in SUBSET Ids
  BY <1>10, HitsAre DEF Once
<1>12. Once(ranked) /\ ToSet(ranked) \subseteq ToSet(candidates)
  <2>1. ranked \in SetToSeqs(ToSet(candidates))
    BY <1>5 DEF Rankings, candidates
  <2> QED BY <1>11, <2>1, PermutedOnce
<1>13. FinalTop \in Nat
  BY EvidenceAssumptions
<1>14. Once(top) /\ ToSet(top) \subseteq ToSet(ranked) /\ Len(top) <= FinalTop
  BY <1>12, <1>13, FirstHitsAre
<1> HIDE DEF top
<1>15. Once(<<>>) /\ ToSet(<<>>) = {} /\ Len(<<>>) = 0 /\ DOMAIN <<>> = {}
  BY DEF Once, ToSet
<1>16. /\ Once(kept) /\ ToSet(kept) \subseteq ToSet(candidates) /\ Len(kept) <= FinalTop
       /\ \A i, j \in DOMAIN kept : i # j => ChunkOf[kept[i]].section # ChunkOf[kept[j]].section
  <2>1. CASE Abstains(top, score, relevance)
    <3>1. kept = <<>>
      BY <2>1
    <3> HIDE DEF kept
    <3> QED BY <1>13, <1>15, <3>1
  <2>2. CASE ~ Abstains(top, score, relevance)
    <3>1. kept = Expanded(top)
      BY <2>2
    <3>2. /\ Once(kept) /\ ToSet(kept) \subseteq ToSet(top) /\ Len(kept) <= Len(top)
          /\ \A i, j \in DOMAIN kept : i # j => ChunkOf[kept[i]].section # ChunkOf[kept[j]].section
      BY <1>14, <3>1, ExpandedIs
    <3> HIDE DEF kept
    <3>3. Len(kept) \in Nat /\ Len(top) \in Nat
      BY <1>14, <3>2, HitsAre DEF Once
    <3>4. Len(kept) <= FinalTop
      BY <1>13, <1>14, <3>2, <3>3
    <3> QED BY <1>12, <1>14, <3>2, <3>4
  <2> QED BY <2>1, <2>2
<1>17. a = [of |-> answer.of \cup (IF keyedDense THEN {index} ELSE {}), hits |-> kept,
            cited |-> UsedBy(kept).cited, sparse |-> ~keyedDense,
            rejected |-> DeniedOf(sparse) \cup DeniedOf(vector)]
  BY <1>5 DEF Respond, top
<1> HIDE DEF kept
<1>18. /\ kept \in Seq(Ids)
       /\ \A i \in DOMAIN kept : kept[i] \in ToSet(kept)
       /\ \A i, j \in DOMAIN kept : i # j => kept[i] # kept[j]
  BY <1>16, HitsAre DEF Once
<1>19. /\ UsedBy(kept).cited \in Nat /\ UsedBy(kept).cited <= Len(kept)
       /\ (UsedBy(kept).cited = 0) = (kept = <<>>)
  BY <1>18, UsedIs
<1>20. a.of = answer.of \cup (IF keyedDense THEN {index} ELSE {}) /\ a.hits = kept
       /\ a.cited = UsedBy(kept).cited
  BY <1>17
<1>21. a \in QueryAnswers
  <2>1. answer.of \cup (IF keyedDense THEN {index} ELSE {}) \in SUBSET DOMAIN Versions
    BY DEF EvidenceTypeInv, QueryAnswers
  <2>2. DeniedOf(sparse) \cup DeniedOf(vector) \in SUBSET Ids
    BY <1>1, HitsAre DEF DeniedOf
  <2>3. (~keyedDense) \in BOOLEAN
    OBVIOUS
  <2> DEFINE of == answer.of \cup (IF keyedDense THEN {index} ELSE {})
             denied == DeniedOf(sparse) \cup DeniedOf(vector)
             words == ~keyedDense
             cited == UsedBy(kept).cited
  <2>4. of \in SUBSET DOMAIN Versions /\ denied \in SUBSET Ids /\ words \in BOOLEAN /\ cited \in Nat
    BY <1>19, <2>1, <2>2, <2>3
  <2>5. a = [of |-> of, hits |-> kept, cited |-> cited, sparse |-> words, rejected |-> denied]
    BY <1>17
  <2> HIDE DEF of, denied, words, cited
  <2> QED BY <1>18, <2>4, <2>5 DEF QueryAnswers
<1>22. ToSet(kept) \subseteq {c \in ChunksOf(a.of) : ChunkOf[c].active}
  <2>1. there = ChunksOf(a.of)
    BY <1>20
  <2> HIDE DEF there
  <2> QED BY <1>8, <1>9, <1>10, <1>16, <2>1
<1>23. FewOfEach(ToSet(kept))
  BY <1>10, <1>11, <1>16, FewerOfEach
<1>24. Apart(kept)
  <2>1. ASSUME NEW i \in DOMAIN kept, NEW j \in DOMAIN kept, i # j
        PROVE  ChunkOf[kept[i]].key # ChunkOf[kept[j]].key
    <3>1. kept[i] # kept[j]
      BY <1>18, <2>1
    <3>2. kept[i] \in ToSet(Resolved(fused)) /\ kept[j] \in ToSet(Resolved(fused))
      BY <1>10, <1>16, <1>18
    <3> QED BY <1>9, <3>1, <3>2 DEF KeysApart
  <2> QED BY <1>16, <2>1 DEF Apart
<1>25. SoundAnswer(a)
  BY <1>16, <1>19, <1>20, <1>22, <1>23, <1>24 DEF SoundAnswer
<1>26. a.of = answer.of \cup (IF keyedDense THEN {index} ELSE {})
  BY <1>20
<1> QED BY <1>21, <1>25, <1>26 DEF GoodAnswer

-----------------------------------------------------------------------------
(* No answer is an answer, and sound.                                       *)
LEMMA NoAnswerIs ==
  NoAnswer \in QueryAnswers /\ SoundAnswer(NoAnswer) /\ NoAnswer.of = {} /\ NoAnswer.hits = <<>>
<1>1. NoAnswer \in QueryAnswers
  <2>1. {} \in SUBSET DOMAIN Versions /\ <<>> \in Seq(Ids) /\ 0 \in Nat /\ TRUE \in BOOLEAN
        /\ {} \in SUBSET Ids
    OBVIOUS
  <2> QED BY <2>1 DEF NoAnswer, QueryAnswers
<1>2. NoAnswer.of = {} /\ NoAnswer.hits = <<>> /\ NoAnswer.cited = 0
  BY DEF NoAnswer
<1>3. ToSet(<<>>) = {} /\ Len(<<>>) = 0 /\ DOMAIN <<>> = {} /\ FinalTop \in Nat
  BY EvidenceAssumptions DEF ToSet
<1>4. SoundAnswer(NoAnswer)
  <2>1. ToSet(NoAnswer.hits) = {} /\ Len(NoAnswer.hits) = 0 /\ DOMAIN NoAnswer.hits = {}
    BY <1>2, <1>3
  <2>2. Apart(NoAnswer.hits)
    BY <2>1 DEF Apart
  <2>3. FewOfEach(ToSet(NoAnswer.hits))
    BY <2>1 DEF FewOfEach
  <2>4. (NoAnswer.cited = 0) = (NoAnswer.hits = <<>>)
    BY <1>2
  <2> QED BY <1>2, <1>3, <2>1, <2>2, <2>3, <2>4 DEF SoundAnswer
<1> QED BY <1>1, <1>2, <1>4

(* At the start nothing is kept and nothing shown.                          *)
LEMMA EvidenceInitInv == EvidenceInit => EvidenceInv
<1> SUFFICES ASSUME EvidenceInit PROVE EvidenceInv
  OBVIOUS
<1>1. 1 \in DOMAIN Versions /\ CacheSize \in Nat
  BY EvidenceAssumptions
<1>2. EvidenceTypeInv
  <2>1. <<>> \in Seq(QueryAnswers) /\ <<>> \in Seq(CacheEntries) /\ Len(<<>>) = 0
    OBVIOUS
  <2>2. dense \in BOOLEAN /\ keyedDense \in BOOLEAN
    BY DEF EvidenceInit
  <2> QED BY <1>1, <2>1, <2>2, NoAnswerIs DEF EvidenceInit, EvidenceTypeInv
<1>3. DOMAIN <<>> = {}
  OBVIOUS
<1>4. CachesInv
  BY <1>3 DEF EvidenceInit, CachesInv
<1>5. AnswersInv
  BY <1>3 DEF EvidenceInit, AnswersInv
<1> QED BY <1>2, <1>4, <1>5 DEF EvidenceInv

(* The steps that neither search nor fill a cache keep what is said of the  *)
(* answers.                                                                 *)
LEMMA SectionIs ==
  ASSUME EvidenceTypeInv, section # <<>>
  PROVE  section[1] \in QueryAnswers
BY SeqIs DEF EvidenceTypeInv

(* The section of a turn is one answer.                                     *)
LEMMA OneAnswer ==
  ASSUME NEW a \in QueryAnswers
  PROVE  <<a>> \in Seq(QueryAnswers) /\ <<a>> # <<>> /\ <<a>>[1] = a
OBVIOUS

(* Steps that find no new answer.                                           *)
LEMMA QuietStep ==
  ASSUME EvidenceInv, NEW v \in DOMAIN Versions,
         \/ StartTurn \/ ReuseSection \/ ReadKey \/ FallBack \/ BackgroundCollects
         \/ ToolCompletes(v) \/ OthersWrite(v)
  PROVE  EvidenceInv'
<1> USE DEF EvidenceInv
<1>1. CASE StartTurn
  <2>1. EvidenceTypeInv'
    BY <1>1, NoAnswerIs DEF EvidenceTypeInv, StartTurn, Counts
  <2>2. CachesInv'
    BY <1>1 DEF CachesInv, FoundUnder, StartTurn, Counts
  <2>3. AnswersInv'
    BY <1>1 DEF AnswersInv, StartTurn, Counts
  <2> QED BY <2>1, <2>2, <2>3
<1>2. CASE ReuseSection
  <2>1. EvidenceTypeInv'
    BY <1>2, SectionIs DEF EvidenceTypeInv, ReuseSection, Counts
  <2>2. CachesInv'
    BY <1>2 DEF CachesInv, FoundUnder, ReuseSection, Counts
  <2>3. AnswersInv'
    BY <1>2 DEF AnswersInv, ReuseSection, Counts
  <2> QED BY <2>1, <2>2, <2>3
<1>3. CASE ReadKey
  <2>1. EvidenceTypeInv'
    BY <1>3 DEF EvidenceTypeInv, ReadKey, Counts
  <2>2. CachesInv'
    BY <1>3 DEF CachesInv, FoundUnder, ReadKey, Counts
  <2>3. AnswersInv'
    BY <1>3 DEF AnswersInv, ReadKey, Counts
  <2> QED BY <2>1, <2>2, <2>3
<1>4. CASE FallBack
  <2> DEFINE a == NoAnswer
  <2>1. /\ a \in QueryAnswers /\ SoundAnswer(a) /\ a.of = {}
        /\ <<a>> \in Seq(QueryAnswers) /\ <<a>> # <<>> /\ <<a>>[1] = a
    BY NoAnswerIs, OneAnswer
  <2>2. /\ at' = "shown" /\ answer' = a /\ section' = <<a>>
        /\ UNCHANGED <<sources, index, dense, queries, key, keyedDense, background, seen>>
    BY <1>4 DEF FallBack
  <2> HIDE DEF a
  <2>3. EvidenceTypeInv'
    BY <2>1, <2>2 DEF EvidenceTypeInv
  <2>4. CachesInv'
    BY <2>1, <2>2 DEF CachesInv, FoundUnder
  <2>5. AnswersInv'
    BY <2>1, <2>2 DEF AnswersInv
  <2> QED BY <2>3, <2>4, <2>5
<1>5. CASE BackgroundCollects
  <2>1. EvidenceTypeInv'
    BY <1>5 DEF EvidenceTypeInv, BackgroundCollects, Counts
  <2>2. CachesInv'
    BY <1>5 DEF CachesInv, FoundUnder, BackgroundCollects, Counts
  <2>3. AnswersInv'
    BY <1>5 DEF AnswersInv, BackgroundCollects, Counts
  <2> QED BY <2>1, <2>2, <2>3
<1>6. CASE ToolCompletes(v)
  <2>1. EvidenceTypeInv'
    BY <1>6, NoAnswerIs DEF EvidenceTypeInv, ToolCompletes, Invalidated
  <2>2. CachesInv'
    BY <1>6 DEF CachesInv, FoundUnder, ToolCompletes, Invalidated
  <2>3. AnswersInv'
    BY <1>6 DEF AnswersInv, ToolCompletes, Invalidated
  <2> QED BY <2>1, <2>2, <2>3
<1>7. CASE OthersWrite(v)
  <2>1. EvidenceTypeInv'
    BY <1>7, NoAnswerIs DEF EvidenceTypeInv, OthersWrite
  <2>2. CachesInv'
    BY <1>7 DEF CachesInv, FoundUnder, OthersWrite
  <2>3. AnswersInv'
    BY <1>7 DEF AnswersInv, OthersWrite
  <2> QED BY <2>1, <2>2, <2>3
<1> QED BY <1>1, <1>2, <1>3, <1>4, <1>5, <1>6, <1>7

(* The steps that write the index or empty the cache of queries.            *)
LEMMA IndexStep ==
  ASSUME EvidenceInv, SyncForPrompt \/ BackgroundWrites \/ BackgroundClears
  PROVE  EvidenceInv'
<1> USE DEF EvidenceInv
<1>1. <<>> \in Seq(CacheEntries) /\ Len(<<>>) = 0 /\ DOMAIN <<>> = {} /\ CacheSize \in Nat
  BY EvidenceAssumptions
<1>2. CASE SyncForPrompt
  <2>1. /\ at' = "synced" /\ index' = sources /\ seen' = seen \cup {sources}
        /\ UNCHANGED <<sources, section, answer, key>> /\ section = <<>>
    BY <1>2 DEF SyncForPrompt
  <2>2. /\ dense' \in BOOLEAN /\ keyedDense' = dense' /\ (dense' => dense /\ index = sources)
        /\ (index = sources => dense' = dense)
    BY <1>2 DEF SyncForPrompt, EvidenceTypeInv
  <2>3. queries' = IF index = sources THEN queries ELSE <<>>
    BY <1>2 DEF SyncForPrompt
  <2>4. background' = background \/ (~ dense' /\ background' = [at |-> "started", collected |-> 0])
    BY <1>2 DEF SyncForPrompt
  <2>5. EvidenceTypeInv'
    <3>1. queries' \in Seq(CacheEntries) /\ Len(queries') <= CacheSize
      BY <1>1, <2>3 DEF EvidenceTypeInv
    <3>2. /\ background' \in [at : {"idle", "started", "collected", "wrote"},
                              collected : {0} \cup DOMAIN Versions]
          /\ background'.at = "collected" => background'.collected \in DOMAIN Versions
      BY <2>4 DEF EvidenceTypeInv
    <3>3. keyedDense' \in BOOLEAN
      BY <2>2
    <3> QED BY <2>1, <2>2, <3>1, <3>2, <3>3 DEF EvidenceTypeInv
  <2>6. CachesInv'
    <3>1. dense' => background'.at \in {"idle", "wrote"}
      BY <2>2, <2>4 DEF CachesInv
    <3>2. \A i \in DOMAIN queries' : FoundUnder(queries[i].key, queries[i].answer.of)' 
      <4>1. CASE index = sources
        BY <2>1, <2>2, <2>3, <4>1 DEF CachesInv, FoundUnder
      <4>2. CASE index # sources
        BY <1>1, <2>3, <4>2
      <4> QED BY <4>1, <4>2
    <3> QED BY <2>1, <2>2, <3>1, <3>2 DEF CachesInv
  <2>7. AnswersInv'
    BY <1>1, <2>1, <2>3 DEF AnswersInv
  <2> QED BY <2>5, <2>6, <2>7
<1>3. CASE BackgroundWrites
  <2>1. /\ background.at = "collected" /\ dense' = TRUE
        /\ index' = background.collected /\ seen' = seen \cup {index'}
        /\ UNCHANGED <<sources, queries, section, at, answer, key, keyedDense>>
    BY <1>3 DEF BackgroundWrites
  <2>2. ~ dense
    BY <2>1 DEF CachesInv
  <2>3. /\ background' \in [at : {"idle", "started", "collected", "wrote"},
                            collected : {0} \cup DOMAIN Versions]
        /\ background'.at \in {"idle", "wrote"}
    <3> DEFINE s == IF background.collected = index THEN "idle" ELSE "wrote"
    <3>1. s \in {"idle", "wrote"}
      OBVIOUS
    <3>2. background' = [background EXCEPT !.at = s]
      BY <1>3 DEF BackgroundWrites
    <3> HIDE DEF s
    <3> QED BY <3>1, <3>2 DEF EvidenceTypeInv
  <2>4. EvidenceTypeInv'
    BY <2>1, <2>3 DEF EvidenceTypeInv
  <2>5. CachesInv'
    BY <2>1, <2>2, <2>3 DEF CachesInv, FoundUnder, EvidenceTypeInv
  <2>6. AnswersInv'
    BY <2>1 DEF AnswersInv
  <2> QED BY <2>4, <2>5, <2>6
<1>4. CASE BackgroundClears
  <2>1. /\ background.at = "wrote" /\ background' = [at |-> "idle", collected |-> 0]
        /\ queries' = <<>>
        /\ UNCHANGED <<sources, index, dense, section, at, answer, key, keyedDense, seen>>
    BY <1>4 DEF BackgroundClears
  <2>2. EvidenceTypeInv'
    BY <1>1, <2>1 DEF EvidenceTypeInv
  <2>3. CachesInv'
    BY <1>1, <2>1 DEF CachesInv, FoundUnder
  <2>4. AnswersInv'
    BY <1>1, <2>1 DEF AnswersInv
  <2> QED BY <2>2, <2>3, <2>4
<1> QED BY <1>2, <1>3, <1>4

(* What a channel finds is a list of some chunks.                           *)
LEMMA SomeOfIs ==
  ASSUME NEW chunks \in SUBSET Ids, NEW n \in Nat, NEW hits \in SomeOf(chunks, n)
  PROVE  hits \in Seq(Ids) /\ ToSet(hits) \subseteq chunks
<1>1. PICK k \in 0 .. n : hits \in [1 .. k -> chunks]
  BY DEF SomeOf
<1>2. k \in Nat
  BY <1>1
<1>3. hits \in Seq(chunks)
  BY <1>1, <1>2, SeqDef
<1>4. ToSet(hits) \subseteq chunks
  BY <1>3, HitsAre
<1> QED BY <1>3, <1>4

(* The chunks of one version.                                               *)
LEMMA ChunksOfOne ==
  ASSUME NEW v \in DOMAIN Versions
  PROVE  ChunksOf({v}) = Versions[v] /\ Versions[v] \in SUBSET Ids /\ ChunksOf({}) = {}
<1>1. Versions[v] \in SUBSET Ids
  BY EvidenceAssumptions
<1> QED BY <1>1 DEF ChunksOf

(* What the words find is of the index that is searched.                    *)
LEMMA WordsStep ==
  ASSUME EvidenceInv, SearchWords
  PROVE  EvidenceInv'
<1> USE DEF EvidenceInv
<1>1. PICK sparse \in SomeOf(Versions[index], SparseTop) :
        answer' = [NoAnswer EXCEPT !.of = {index}, !.hits = sparse]
  BY DEF SearchWords
<1>2. /\ at = "keyed" /\ at' = "words"
      /\ UNCHANGED <<sources, index, dense, queries, section, key, keyedDense, background, seen>>
  BY DEF SearchWords
<1>3. index \in DOMAIN Versions /\ SparseTop \in Nat
  BY EvidenceAssumptions DEF EvidenceTypeInv
<1>4. sparse \in Seq(Ids) /\ ToSet(sparse) \subseteq ChunksOf({index})
  BY <1>3, ChunksOfOne, SomeOfIs
<1>5. /\ answer' \in QueryAnswers /\ answer'.of = {index} /\ answer'.hits = sparse
  <2>1. {index} \in SUBSET DOMAIN Versions
    BY <1>3
  <2> QED BY <1>1, <1>4, <2>1, NoAnswerIs DEF QueryAnswers
<1>6. EvidenceTypeInv'
  BY <1>2, <1>5 DEF EvidenceTypeInv
<1>7. CachesInv'
  BY <1>2, <1>5 DEF CachesInv, FoundUnder
<1>8. AnswersInv'
  <2>1. ToSet(answer'.hits) \subseteq ChunksOf(answer'.of)
    BY <1>4, <1>5
  <2> QED BY <1>2, <2>1 DEF AnswersInv
<1> QED BY <1>6, <1>7, <1>8

(* So is what the vectors find, and the answer is sound.                    *)
LEMMA VectorsStep ==
  ASSUME EvidenceInv, SearchVectors
  PROVE  EvidenceInv'
<1>1. EvidenceTypeInv /\ CachesInv /\ AnswersInv
  BY DEF EvidenceInv
<1>2. PICK vector \in (IF keyedDense THEN SomeOf(Versions[index], DenseTop) ELSE {<<>>}) :
        Responds(answer.hits, vector, answer')
  BY DEF SearchVectors, Responds
<1>3. /\ at = "words" /\ at' = "searched"
      /\ UNCHANGED <<sources, index, dense, queries, section, key, keyedDense, background, seen>>
  BY DEF SearchVectors
<1>4. index \in DOMAIN Versions /\ DenseTop \in Nat /\ answer \in QueryAnswers
  BY <1>1, EvidenceAssumptions DEF EvidenceTypeInv
<1>5. answer.hits \in Seq(Ids) /\ ToSet(answer.hits) \subseteq ChunksOf(answer.of)
  BY <1>1, <1>3, <1>4 DEF AnswersInv, QueryAnswers
<1>6. /\ vector \in Seq(Ids)
      /\ ToSet(vector) \subseteq ChunksOf(IF keyedDense THEN {index} ELSE {})
  <2>1. CASE keyedDense
    <3>1. vector \in SomeOf(Versions[index], DenseTop)
      BY <1>2, <2>1
    <3>2. vector \in Seq(Ids) /\ ToSet(vector) \subseteq ChunksOf({index})
      BY <1>4, <3>1, ChunksOfOne, SomeOfIs
    <3> QED BY <2>1, <3>2
  <2>2. CASE ~ keyedDense
    <3>1. vector = <<>>
      BY <1>2, <2>2
    <3>2. ToSet(vector) = {}
      BY <3>1 DEF ToSet
    <3> QED BY <3>1, <3>2
  <2> QED BY <2>1, <2>2
<1>7. FoundThere(answer.hits, vector)
  BY <1>5, <1>6 DEF FoundThere
<1>8. GoodAnswer(answer')
  <2> DEFINE a == answer'
  <2>1. Responds(answer.hits, vector, a)
    BY <1>2
  <2> HIDE DEF a
  <2>2. GoodAnswer(a)
    BY <1>1, <1>7, <2>1, RespondIs
  <2> QED BY <2>2 DEF a
<1>9. /\ answer' \in QueryAnswers /\ SoundAnswer(answer')
      /\ answer'.of = answer.of \cup (IF keyedDense THEN {index} ELSE {})
  BY <1>8 DEF GoodAnswer
<1>10. EvidenceTypeInv'
  BY <1>1, <1>3, <1>9 DEF EvidenceTypeInv
<1>11. CachesInv'
  BY <1>1, <1>3, <1>9 DEF CachesInv, FoundUnder
<1>12. AnswersInv'
  BY <1>1, <1>3, <1>9 DEF AnswersInv
<1> QED BY <1>10, <1>11, <1>12 DEF EvidenceInv

(* A new answer is kept under the key that was read.                        *)
LEMMA RememberStep ==
  ASSUME EvidenceInv, Remember
  PROVE  EvidenceInv'
<1> USE DEF EvidenceInv
<1> DEFINE entry == [key |-> key, answer |-> answer]
           kept == Append(queries, entry)
<1>1. /\ at = "searched" /\ at' = "shown" /\ section' = <<answer>>
      /\ queries' = IF Len(kept) > CacheSize THEN Tail(kept) ELSE kept
      /\ UNCHANGED <<sources, index, dense, answer, key, keyedDense, background, seen>>
  BY DEF Remember
<1>2. /\ answer \in QueryAnswers /\ SoundAnswer(answer) /\ queries \in Seq(CacheEntries)
      /\ Len(queries) <= CacheSize /\ Len(queries) \in Nat /\ CacheSize \in Nat
  BY <1>1, EvidenceAssumptions, SeqIs DEF EvidenceTypeInv, AnswersInv
<1>3. entry \in CacheEntries /\ entry.key = key /\ entry.answer = answer
  BY <1>2 DEF CacheEntries, EvidenceTypeInv
<1> HIDE DEF entry
<1>4. /\ kept \in Seq(CacheEntries) /\ Len(kept) = Len(queries) + 1
      /\ \A i \in DOMAIN kept : kept[i] = entry \/ \E j \in DOMAIN queries : kept[i] = queries[j]
  BY <1>2, <1>3
<1> HIDE DEF kept
<1>5. /\ queries' \in Seq(CacheEntries) /\ Len(queries') <= CacheSize
      /\ \A i \in DOMAIN queries' :
           queries'[i] = entry \/ \E j \in DOMAIN queries : queries'[i] = queries[j]
  <2>1. CASE Len(kept) > CacheSize
    <3>1. queries' = Tail(kept) /\ kept # <<>>
      BY <1>1, <1>2, <1>4, <2>1
    <3>2. /\ Tail(kept) \in Seq(CacheEntries) /\ Len(Tail(kept)) = Len(kept) - 1
          /\ \A i \in DOMAIN Tail(kept) : i + 1 \in DOMAIN kept /\ Tail(kept)[i] = kept[i + 1]
      BY <1>4, <3>1
    <3> QED BY <1>2, <1>4, <3>1, <3>2
  <2>2. CASE ~ (Len(kept) > CacheSize)
    <3>1. queries' = kept
      BY <1>1, <2>2
    <3>2. Len(kept) <= CacheSize
      BY <1>2, <1>4, <2>2
    <3> QED BY <1>4, <3>1, <3>2
  <2> QED BY <2>1, <2>2
<1>6. <<answer>> \in Seq(QueryAnswers) /\ <<answer>> # <<>> /\ <<answer>>[1] = answer
  BY <1>2, OneAnswer
<1>7. EvidenceTypeInv'
  BY <1>1, <1>5, <1>6 DEF EvidenceTypeInv
<1>8. FoundUnder(key, answer.of) /\ answer.of \subseteq seen
  BY <1>1 DEF CachesInv, FoundUnder
<1>9. CachesInv'
  <2>1. ASSUME NEW i \in DOMAIN queries' PROVE FoundUnder(queries[i].key, queries[i].answer.of)'
    <3>1. CASE queries'[i] = entry
      BY <1>1, <1>3, <1>8, <3>1 DEF FoundUnder
    <3>2. CASE \E j \in DOMAIN queries : queries'[i] = queries[j]
      BY <1>1, <3>2 DEF FoundUnder, CachesInv
    <3> QED BY <1>5, <3>1, <3>2
  <2> QED BY <1>1, <1>6, <1>8, <2>1 DEF CachesInv
<1>10. AnswersInv'
  <2>1. ASSUME NEW i \in DOMAIN queries' PROVE SoundAnswer(queries'[i].answer)
    BY <1>2, <1>3, <1>5 DEF AnswersInv
  <2> QED BY <1>1, <1>2, <1>6, <2>1 DEF AnswersInv
<1> QED BY <1>7, <1>9, <1>10

(* A kept answer under the key is as good as a new one.                     *)
LEMMA CachedStep ==
  ASSUME EvidenceInv, ServeCached
  PROVE  EvidenceInv'
<1> USE DEF EvidenceInv
<1>1. PICK k \in KeptAnswers :
        /\ answer' = queries[k].answer /\ section' = <<queries[k].answer>>
        /\ queries' = Append(SubSeq(queries, 1, k - 1) \o SubSeq(queries, k + 1, Len(queries)),
                             queries[k])
  BY DEF ServeCached
<1>2. /\ at = "keyed" /\ at' = "shown"
      /\ UNCHANGED <<sources, index, dense, key, keyedDense, background, seen>>
  BY DEF ServeCached
<1>3. k \in DOMAIN queries /\ queries[k].key = key
  BY DEF KeptAnswers
<1>4. /\ queries \in Seq(CacheEntries) /\ Len(queries) <= CacheSize /\ CacheSize \in Nat
  BY EvidenceAssumptions DEF EvidenceTypeInv
<1>5. /\ Len(queries) \in Nat /\ DOMAIN queries = 1 .. Len(queries)
      /\ \A i \in DOMAIN queries : queries[i] \in CacheEntries
  BY <1>4, SeqIs
<1> DEFINE entry == queries[k]
           s == SubSeq(queries, 1, k - 1)
           t == SubSeq(queries, k + 1, Len(queries))
<1>6. /\ entry \in CacheEntries /\ entry.answer \in QueryAnswers /\ SoundAnswer(entry.answer)
      /\ entry.key = key /\ FoundUnder(entry.key, entry.answer.of)
  BY <1>3, <1>5 DEF CacheEntries, AnswersInv, CachesInv
<1>7. /\ s \in Seq(CacheEntries) /\ Len(s) = k - 1 /\ \A i \in 1 .. (k - 1) : s[i] = queries[i]
  BY <1>3, <1>4, <1>5
<1>8. /\ t \in Seq(CacheEntries) /\ Len(t) = Len(queries) - k
      /\ \A i \in 1 .. (Len(queries) - k) : t[i] = queries[k + i]
  BY <1>3, <1>4, <1>5
<1>9. queries' = Append(s \o t, entry)
  BY <1>1
<1> HIDE DEF entry, s, t
<1>10. /\ \A i \in DOMAIN s : \E j \in DOMAIN queries : s[i] = queries[j]
       /\ \A i \in DOMAIN t : \E j \in DOMAIN queries : t[i] = queries[j]
  <2>1. DOMAIN s = 1 .. (k - 1) /\ DOMAIN t = 1 .. (Len(queries) - k)
    BY <1>7, <1>8, SeqIs
  <2>2. ASSUME NEW i \in 1 .. (k - 1) PROVE i \in DOMAIN queries
    BY <1>3, <1>5
  <2>3. ASSUME NEW i \in 1 .. (Len(queries) - k) PROVE k + i \in DOMAIN queries
    BY <1>3, <1>5
  <2> QED BY <1>7, <1>8, <2>1, <2>2, <2>3
<1>11. /\ s \o t \in Seq(CacheEntries) /\ Len(s \o t) = Len(queries) - 1
       /\ \A i \in DOMAIN (s \o t) : \E j \in DOMAIN queries : (s \o t)[i] = queries[j]
  <2>1. /\ s \o t \in Seq(CacheEntries) /\ Len(s) \in Nat /\ Len(t) \in Nat
        /\ Len(s \o t) = Len(s) + Len(t)
        /\ \A i \in 1..Len(s) : (s \o t)[i] = s[i]
        /\ \A i \in (Len(s) + 1)..(Len(s) + Len(t)) :
             i - Len(s) \in 1..Len(t) /\ (s \o t)[i] = t[i - Len(s)]
    BY <1>7, <1>8, ConcatIs
  <2>2. /\ DOMAIN (s \o t) = 1 .. (Len(s) + Len(t))
        /\ DOMAIN s = 1 .. Len(s) /\ DOMAIN t = 1 .. Len(t)
    BY <1>7, <1>8, <2>1, SeqIs
  <2>3. \A i \in 1 .. (Len(s) + Len(t)) : i \in 1 .. Len(s) \/ i \in (Len(s) + 1)..(Len(s) + Len(t))
    BY <2>1
  <2>4. Len(s) + Len(t) = Len(queries) - 1
    BY <1>3, <1>5, <1>7, <1>8
  <2> QED BY <1>10, <2>1, <2>2, <2>3, <2>4
<1> DEFINE u == s \o t
<1>12. u \in Seq(CacheEntries) /\ Len(u) = Len(queries) - 1 /\ queries' = Append(u, entry)
       /\ \A i \in DOMAIN u : \E j \in DOMAIN queries : u[i] = queries[j]
  BY <1>9, <1>11
<1> HIDE DEF u
<1>13. /\ queries' \in Seq(CacheEntries) /\ Len(queries') = Len(queries)
       /\ \A i \in DOMAIN queries' :
            queries'[i] = entry \/ \E j \in DOMAIN queries : queries'[i] = queries[j]
  <2> DEFINE w == Append(u, entry)
  <2>1. /\ w \in Seq(CacheEntries) /\ Len(w) = Len(u) + 1
        /\ \A i \in DOMAIN w :
             IF i = Len(u) + 1 THEN w[i] = entry ELSE i \in DOMAIN u /\ w[i] = u[i]
    BY <1>6, <1>12
  <2>2. queries' = w
    BY <1>12
  <2> HIDE DEF w
  <2>3. \A i \in DOMAIN w : w[i] = entry \/ \E j \in DOMAIN queries : w[i] = queries[j]
    BY <1>12, <2>1
  <2>4. Len(u) + 1 = Len(queries)
    BY <1>5, <1>12
  <2> QED BY <2>1, <2>2, <2>3, <2>4
<1>14. /\ <<entry.answer>> \in Seq(QueryAnswers) /\ <<entry.answer>> # <<>>
       /\ <<entry.answer>>[1] = entry.answer
  BY <1>6, OneAnswer
<1>15. answer' = entry.answer /\ section' = <<entry.answer>>
  BY <1>1 DEF entry
<1>16. EvidenceTypeInv'
  <2>1. Len(queries') <= CacheSize
    BY <1>4, <1>13
  <2> QED BY <1>2, <1>6, <1>13, <1>14, <1>15, <2>1 DEF EvidenceTypeInv
<1>17. \A i \in DOMAIN queries' : \E j \in DOMAIN queries : queries'[i] = queries[j]
  BY <1>3, <1>13 DEF entry
<1>18. CachesInv'
  <2>1. \A i \in DOMAIN queries' : FoundUnder(queries[i].key, queries[i].answer.of)'
    BY <1>2, <1>17 DEF CachesInv, FoundUnder
  <2>2. entry.answer.of \subseteq seen
    BY <1>2, <1>6 DEF CachesInv, FoundUnder
  <2> QED BY <1>2, <1>14, <1>15, <2>1, <2>2 DEF CachesInv
<1>19. AnswersInv'
  <2>1. \A i \in DOMAIN queries' : SoundAnswer(queries'[i].answer)
    BY <1>17 DEF AnswersInv
  <2> QED BY <1>2, <1>6, <1>14, <1>15, <2>1 DEF AnswersInv
<1> QED BY <1>16, <1>18, <1>19

(* Every step keeps the invariant.                                          *)
LEMMA EvidenceStep == EvidenceInv /\ [EvidenceNext]_evidenceVars => EvidenceInv'
<1> SUFFICES ASSUME EvidenceInv, [EvidenceNext]_evidenceVars PROVE EvidenceInv'
  OBVIOUS
<1>1. CASE UNCHANGED evidenceVars
  BY <1>1 DEF evidenceVars, EvidenceInv, EvidenceTypeInv, CachesInv, FoundUnder, AnswersInv
<1>2. ASSUME NEW v \in DOMAIN Versions, ToolCompletes(v) \/ OthersWrite(v) PROVE EvidenceInv'
  BY <1>2, QuietStep
<1>3. ASSUME StartTurn \/ ReuseSection \/ ReadKey \/ FallBack \/ BackgroundCollects
      PROVE  EvidenceInv'
  BY <1>3, QuietStep DEF EvidenceInv, EvidenceTypeInv
<1> QED BY <1>1, <1>2, <1>3, IndexStep, WordsStep, VectorsStep, RememberStep, CachedStep
        DEF EvidenceNext

(* It holds throughout.                                                     *)
LEMMA EvidenceInvariant == EvidenceSpec => []EvidenceInv
BY EvidenceInitInv, EvidenceStep, PTL DEF EvidenceSpec

(* The types of the module (EvidenceTypeOK).                                *)
LEMMA EvidenceTypes == EvidenceInv => EvidenceTypeOK
<1> SUFFICES ASSUME EvidenceInv PROVE EvidenceTypeOK
  OBVIOUS
<1>1. {dense, keyedDense} \subseteq BOOLEAN
  <2>1. dense \in BOOLEAN /\ keyedDense \in BOOLEAN
    BY DEF EvidenceInv, EvidenceTypeInv
  <2> QED BY <2>1, Zenon
<1>2. background.at \in {"idle", "started", "collected", "wrote"}
  BY DEF EvidenceInv, EvidenceTypeInv
<1> QED BY <1>1, <1>2 DEF EvidenceInv, EvidenceTypeInv, EvidenceTypeOK

(* Whatever is found and however the two caches and the background thread   *)
(* come between: what a prompt shows was found in the index as it was after *)
(* the last tool of the turn that completed, is of no section and no        *)
(* conflict key twice, of no parent too often, and not of what may not be   *)
(* shown (EvidenceIsSound).                                                 *)
THEOREM EvidenceShownIsSound == EvidenceSpec => []EvidenceIsSound
<1>1. EvidenceInv => EvidenceIsSound
  <2> SUFFICES ASSUME EvidenceInv PROVE ShownIsOfThisIndex /\ ShownIsSound
    BY DEF EvidenceIsSound
  <2>1. ShownIsOfThisIndex
    BY DEF EvidenceInv, CachesInv, ShownIsOfThisIndex
  <2>2. ShownIsSound
    <3> SUFFICES ASSUME at = "shown" PROVE ShownIsSound
      BY DEF ShownIsSound
    <3>1. SoundAnswer(answer)
      BY DEF EvidenceInv, AnswersInv
    <3> QED BY <3>1 DEF SoundAnswer, ShownIsSound, ChunksOf, Apart, FewOfEach
  <2> QED BY <2>1, <2>2
<1> QED BY <1>1, EvidenceInvariant, PTL

-----------------------------------------------------------------------------
(***************************************************************************)
(* Chunking, for any weights, separators, limits and any text, page and    *)
(* definitions: the pieces follow one another from the first symbol to the *)
(* last, the chunks hold every word and are no longer than a chunk and its *)
(* overlap, each goes further than the one before, and each line of words  *)
(* of a page or a file is in its section. Every algorithm is a loop, and   *)
(* what is proved of it is what each round keeps: the pieces cut so far    *)
(* follow one another up to where the next begins (Follow), the chunks     *)
(* ascend and the one that is filled goes further (SoFar), and the lines   *)
(* read so far are in one section each, the open headings being those that *)
(* enclose the next line (ReadTo).                                         *)
(***************************************************************************)

(* What n rounds lead to, when each leads from what may be there before it  *)
(* to what may be there after it.                                           *)
LEMMA LoopKeeps ==
  ASSUME NEW first, NEW N \in Nat, NEW round, NEW D,
         first \in D[0],
         \A i \in 1 .. N : \A x \in D[i - 1] : round[i][x] \in D[i]
  PROVE  Loop(first, round, N) \in D[N]
<1>1. PICK t : Rounds(first, round, N, t) /\ Loop(first, round, N) = t[N]
  BY LoopIsRound
<1>2. t[0] = first /\ \A i \in 1 .. N : t[i] = round[i][t[i - 1]]
  BY <1>1 DEF Rounds
<1> DEFINE S == {i \in 0 .. N : t[i] \in D[i]}
<1>3. 0 \in S
  BY <1>2
<1>4. ASSUME NEW i \in 0 .. N, i \in S /\ i < N PROVE i + 1 \in S
  <2>1. i + 1 \in 1 .. N /\ i + 1 \in 0 .. N /\ (i + 1) - 1 = i
    BY <1>4
  <2>2. t[i + 1] = round[i + 1][t[i]]
    BY <1>2, <2>1
  <2>3. round[i + 1][t[i]] \in D[i + 1]
    BY <1>4, <2>1
  <2> QED BY <2>1, <2>2, <2>3
<1>5. 0 .. N \subseteq S
  <2> HIDE DEF S
  <2> QED BY <1>3, <1>4, BoundedInduction
<1> QED BY <1>1, <1>5

-----------------------------------------------------------------------------
(* Sums of weights.                                                         *)
TextOK == passage \in Seq(DOMAIN Weight)

(* Weights add up to quarters, symbol by symbol.                            *)
LEMMA WeighedIs ==
  ASSUME TextOK
  PROVE  /\ Len(passage) \in Nat /\ Weighed(0) = 0
         /\ \A n \in 0 .. Len(passage) : Weighed(n) \in Nat
         /\ \A n \in 1 .. Len(passage) :
              Weighed(n - 1) <= Weighed(n) /\ Weighed(n) <= Weighed(n - 1) + 4
<1> DEFINE f == [k \in DOMAIN passage |-> Weight[passage[k]]]
<1>1. Len(passage) \in Nat /\ DOMAIN passage = 1 .. Len(passage)
      /\ \A k \in DOMAIN passage : passage[k] \in DOMAIN Weight
  BY SeqIs DEF TextOK
<1>2. \A k \in DOMAIN passage : Weight[passage[k]] \in {1, 4}
  BY <1>1, ChunkingAssumptions
<1>3. f \in [1 .. Len(passage) -> Nat] /\ \A k \in 1 .. Len(passage) : f[k] \in {1, 4}
  BY <1>1, <1>2
<1>4. \A n : Weighed(n) = SumTo(f, n)
  BY DEF Weighed
<1> HIDE DEF f
<1>5. /\ SumTo(f, 0) = 0
      /\ \A n \in 1 .. Len(passage) : SumTo(f, n) = SumTo(f, n - 1) + f[n]
      /\ \A n \in 0 .. Len(passage) : SumTo(f, n) \in Nat
  BY <1>1, <1>3, SumToRecursion
<1>6. \A n \in 1 .. Len(passage) : Weighed(n - 1) <= Weighed(n) /\ Weighed(n) <= Weighed(n - 1) + 4
  <2> TAKE n \in 1 .. Len(passage)
  <2>1. n - 1 \in 0 .. Len(passage) /\ n \in 0 .. Len(passage)
    BY <1>1
  <2>2. SumTo(f, n) = SumTo(f, n - 1) + f[n] /\ SumTo(f, n - 1) \in Nat /\ f[n] \in {1, 4}
    BY <1>3, <1>5, <2>1
  <2> QED BY <1>4, <2>2
<1> QED BY <1>1, <1>4, <1>5, <1>6

(* A longer text weighs no less.                                            *)
LEMMA WeighedClimbs ==
  ASSUME TextOK, NEW a \in 0 .. Len(passage), NEW b \in 0 .. Len(passage), a <= b
  PROVE  Weighed(a) <= Weighed(b)
<1>1. Len(passage) \in Nat
  BY WeighedIs
<1> DEFINE S == {n \in Nat : a + n <= Len(passage) => Weighed(a) <= Weighed(a + n)}
<1>2. 0 \in S
  BY <1>1, WeighedIs
<1>3. ASSUME NEW n \in Nat, n \in S PROVE n + 1 \in S
  <2> SUFFICES ASSUME a + (n + 1) <= Len(passage)
               PROVE  Weighed(a) <= Weighed(a + (n + 1))
    OBVIOUS
  <2>1. a + (n + 1) \in 1 .. Len(passage) /\ (a + (n + 1)) - 1 = a + n
        /\ a + n \in 0 .. Len(passage) /\ a + (n + 1) \in 0 .. Len(passage)
    BY <1>1
  <2>2. Weighed(a + n) <= Weighed(a + (n + 1)) /\ Weighed(a) <= Weighed(a + n)
    BY <1>1, <1>3, <2>1, WeighedIs
  <2>3. Weighed(a) \in Nat /\ Weighed(a + n) \in Nat /\ Weighed(a + (n + 1)) \in Nat
    BY <2>1, WeighedIs
  <2> QED BY <2>2, <2>3
<1>4. Nat \subseteq S
  <2> HIDE DEF S
  <2> QED BY <1>2, <1>3, SetInduction
<1>5. PICK d \in Nat : a + d = b
  <2>1. b - a \in Nat /\ a + (b - a) = b
    BY <1>1
  <2> QED BY <2>1
<1>6. a + d <= Len(passage) => Weighed(a) <= Weighed(a + d)
  BY <1>4
<1> QED BY <1>1, <1>5, <1>6

(* The parts of the text, and those a chunk may be too long by.             *)
Stretches == {p \in Span : 1 <= p.from /\ p.from <= p.to /\ p.to <= Len(passage)}
Small == {p \in Stretches : Quarters(p.from, p.to) < 4 * ChunkTokens + 4}

(* A part of the text: its ends, its length and what it weighs.             *)
LEMMA WithinIs ==
  ASSUME TextOK, NEW p \in Stretches
  PROVE  /\ p \in Span /\ p.from \in 1 .. Len(passage) /\ p.to \in 1 .. Len(passage)
         /\ p.from <= p.to /\ p.from \in Nat /\ p.to \in Nat /\ Len(passage) \in Nat
         /\ Quarters(p.from, p.to) \in Nat /\ Tokens(p) \in Nat
         /\ Fits(p) => p \in Small
         /\ p \in Small => Tokens(p) <= ChunkTokens + 1
<1>1. Len(passage) \in Nat
  BY WeighedIs
<1>2. p \in Span
  BY DEF Stretches
<1>3. p.from \in Nat /\ p.to \in Nat
  BY <1>2 DEF Span
<1>4. 1 <= p.from /\ p.from <= p.to /\ p.to <= Len(passage)
  BY DEF Stretches
<1>5. p.from - 1 \in 0 .. Len(passage) /\ p.to \in 0 .. Len(passage) /\ p.from - 1 <= p.to
  BY <1>1, <1>3, <1>4
<1>6. Weighed(p.from - 1) <= Weighed(p.to)
  BY <1>5, WeighedClimbs
<1>7. Weighed(p.from - 1) \in Nat /\ Weighed(p.to) \in Nat
  BY <1>5, WeighedIs
<1>8. Quarters(p.from, p.to) \in Nat
  BY <1>6, <1>7 DEF Quarters
<1> DEFINE q == Quarters(p.from, p.to)
<1>9. q \in Nat /\ Tokens(p) = (q + 3) \div 4 /\ ChunkTokens \in Nat
  BY <1>8, ChunkingAssumptions DEF Tokens
<1>10. (Fits(p) <=> Tokens(p) <= ChunkTokens) /\ (p \in Small <=> q < 4 * ChunkTokens + 4)
  BY DEF Fits, Small
<1> HIDE DEF q
<1>11. (q + 3) \div 4 \in Nat /\ ((q + 3) \div 4 <= ChunkTokens => q < 4 * ChunkTokens + 4)
       /\ (q < 4 * ChunkTokens + 4 => (q + 3) \div 4 <= ChunkTokens + 1)
  BY <1>9
<1> QED BY <1>1, <1>2, <1>3, <1>4, <1>8, <1>9, <1>10, <1>11

(* A part of the text by its ends.                                          *)
LEMMA PieceIs ==
  ASSUME TextOK, NEW a \in Nat, NEW b \in Nat, 1 <= a, a <= b, b <= Len(passage)
  PROVE  /\ Piece(a, b) \in Stretches /\ Piece(a, b).from = a /\ Piece(a, b).to = b
         /\ Quarters(a, b) < 4 * ChunkTokens + 4 => Piece(a, b) \in Small
<1>1. Piece(a, b) \in Span
  BY DEF Piece, Span
<1>2. Piece(a, b).from = a /\ Piece(a, b).to = b
  BY DEF Piece
<1> QED BY <1>1, <1>2 DEF Stretches, Small

-----------------------------------------------------------------------------
(* The pieces of s, each of G, follow one another from a to b.              *)
Follow(s, a, b, G) ==
  /\ s \in Seq(G)
  /\ Len(s) = 0 => b = a - 1
  /\ Len(s) > 0 => s[1].from = a /\ s[Len(s)].to = b
  /\ \A i \in 1 .. (Len(s) - 1) : s[i + 1].from = s[i].to + 1

(* Of nothing all pieces follow.                                            *)
LEMMA NothingFollows ==
  ASSUME NEW a, NEW G
  PROVE  Follow(<<>>, a, a - 1, G)
<1>1. <<>> \in Seq(G) /\ Len(<<>>) = 0
  OBVIOUS
<1> QED BY <1>1 DEF Follow

(* One piece is all of itself.                                              *)
LEMMA OneFollows ==
  ASSUME NEW p, NEW G, p \in G
  PROVE  Follow(<<p>>, p.from, p.to, G)
<1>1. <<p>> \in Seq(G) /\ Len(<<p>>) = 1 /\ <<p>>[1] = p
  OBVIOUS
<1> DEFINE s == <<p>>
<1> HIDE DEF s
<1> QED BY <1>1 DEF Follow, s

(* What is put behind it.                                                   *)
LEMMA JoinFollows ==
  ASSUME NEW s, NEW t, NEW G, NEW a \in Int, NEW m \in Int, NEW b \in Int, NEW c \in Int,
         Follow(s, a, m, G), c = m + 1, Follow(t, c, b, G)
  PROVE  Follow(s \o t, a, b, G)
<1>1. s \in Seq(G) /\ t \in Seq(G)
  BY DEF Follow
<1> DEFINE u == s \o t
           k == Len(s)
           n == Len(t)
<1>2. /\ u \in Seq(G) /\ k \in Nat /\ n \in Nat /\ Len(u) = k + n
      /\ \A i \in 1..k : u[i] = s[i]
      /\ \A i \in (k + 1)..(k + n) : i - k \in 1..n /\ u[i] = t[i - k]
  BY <1>1, ConcatIs
<1>3. /\ k = 0 => m = a - 1
      /\ k > 0 => s[1].from = a /\ s[k].to = m
      /\ \A i \in 1 .. (k - 1) : s[i + 1].from = s[i].to + 1
  BY DEF Follow
<1>4. /\ n = 0 => b = c - 1
      /\ n > 0 => t[1].from = c /\ t[n].to = b
      /\ \A i \in 1 .. (n - 1) : t[i + 1].from = t[i].to + 1
  BY DEF Follow
<1> HIDE DEF u, k, n
<1>5. k + n = 0 => b = a - 1
  BY <1>2, <1>3, <1>4
<1>6. k + n > 0 => u[1].from = a /\ u[k + n].to = b
  <2>1. CASE k = 0 /\ n > 0
    <3>1. u[1] = t[1] /\ u[n] = t[n] /\ k + n = n
      BY <1>2, <2>1
    <3>2. c = a
      BY <1>3, <2>1
    <3> QED BY <1>4, <2>1, <3>1, <3>2
  <2>2. CASE k > 0 /\ n > 0
    <3>1. u[1] = s[1] /\ u[k + n] = t[(k + n) - k] /\ (k + n) - k = n
      BY <1>2, <2>2
    <3> QED BY <1>3, <1>4, <2>2, <3>1
  <2>3. CASE n = 0 /\ k > 0
    <3>1. u[1] = s[1] /\ u[k] = s[k] /\ k + n = k /\ b = m
      BY <1>2, <1>4, <2>3
    <3> QED BY <1>3, <2>3, <3>1
  <2> QED BY <1>2, <2>1, <2>2, <2>3
<1>7. \A i \in 1 .. (k + n - 1) : u[i + 1].from = u[i].to + 1
  <2> TAKE i \in 1 .. (k + n - 1)
  <2>1. CASE i < k
    <3>1. i \in 1 .. (k - 1) /\ u[i] = s[i] /\ u[i + 1] = s[i + 1]
      BY <1>2, <2>1
    <3> QED BY <1>3, <3>1
  <2>2. CASE i = k
    <3>1. u[i] = s[k] /\ u[i + 1] = t[(k + 1) - k] /\ (k + 1) - k = 1 /\ k > 0 /\ n > 0
      BY <1>2, <2>2
    <3> QED BY <1>3, <1>4, <3>1
  <2>3. CASE i > k
    <3>1. i - k \in 1 .. (n - 1) /\ u[i] = t[i - k] /\ u[i + 1] = t[(i + 1) - k]
          /\ (i + 1) - k = (i - k) + 1
      BY <1>2, <2>3
    <3> QED BY <1>4, <3>1
  <2> QED BY <1>2, <2>1, <2>2, <2>3
<1>8. Follow(u, a, b, G)
  BY <1>2, <1>5, <1>6, <1>7 DEF Follow
<1> QED BY <1>8, Zenon DEF u

(* One more piece behind the others.                                        *)
LEMMA NextFollows ==
  ASSUME NEW s, NEW p, NEW G, NEW a \in Int, NEW m \in Int,
         Follow(s, a, m, G), p \in G, p.from = m + 1, p.to \in Int
  PROVE  Follow(Append(s, p), a, p.to, G)
<1>1. Append(s, p) = s \o <<p>>
  <2>1. s \in Seq(G)
    BY DEF Follow
  <2> QED BY <2>1
<1>2. Follow(<<p>>, p.from, p.to, G)
  BY OneFollows
<1>3. Follow(s \o <<p>>, a, p.to, G)
  BY <1>2, JoinFollows
<1> QED BY <1>1, <1>3, Zenon

(* Pieces of a kind are pieces of a wider one.                              *)
LEMMA FollowsWider ==
  ASSUME NEW s, NEW a, NEW b, NEW G, NEW H, G \subseteq H, Follow(s, a, b, G)
  PROVE  Follow(s, a, b, H)
<1>1. s \in Seq(G)
  BY DEF Follow
<1>2. s \in Seq(H)
  BY <1>1
<1> QED BY <1>2 DEF Follow

-----------------------------------------------------------------------------
(* A text as far as it has been cut.                                        *)
LEMMA CutToIs ==
  ASSUME NEW st \in Begun, NEW n \in Nat, NEW a \in Nat, NEW G,
         G \subseteq Span, Follow(st.done, a, st.from - 1, G), Piece(st.from, n) \in G
  PROVE  /\ CutTo(st, n) \in Begun /\ CutTo(st, n).from = n + 1
         /\ Follow(CutTo(st, n).done, a, n, G)
<1> DEFINE p == Piece(st.from, n)
           longer == Append(st.done, p)
<1>1. CutTo(st, n) = [done |-> longer, from |-> n + 1]
  BY DEF CutTo
<1>2. p.from = st.from /\ p.to = n /\ p \in G
  BY DEF Piece
<1>3. st.from \in Nat
  BY DEF Begun
<1> HIDE DEF p
<1>4. Follow(longer, a, n, G)
  <2>1. st.from - 1 \in Int /\ p.from = (st.from - 1) + 1
    BY <1>2, <1>3
  <2> QED BY <1>2, <2>1, NextFollows
<1>5. longer \in Seq(Span)
  <2>1. longer \in Seq(G)
    BY <1>4 DEF Follow
  <2> HIDE DEF longer
  <2> QED BY <2>1
<1> HIDE DEF longer
<1>6. CutTo(st, n) \in Begun
  BY <1>1, <1>5 DEF Begun
<1>7. CutTo(st, n).done = longer /\ CutTo(st, n).from = n + 1
  BY <1>1
<1> QED BY <1>4, <1>6, <1>7

(* Nothing cut yet.                                                         *)
LEMMA NothingCut ==
  ASSUME NEW a \in Nat, NEW G
  PROVE  LET st == [done |-> <<>>, from |-> a]
         IN  st \in Begun /\ st.from = a /\ Follow(st.done, a, st.from - 1, G)
<1> DEFINE st == [done |-> <<>>, from |-> a]
<1>1. <<>> \in Seq(Span)
  OBVIOUS
<1>2. st \in Begun /\ st.from = a /\ st.done = <<>>
  BY <1>1 DEF Begun
<1> HIDE DEF st
<1>3. Follow(st.done, a, st.from - 1, G)
  BY <1>2, NothingFollows
<1> QED BY <1>2, <1>3 DEF st

(* A hard split is all of its piece, in pieces that exceed a chunk by less  *)
(* than a token: a piece ends with the character that fills it, and no      *)
(* character weighs more than a token.                                      *)
LEMMA HardSplitFollows ==
  ASSUME TextOK, NEW p \in Stretches
  PROVE  Follow(HardSplit(p), p.from, p.to, Small)
<1> DEFINE a == p.from
           b == p.to
           length == p.to - p.from + 1
           first == [done |-> <<>>, from |-> p.from]
           round == [k \in 1..length |-> Fill(a + k - 1)]
           filled == Loop(first, round, length)
           D == [k \in 0 .. length |-> {st \in Begun :
                   /\ a <= st.from /\ st.from <= a + k
                   /\ Follow(st.done, a, st.from - 1, Small)
                   /\ Quarters(st.from, a + k - 1) < 4 * ChunkTokens}]
<1>1. /\ a \in 1 .. Len(passage) /\ b \in 1 .. Len(passage) /\ a <= b
      /\ a \in Nat /\ b \in Nat /\ Len(passage) \in Nat /\ ChunkTokens \in Nat \ {0}
  BY WithinIs, ChunkingAssumptions
<1>2. length \in Nat /\ a + length = b + 1 /\ length = b - a + 1
  BY <1>1
<1>3. HardSplit(p) = IF filled.from > b THEN filled.done ELSE CutTo(filled, b).done
  BY DEF HardSplit
<1>4. Small \subseteq Span
  BY DEF Small, Stretches
<1>5. \A n \in 1 .. Len(passage) + 1 : Quarters(n, n - 1) = 0
  <2> TAKE n \in 1 .. Len(passage) + 1
  <2>1. n - 1 \in 0 .. Len(passage)
    BY <1>1
  <2>2. Weighed(n - 1) \in Nat
    BY <2>1, WeighedIs
  <2> QED BY <2>2 DEF Quarters
<1>6. first \in D[0]
  <2>1. first \in Begun /\ first.from = a /\ Follow(first.done, a, first.from - 1, Small)
    BY <1>1, NothingCut
  <2>2. Quarters(a, a + 0 - 1) < 4 * ChunkTokens
    <3>1. a + 0 - 1 = a - 1 /\ a \in 1 .. Len(passage) + 1
      BY <1>1
    <3> QED BY <1>1, <1>5, <3>1
  <2> HIDE DEF first, a
  <2> QED BY <1>1, <1>2, <2>1, <2>2
<1> HIDE DEF a, b, length
<1>7. ASSUME NEW k \in 1 .. length, NEW st \in D[k - 1]
      PROVE  round[k][st] \in D[k]
  <2> DEFINE n == a + k - 1
  <2>1. k - 1 \in 0 .. length /\ k \in 0 .. length /\ n \in 1 .. Len(passage) /\ n <= b
        /\ n \in Nat /\ n = a + (k - 1) /\ n + 1 \in 1 .. Len(passage) + 1
        /\ (n + 1) - 1 = n /\ a + (k - 1) - 1 = n - 1 /\ n - 1 \in 0 .. Len(passage)
        /\ n \in 0 .. Len(passage) /\ n + 1 <= a + k
    BY <1>1, <1>2
  <2>2. /\ st \in Begun /\ a <= st.from /\ st.from <= a + (k - 1)
        /\ Follow(st.done, a, st.from - 1, Small)
        /\ Quarters(st.from, n - 1) < 4 * ChunkTokens
    BY <2>1
  <2>3. st.from \in Nat
    BY <2>2 DEF Begun
  <2> HIDE DEF n
  <2>4. round[k][st] = IF Quarters(st.from, n) >= 4 * ChunkTokens THEN CutTo(st, n) ELSE st
    BY <2>2 DEF Fill, n
  <2>5. Quarters(st.from, n) < 4 * ChunkTokens + 4 /\ Quarters(st.from, n) \in Int
    <3>1. st.from - 1 \in 0 .. Len(passage)
      BY <1>1, <2>1, <2>2, <2>3
    <3>2. /\ Weighed(n) <= Weighed(n - 1) + 4 /\ Weighed(n) \in Nat /\ Weighed(n - 1) \in Nat
          /\ Weighed(st.from - 1) \in Nat
      BY <2>1, <3>1, WeighedIs
    <3>3. Weighed(n - 1) - Weighed(st.from - 1) < 4 * ChunkTokens
      BY <2>2 DEF Quarters
    <3> HIDE DEF n
    <3> QED BY <1>1, <3>2, <3>3 DEF Quarters
  <2>6. CASE Quarters(st.from, n) >= 4 * ChunkTokens
    <3>1. Piece(st.from, n) \in Small
      BY <1>1, <2>1, <2>2, <2>3, <2>5, PieceIs
    <3>2. /\ CutTo(st, n) \in Begun /\ CutTo(st, n).from = n + 1
          /\ Follow(CutTo(st, n).done, a, n, Small)
      BY <1>1, <1>4, <2>1, <2>2, <3>1, CutToIs
    <3>3. Quarters(n + 1, n) < 4 * ChunkTokens
      <4>1. Quarters(n + 1, n) = 0
        BY <1>5, <2>1
      <4> QED BY <1>1, <4>1
    <3> DEFINE next == CutTo(st, n)
    <3> HIDE DEF next, n, a
    <3>4. /\ next \in Begun /\ a <= next.from /\ next.from <= a + k
          /\ Follow(next.done, a, next.from - 1, Small)
          /\ Quarters(next.from, n) < 4 * ChunkTokens
      BY <1>1, <2>1, <2>2, <2>3, <3>2, <3>3 DEF next
    <3>5. next \in D[k]
      BY <2>1, <3>4 DEF n
    <3> QED BY <2>4, <2>6, <3>5 DEF next
  <2>7. CASE ~ (Quarters(st.from, n) >= 4 * ChunkTokens)
    <3>1. Quarters(st.from, n) < 4 * ChunkTokens
      BY <1>1, <2>5, <2>7
    <3>2. st.from <= a + k
      BY <1>1, <2>2, <2>3
    <3>3. st \in D[k]
      BY <2>1, <2>2, <3>1, <3>2
    <3> QED BY <2>4, <2>7, <3>3
  <2> QED BY <2>6, <2>7
<1>8. filled \in D[length]
  <2> HIDE DEF D, round, first, length
  <2> QED BY <1>2, <1>6, <1>7, LoopKeeps
<1> HIDE DEF filled
<1>9. /\ filled \in Begun /\ a <= filled.from /\ filled.from <= b + 1
      /\ Follow(filled.done, a, filled.from - 1, Small)
      /\ Quarters(filled.from, b) < 4 * ChunkTokens
  <2>1. length \in 0 .. length /\ a + length - 1 = b
    BY <1>1, <1>2
  <2> HIDE DEF length, a, b
  <2> QED BY <1>2, <1>8, <2>1
<1>10. filled.from \in Nat
  BY <1>9 DEF Begun
<1>11. ASSUME filled.from > b PROVE Follow(HardSplit(p), a, b, Small)
  <2>1. filled.from - 1 = b
    BY <1>1, <1>9, <1>10, <1>11
  <2> QED BY <1>3, <1>9, <1>11, <2>1
<1>12. ASSUME ~ (filled.from > b) PROVE Follow(HardSplit(p), a, b, Small)
  <2>1. filled.from - 1 \in 0 .. Len(passage) /\ filled.from <= b /\ 1 <= filled.from
    BY <1>1, <1>9, <1>10, <1>12
  <2>2. Quarters(filled.from, b) < 4 * ChunkTokens + 4
    <3>1. Weighed(b) \in Nat /\ Weighed(filled.from - 1) \in Nat
      BY <1>1, <2>1, WeighedIs
    <3>2. Quarters(filled.from, b) \in Int
      BY <3>1 DEF Quarters
    <3> QED BY <1>1, <1>9, <3>2
  <2>3. Piece(filled.from, b) \in Small
    BY <1>1, <1>10, <2>1, <2>2, PieceIs
  <2>4. Follow(CutTo(filled, b).done, a, b, Small)
    BY <1>1, <1>4, <1>9, <2>3, CutToIs
  <2> QED BY <1>3, <1>12, <2>4
<1> QED BY <1>11, <1>12 DEF a, b

(* Where a part ends that has a separator.                                  *)
LEMMA FoundIs ==
  ASSUME NEW sep, NEW n \in Nat, Len(sep) \in Nat \ {0}, NEW a \in Nat, NEW b \in Nat,
         Found(sep, a, b) # {}, n = Min(Found(sep, a, b)) + Len(sep) - 1
  PROVE  a <= n /\ n <= b
<1> DEFINE F == Found(sep, a, b)
<1>1. F \subseteq a .. (b - Len(sep) + 1)
  BY DEF Found
<1>2. F \in SUBSET Nat /\ F # {}
  BY <1>1
<1> HIDE DEF F
<1>3. \E x \in F : \A y \in F : x <= y
  BY <1>2, SmallestMember
<1>4. Min(F) \in F
  BY <1>3, Zenon DEF Min
<1> QED BY <1>1, <1>4 DEF F

(* The parts between separators are all of their piece.                     *)
LEMMA PartsFollow ==
  ASSUME TextOK, NEW p \in Stretches, NEW sep, Len(sep) \in Nat \ {0}
  PROVE  Follow(Parts(sep, p), p.from, p.to, Stretches)
<1> DEFINE a == p.from
           b == p.to
           length == p.to - p.from + 1
           first == [done |-> <<>>, from |-> p.from]
           round == [k \in 1..length |-> NextPart(sep, b)]
           cut == Loop(first, round, length)
           S == {st \in Begun : /\ a <= st.from /\ st.from <= b + 1
                                /\ Follow(st.done, a, st.from - 1, Stretches)}
           D == [k \in 0 .. length |-> S]
<1>1. /\ a \in 1 .. Len(passage) /\ b \in 1 .. Len(passage) /\ a <= b
      /\ a \in Nat /\ b \in Nat /\ Len(passage) \in Nat
  BY WithinIs
<1>2. length \in Nat
  BY <1>1
<1>3. Parts(sep, p) = IF cut.from > b THEN cut.done ELSE CutTo(cut, b).done
  BY DEF Parts, LastPart
<1>4. Stretches \subseteq Span
  BY DEF Stretches
<1>5. first \in S
  <2>1. first \in Begun /\ first.from = a /\ Follow(first.done, a, first.from - 1, Stretches)
    BY <1>1, NothingCut
  <2> HIDE DEF first, a, b
  <2> QED BY <1>1, <2>1
<1> HIDE DEF a, b, length
<1>6. ASSUME NEW st \in S PROVE NextPart(sep, b)[st] \in S
  <2> DEFINE F == Found(sep, st.from, b)
             n == Min(F) + Len(sep) - 1
  <2>1. /\ st \in Begun /\ a <= st.from /\ st.from <= b + 1
        /\ Follow(st.done, a, st.from - 1, Stretches)
    OBVIOUS
  <2>2. st.from \in Nat
    BY <2>1 DEF Begun
  <2>3. NextPart(sep, b)[st] = IF F = {} THEN st ELSE CutTo(st, n)
    BY <2>1 DEF NextPart
  <2>4. CASE F # {}
    <3>1. n \in Nat
      <4>1. F \subseteq st.from .. (b - Len(sep) + 1)
        BY DEF Found
      <4>2. F \in SUBSET Nat
        BY <1>1, <2>2, <4>1
      <4> HIDE DEF F
      <4>3. \E x \in F : \A y \in F : x <= y
        BY <2>4, <4>2, SmallestMember
      <4>4. Min(F) \in F
        BY <4>3, Zenon DEF Min
      <4>5. Min(F) \in Nat
        BY <4>2, <4>4
      <4> QED BY <4>5
    <3>2. st.from <= n /\ n <= b
      BY <1>1, <2>2, <2>4, <3>1, FoundIs
    <3> HIDE DEF n, F
    <3>3. 1 <= st.from /\ n <= Len(passage)
      BY <1>1, <2>1, <2>2, <3>1, <3>2
    <3>4. Piece(st.from, n) \in Stretches
      BY <2>2, <3>1, <3>2, <3>3, PieceIs
    <3>5. /\ CutTo(st, n) \in Begun /\ CutTo(st, n).from = n + 1
          /\ Follow(CutTo(st, n).done, a, n, Stretches)
      BY <1>1, <1>4, <2>1, <3>1, <3>4, CutToIs
    <3> DEFINE next == CutTo(st, n)
    <3> HIDE DEF next
    <3>6. next.from - 1 = n /\ a <= next.from /\ next.from <= b + 1
      BY <1>1, <2>1, <2>2, <3>1, <3>2, <3>5 DEF next
    <3>7. next \in S
      BY <3>5, <3>6 DEF next
    <3> QED BY <2>3, <2>4, <3>7 DEF next
  <2>5. CASE F = {}
    BY <2>3, <2>5
  <2> QED BY <2>4, <2>5
<1>7. cut \in S
  <2>1. first \in D[0] /\ \A i \in 1 .. length : \A x \in D[i - 1] : round[i][x] \in D[i]
    <3> HIDE DEF S, first
    <3>1. \A i \in 1 .. length : i \in 0 .. length /\ i - 1 \in 0 .. length
      BY <1>2
    <3>2. \A i \in 1 .. length : round[i] = NextPart(sep, b)
      OBVIOUS
    <3> QED BY <1>2, <1>5, <1>6, <3>1, <3>2
  <2>2. cut \in D[length]
    <3> HIDE DEF D, round, first
    <3> QED BY <1>2, <2>1, LoopKeeps
  <2> HIDE DEF S, cut
  <2> QED BY <1>2, <2>2
<1> HIDE DEF cut
<1>8. /\ cut \in Begun /\ a <= cut.from /\ cut.from <= b + 1
      /\ Follow(cut.done, a, cut.from - 1, Stretches)
  BY <1>7
<1>9. cut.from \in Nat
  BY <1>8 DEF Begun
<1>10. ASSUME cut.from > b PROVE Follow(Parts(sep, p), a, b, Stretches)
  <2>1. cut.from - 1 = b
    BY <1>1, <1>8, <1>9, <1>10
  <2> QED BY <1>3, <1>8, <1>10, <2>1
<1>11. ASSUME ~ (cut.from > b) PROVE Follow(Parts(sep, p), a, b, Stretches)
  <2>1. cut.from <= b /\ 1 <= cut.from /\ b <= Len(passage)
    BY <1>1, <1>8, <1>9, <1>11
  <2>2. Piece(cut.from, b) \in Stretches
    BY <1>1, <1>9, <2>1, PieceIs
  <2>3. Follow(CutTo(cut, b).done, a, b, Stretches)
    BY <1>1, <1>4, <1>8, <2>2, CutToIs
  <2> QED BY <1>3, <1>11, <2>3
<1> QED BY <1>10, <1>11 DEF a, b

-----------------------------------------------------------------------------
(* Each piece is put in place of what it was cut from.                      *)
LEMMA DivideFollows ==
  ASSUME NEW cut, NEW pieces, NEW a \in Nat, NEW b \in Nat, NEW G,
         G \subseteq Span, Follow(pieces, a, b, Stretches),
         \A p \in Stretches : Follow(cut[p], p.from, p.to, G)
  PROVE  Follow(Divide(cut)[pieces], a, b, G)
<1> DEFINE n == Len(pieces)
           round == [i \in DOMAIN pieces |-> [done \in Seq(Span) |-> done \o cut[pieces[i]]]]
           end == [i \in 0 .. n |-> IF i = 0 THEN a - 1 ELSE pieces[i].to]
           D == [i \in 0 .. n |-> {done \in Seq(Span) : Follow(done, a, end[i], G)}]
<1>1. /\ pieces \in Seq(Stretches) /\ n \in Nat
      /\ n = 0 => b = a - 1
      /\ n > 0 => pieces[1].from = a /\ pieces[n].to = b
      /\ \A i \in 1 .. (n - 1) : pieces[i + 1].from = pieces[i].to + 1
  BY DEF Follow
<1>2. DOMAIN pieces = 1 .. n /\ \A i \in 1 .. n : pieces[i] \in Stretches
  BY <1>1, SeqIs
<1>3. Stretches \subseteq Span
  BY DEF Stretches
<1>4. pieces \in Seq(Span)
  BY <1>1, <1>3
<1>5. Divide(cut)[pieces] = Loop(<<>>, round, n)
  BY <1>4 DEF Divide
<1>6. <<>> \in D[0]
  <2>1. Follow(<<>>, a, a - 1, G)
    BY NothingFollows
  <2>2. <<>> \in Seq(Span) /\ end[0] = a - 1 /\ 0 \in 0 .. n
    BY <1>1
  <2> QED BY <2>1, <2>2
<1>7. \A i \in 1 .. n : pieces[i].from \in Nat /\ pieces[i].to \in Nat
  BY <1>2, <1>3 DEF Span
<1>8. ASSUME NEW i \in 1 .. n, NEW done \in D[i - 1] PROVE round[i][done] \in D[i]
  <2>1. i \in 0 .. n /\ i - 1 \in 0 .. n /\ i \in DOMAIN pieces
    BY <1>1, <1>2
  <2>2. done \in Seq(Span) /\ Follow(done, a, end[i - 1], G)
    BY <2>1
  <2>3. pieces[i].from = end[i - 1] + 1
    <3>1. CASE i = 1
      BY <1>1, <2>1, <3>1
    <3>2. CASE i # 1
      <4>1. i - 1 \in 1 .. (n - 1) /\ (i - 1) + 1 = i /\ i - 1 # 0
        BY <1>1, <3>2
      <4>2. end[i - 1] = pieces[i - 1].to
        BY <2>1, <4>1
      <4> HIDE DEF end
      <4> QED BY <1>1, <4>1, <4>2
    <3> QED BY <3>1, <3>2
  <2>4. Follow(cut[pieces[i]], pieces[i].from, pieces[i].to, G)
    BY <1>2
  <2>5. round[i][done] = done \o cut[pieces[i]]
    BY <2>1, <2>2
  <2>6. end[i] = pieces[i].to /\ end[i - 1] \in Int
    BY <1>7, <2>1
  <2> HIDE DEF end
  <2>7. Follow(done \o cut[pieces[i]], a, end[i], G)
    BY <1>7, <2>2, <2>3, <2>4, <2>6, JoinFollows
  <2>8. done \o cut[pieces[i]] \in Seq(Span)
    <3> DEFINE u == done \o cut[pieces[i]]
    <3> HIDE DEF u
    <3>1. u \in Seq(G)
      BY <2>7 DEF Follow, u
    <3>2. u \in Seq(Span)
      BY <3>1
    <3> QED BY <3>2 DEF u
  <2> QED BY <2>1, <2>5, <2>7, <2>8
<1>9. Loop(<<>>, round, n) \in D[n]
  <2> HIDE DEF D, round
  <2> QED BY <1>1, <1>6, <1>8, LoopKeeps
<1>10. end[n] = b
  BY <1>1
<1>11. n \in 0 .. n
  BY <1>1
<1> HIDE DEF round, end
<1> QED BY <1>5, <1>9, <1>10, <1>11

(* So is what a piece becomes at a separator.                               *)
LEMMA AtSeparatorFollows ==
  ASSUME TextOK, NEW sep, Len(sep) \in Nat \ {0}, NEW p \in Stretches
  PROVE  Follow(AtSeparator(sep)[p], p.from, p.to, Stretches)
<1>1. p \in Span
  BY DEF Stretches
<1>2. \/ AtSeparator(sep)[p] = <<p>>
      \/ AtSeparator(sep)[p] = Parts(sep, p)
  BY <1>1 DEF AtSeparator
<1>3. CASE AtSeparator(sep)[p] = <<p>>
  <2>1. Follow(<<p>>, p.from, p.to, Stretches)
    BY OneFollows
  <2> QED BY <1>3, <2>1
<1>4. CASE AtSeparator(sep)[p] = Parts(sep, p)
  <2>1. Follow(Parts(sep, p), p.from, p.to, Stretches)
    BY PartsFollow
  <2> QED BY <1>4, <2>1
<1> QED BY <1>2, <1>3, <1>4

(* And what it becomes after the last.                                      *)
LEMMA AtLengthFollows ==
  ASSUME TextOK, NEW p \in Stretches
  PROVE  Follow(AtLength[p], p.from, p.to, Small)
<1>1. p \in Span
  BY DEF Stretches
<1>2. AtLength[p] = IF Fits(p) THEN <<p>> ELSE HardSplit(p)
  BY <1>1 DEF AtLength
<1>3. CASE Fits(p)
  <2>1. p \in Small
    BY <1>3, WithinIs
  <2>2. Follow(<<p>>, p.from, p.to, Small)
    BY <2>1, OneFollows
  <2> QED BY <1>2, <1>3, <2>2
<1>4. CASE ~ Fits(p)
  <2>1. Follow(HardSplit(p), p.from, p.to, Small)
    BY HardSplitFollows
  <2> QED BY <1>2, <1>4, <2>1
<1> QED BY <1>3, <1>4

(* The pieces of a text are all of it.                                      *)
LEMMA PiecesFollow ==
  ASSUME TextOK, passage # <<>>
  PROVE  Follow(Pieces, 1, Len(passage), Small)
<1> DEFINE N == Len(passage)
           first == <<Piece(1, N)>>
           round == [i \in DOMAIN Separators |-> Divide(AtSeparator(Separators[i]))]
           parts == Loop(first, round, Len(Separators))
           S == {pieces \in Seq(Span) : Follow(pieces, 1, N, Stretches)}
           D == [i \in 0 .. Len(Separators) |-> S]
<1>1. N \in Nat /\ 1 <= N /\ 1 \in Nat
  <2>1. passage \in Seq(DOMAIN Weight)
    BY DEF TextOK
  <2> QED BY <2>1
<1>2. Len(Separators) \in Nat /\ DOMAIN Separators = 1 .. Len(Separators)
      /\ \A i \in DOMAIN Separators : Len(Separators[i]) \in Nat \ {0}
  <2>1. Separators \in Seq(Seq(DOMAIN Weight)) /\ \A i \in DOMAIN Separators : Separators[i] # <<>>
    BY ChunkingAssumptions
  <2>2. Len(Separators) \in Nat /\ DOMAIN Separators = 1 .. Len(Separators)
        /\ \A i \in DOMAIN Separators : Separators[i] \in Seq(DOMAIN Weight)
    BY <2>1, SeqIs
  <2>3. \A i \in DOMAIN Separators : Len(Separators[i]) \in Nat \ {0}
    BY <2>1, <2>2
  <2> QED BY <2>2, <2>3
<1>3. Pieces = Divide(AtLength)[parts]
  BY DEF Pieces
<1>4. Stretches \subseteq Span /\ Small \subseteq Span
  BY DEF Stretches, Small
<1>5. first \in S
  <2> DEFINE p == Piece(1, N)
  <2>1. p \in Stretches /\ p.from = 1 /\ p.to = N
    BY <1>1, PieceIs
  <2> HIDE DEF p
  <2>2. Follow(<<p>>, 1, N, Stretches)
    BY <2>1, OneFollows
  <2>3. <<p>> \in Seq(Span)
    BY <1>4, <2>1
  <2> QED BY <2>2, <2>3 DEF p
<1>6. ASSUME NEW i \in DOMAIN Separators, NEW pieces \in S
      PROVE  round[i][pieces] \in S
  <2> DEFINE cut == AtSeparator(Separators[i])
  <2>1. \A p \in Stretches : Follow(cut[p], p.from, p.to, Stretches)
    BY <1>2, AtSeparatorFollows
  <2> HIDE DEF cut
  <2>2. Follow(Divide(cut)[pieces], 1, N, Stretches)
    BY <1>1, <1>4, <2>1, DivideFollows
  <2>3. round[i][pieces] = Divide(cut)[pieces]
    BY DEF cut
  <2> DEFINE u == Divide(cut)[pieces]
  <2> HIDE DEF u
  <2>4. u \in Seq(Stretches)
    BY <2>2 DEF Follow, u
  <2>5. u \in Seq(Span)
    BY <1>4, <2>4
  <2> HIDE DEF round
  <2> QED BY <2>2, <2>3, <2>5 DEF u
<1>7. parts \in S
  <2>1. first \in D[0] /\ \A i \in 1 .. Len(Separators) : \A x \in D[i - 1] : round[i][x] \in D[i]
    <3> HIDE DEF S, first, round
    <3>1. \A i \in 1 .. Len(Separators) : /\ i \in 0 .. Len(Separators) /\ i - 1 \in 0 .. Len(Separators)
                                          /\ i \in DOMAIN Separators
      BY <1>2
    <3> QED BY <1>2, <1>5, <1>6, <3>1
  <2>2. parts \in D[Len(Separators)]
    <3> HIDE DEF D, round, first
    <3> QED BY <1>2, <2>1, LoopKeeps
  <2> HIDE DEF S, parts
  <2> QED BY <1>2, <2>2
<1> HIDE DEF parts
<1>8. Follow(parts, 1, N, Stretches)
  BY <1>7
<1>9. \A p \in Stretches : Follow(AtLength[p], p.from, p.to, Small)
  BY AtLengthFollows
<1>10. Follow(Divide(AtLength)[parts], 1, N, Small)
  BY <1>1, <1>4, <1>8, <1>9, DivideFollows
<1> QED BY <1>3, <1>10, Zenon

(* Each place of what they cover is in one, and each goes further.          *)
LEMMA FollowCovers ==
  ASSUME TextOK, NEW s, NEW a \in Nat, NEW b \in Nat, Follow(s, a, b, Stretches), NEW n \in a .. b
  PROVE  \E i \in DOMAIN s : n \in s[i].from .. s[i].to
<1>1. s \in Seq(Stretches)
  BY DEF Follow
<1>2. Len(s) \in Nat /\ DOMAIN s = 1 .. Len(s) /\ \A i \in DOMAIN s : s[i] \in Stretches
  BY <1>1, SeqIs
<1>3. \A i \in DOMAIN s : s[i].from \in Nat /\ s[i].to \in Nat
  BY <1>2, WithinIs
<1>4. Len(s) > 0 /\ s[1].from = a /\ s[Len(s)].to = b
  BY <1>2 DEF Follow
<1> DEFINE R == {i \in DOMAIN s : n <= s[i].to}
<1>5. R \in SUBSET Nat /\ Len(s) \in R
  BY <1>2, <1>4
<1>6. PICK i \in R : \A j \in R : i <= j
  BY <1>5, SmallestMember
<1>7. i \in 1 .. Len(s) /\ n <= s[i].to /\ i \in DOMAIN s
  BY <1>2, <1>6
<1>8. s[i].from <= n
  <2>1. CASE i = 1
    BY <1>4, <2>1
  <2>2. CASE i # 1
    <3>1. i - 1 \in 1 .. (Len(s) - 1) /\ (i - 1) + 1 = i /\ i - 1 \in DOMAIN s /\ ~ (i <= i - 1)
      BY <1>2, <1>7, <2>2
    <3>2. i - 1 \notin R
      BY <1>6, <3>1
    <3>3. ~ (n <= s[i - 1].to)
      BY <3>1, <3>2
    <3>4. s[(i - 1) + 1].from = s[i - 1].to + 1
      BY <3>1 DEF Follow
    <3>5. s[i].from = s[i - 1].to + 1
      BY <3>1, <3>4
    <3>6. s[i - 1].to \in Nat
      BY <1>3, <3>1
    <3> QED BY <3>3, <3>5, <3>6
  <2> QED BY <2>1, <2>2
<1>9. n \in s[i].from .. s[i].to
  BY <1>3, <1>7, <1>8
<1> QED BY <1>7, <1>9

(* Of pieces that follow one another the later is further on.               *)
LEMMA FollowClimbs ==
  ASSUME TextOK, NEW s, NEW a, NEW b, Follow(s, a, b, Stretches)
  PROVE  \A i, j \in DOMAIN s : i < j => s[i].to < s[j].to
<1>1. s \in Seq(Stretches)
  BY DEF Follow
<1>2. Len(s) \in Nat /\ DOMAIN s = 1 .. Len(s) /\ \A i \in DOMAIN s : s[i] \in Stretches
  BY <1>1, SeqIs
<1>3. \A i \in DOMAIN s : s[i].from \in Nat /\ s[i].to \in Nat /\ s[i].from <= s[i].to
  BY <1>2, WithinIs
<1> DEFINE S == {j \in Nat : j <= Len(s) => \A i \in 1 .. (j - 1) : s[i].to < s[j].to}
<1>4. 0 \in S
  OBVIOUS
<1>5. ASSUME NEW j \in Nat, j \in S PROVE j + 1 \in S
  <2> SUFFICES ASSUME j + 1 <= Len(s), NEW i \in 1 .. j
               PROVE  s[i].to < s[j + 1].to
    <3>1. (j + 1) - 1 = j
      OBVIOUS
    <3> QED BY <3>1
  <2>1. j \in 1 .. (Len(s) - 1) /\ j \in DOMAIN s /\ j + 1 \in DOMAIN s /\ i \in DOMAIN s
    BY <1>2
  <2>2. s[j + 1].from = s[j].to + 1
    BY <2>1 DEF Follow
  <2>3. s[j].to < s[j + 1].to /\ s[j].to \in Nat /\ s[j + 1].to \in Nat /\ s[i].to \in Nat
    BY <1>3, <2>1, <2>2
  <2>4. CASE i = j
    BY <2>3, <2>4
  <2>5. CASE i # j
    <3>1. i \in 1 .. (j - 1) /\ j <= Len(s)
      BY <1>2, <2>5
    <3>2. s[i].to < s[j].to
      BY <1>5, <3>1
    <3> QED BY <2>3, <3>2
  <2> QED BY <2>4, <2>5
<1>6. Nat \subseteq S
  <2> HIDE DEF S
  <2> QED BY <1>4, <1>5, SetInduction
<1>7. ASSUME NEW i \in DOMAIN s, NEW j \in DOMAIN s, i < j PROVE s[i].to < s[j].to
  <2>1. j \in Nat /\ j <= Len(s) /\ i \in 1 .. (j - 1)
    BY <1>2, <1>7
  <2>2. j \in S
    BY <1>6, <2>1
  <2> QED BY <2>1, <2>2
<1> QED BY <1>7

-----------------------------------------------------------------------------
(* The sum of as many numbers that are the same.                            *)
LEMMA SumAgrees ==
  ASSUME NEW M \in Nat, NEW N \in Nat, NEW f \in [1 .. M -> Nat], NEW g \in [1 .. N -> Nat],
         NEW n \in Nat, n <= M, n <= N, \A i \in 1 .. n : f[i] = g[i]
  PROVE  SumTo(f, n) = SumTo(g, n)
<1> DEFINE S == {i \in 0 .. n : SumTo(f, i) = SumTo(g, i)}
<1>1. 0 \in S
  <2>1. SumTo(f, 0) = 0
    BY SumToRecursion
  <2>2. SumTo(g, 0) = 0
    BY SumToRecursion
  <2> QED BY <2>1, <2>2
<1>2. ASSUME NEW i \in 0 .. n, i \in S /\ i < n PROVE i + 1 \in S
  <2>1. i + 1 \in 1 .. M /\ i + 1 \in 1 .. N /\ i + 1 \in 1 .. n /\ (i + 1) - 1 = i
    BY <1>2
  <2>2. SumTo(f, i + 1) = SumTo(f, i) + f[i + 1]
    BY <2>1, SumToRecursion
  <2>3. SumTo(g, i + 1) = SumTo(g, i) + g[i + 1]
    BY <2>1, SumToRecursion
  <2> QED BY <1>2, <2>1, <2>2, <2>3
<1>3. 0 .. n \subseteq S
  <2> HIDE DEF S
  <2> QED BY <1>1, <1>2, BoundedInduction
<1> QED BY <1>3

(* What a list of pieces is long.                                           *)
LEMMA SizeIs ==
  ASSUME TextOK, NEW s \in Seq(Stretches)
  PROVE  /\ Size(s) \in Nat /\ (s = <<>> => Size(s) = 0)
         /\ \A p \in Stretches : Size(Append(s, p)) = Size(s) + Tokens(p)
<1> DEFINE f == [i \in DOMAIN s |-> Tokens(s[i])]
           N == Len(s)
<1>1. N \in Nat /\ DOMAIN s = 1 .. N /\ \A i \in DOMAIN s : s[i] \in Stretches
  BY SeqIs
<1>2. \A p \in Stretches : Tokens(p) \in Nat
  BY WithinIs
<1>3. f \in [1 .. N -> Nat] /\ Size(s) = SumTo(f, N)
  <2>1. \A i \in DOMAIN s : Tokens(s[i]) \in Nat
    BY <1>1, <1>2
  <2>2. f \in [1 .. N -> Nat]
    BY <1>1, <2>1
  <2> QED BY <2>2 DEF Size
<1>4. Size(s) \in Nat /\ (s = <<>> => Size(s) = 0)
  <2>1. s = <<>> => N = 0
    OBVIOUS
  <2> HIDE DEF f, N
  <2>2. SumTo(f, 0) = 0 /\ SumTo(f, N) \in Nat
    BY <1>1, <1>3, SumToRecursion
  <2> QED BY <1>3, <2>1, <2>2
<1>5. ASSUME NEW p \in Stretches PROVE Size(Append(s, p)) = Size(s) + Tokens(p)
  <2> DEFINE t == Append(s, p)
             g == [i \in DOMAIN t |-> Tokens(t[i])]
  <2>1. /\ t \in Seq(Stretches) /\ Len(t) = N + 1 /\ DOMAIN t = 1 .. (N + 1)
        /\ t[N + 1] = p /\ \A i \in 1 .. N : t[i] = s[i]
    OBVIOUS
  <2> HIDE DEF t
  <2>2. \A i \in DOMAIN t : t[i] \in Stretches
    BY <2>1, SeqIs
  <2>3. g \in [1 .. (N + 1) -> Nat] /\ Size(t) = SumTo(g, N + 1) /\ g[N + 1] = Tokens(p)
        /\ \A i \in 1 .. N : f[i] = g[i]
    BY <1>1, <1>2, <2>1, <2>2 DEF Size
  <2> HIDE DEF f, g, N
  <2>4. SumTo(f, N) = SumTo(g, N)
    BY <1>1, <1>3, <2>3, SumAgrees
  <2>5. SumTo(g, N + 1) = SumTo(g, N) + g[N + 1]
    <3>1. N + 1 \in 1 .. (N + 1) /\ (N + 1) - 1 = N /\ N + 1 \in Nat
      BY <1>1
    <3> QED BY <2>3, <3>1, SumToRecursion
  <2> QED BY <1>3, <2>3, <2>4, <2>5 DEF t
<1> QED BY <1>4, <1>5

-----------------------------------------------------------------------------
(* The overlap: the last pieces of a chunk, as far as there is room.        *)
LEMMA EndingIs ==
  ASSUME TextOK, NEW s \in Seq(Small)
  PROVE  /\ Overlap \in Nat /\ Ending(s) \in Seq(Small) /\ Size(Ending(s)) <= Overlap
<1>1. Overlap \in Nat
  <2>1. ChunkTokens \in Nat \ {0} /\ Share \in Nat
    BY ChunkingAssumptions
  <2>2. ChunkTokens - 1 \in Nat
    BY <2>1
  <2> QED BY <2>1, <2>2, MinOfTwo DEF Overlap
<1> DEFINE fits == {n \in 1..Len(s) : Size(SubSeq(s, n, Len(s))) <= Overlap}
<1>2. Ending(s) = IF fits = {} THEN <<>> ELSE SubSeq(s, Min(fits), Len(s))
  BY DEF Ending
<1>3. CASE fits = {}
  <2>1. Ending(s) = <<>> /\ <<>> \in Seq(Small) /\ <<>> \in Seq(Stretches)
    BY <1>2, <1>3
  <2>2. Size(<<>>) = 0
    BY <2>1, SizeIs
  <2> HIDE DEF fits
  <2> QED BY <1>1, <2>1, <2>2
<1>4. CASE fits # {}
  <2>1. Len(s) \in Nat
    BY SeqIs
  <2>2. fits \in SUBSET Nat
    BY <2>1
  <2> HIDE DEF fits
  <2>3. \E x \in fits : \A y \in fits : x <= y
    BY <1>4, <2>2, SmallestMember
  <2>4. Min(fits) \in fits
    BY <2>3, Zenon DEF Min
  <2> DEFINE m == Min(fits)
  <2>5. m \in 1..Len(s) /\ Size(SubSeq(s, m, Len(s))) <= Overlap
    BY <2>4 DEF fits
  <2>6. Ending(s) = SubSeq(s, m, Len(s))
    BY <1>2, <1>4
  <2> HIDE DEF m
  <2>7. SubSeq(s, m, Len(s)) \in Seq(Small)
    BY <2>5
  <2> QED BY <1>1, <2>5, <2>6, <2>7
<1> QED BY <1>3, <1>4

(* What a chunk may be, where it ends, and that each goes further.          *)
Longest == ChunkTokens + 1 + Overlap
ShortChunks == {c \in Seq(Small) : Len(c) > 0 /\ Size(c) <= Longest}
EndsAt(c) == c[Len(c)].to
Ascends(d) == \A k \in DOMAIN d : k > 1 => EndsAt(d[k]) > EndsAt(d[k - 1])
Holds(d, c, p) == (\E k \in DOMAIN d : \E i \in DOMAIN d[k] : d[k][i] = p)
                  \/ \E i \in DOMAIN c : c[i] = p

(* A chunk with one more piece.                                             *)
LEMMA ChunkPlus ==
  ASSUME TextOK, NEW c \in Seq(Small), NEW p \in Small,
         Size(c) + Tokens(p) <= Longest
  PROVE  /\ Append(c, p) \in ShortChunks /\ EndsAt(Append(c, p)) = p.to
         /\ \E i \in DOMAIN Append(c, p) : Append(c, p)[i] = p
         /\ \A q : (\E i \in DOMAIN c : c[i] = q) => \E i \in DOMAIN Append(c, p) : Append(c, p)[i] = q
<1> DEFINE t == Append(c, p)
<1>1. Small \subseteq Stretches
  BY DEF Small
<1>2. c \in Seq(Stretches) /\ p \in Stretches
  BY <1>1
<1>3. Size(t) <= Longest
  BY <1>2, SizeIs
<1>4. /\ t \in Seq(Small) /\ Len(t) = Len(c) + 1 /\ Len(c) \in Nat /\ DOMAIN t = 1 .. Len(t)
      /\ t[Len(t)] = p /\ DOMAIN c = 1 .. Len(c) /\ \A i \in DOMAIN c : t[i] = c[i]
  OBVIOUS
<1> HIDE DEF t
<1>5. t \in ShortChunks
  BY <1>3, <1>4 DEF ShortChunks
<1>6. EndsAt(t) = p.to
  BY <1>4 DEF EndsAt
<1>7. Len(t) \in DOMAIN t /\ \A i \in DOMAIN c : i \in DOMAIN t
  BY <1>4
<1>8. \A q : (\E i \in DOMAIN c : c[i] = q) => \E i \in DOMAIN t : t[i] = q
  BY <1>4, <1>7
<1>9. \E i \in DOMAIN t : t[i] = p
  BY <1>4, <1>7
<1> QED BY <1>5, <1>6, <1>8, <1>9, Zenon DEF t

(* The chunks with one more.                                                *)
LEMMA ChunksPlus ==
  ASSUME NEW d \in Seq(ShortChunks), NEW c \in ShortChunks, Ascends(d),
         \A k \in DOMAIN d : EndsAt(d[k]) < EndsAt(c)
  PROVE  /\ Append(d, c) \in Seq(ShortChunks) /\ Ascends(Append(d, c))
         /\ \A k \in DOMAIN Append(d, c) : EndsAt(Append(d, c)[k]) < EndsAt(c)
                                           \/ EndsAt(Append(d, c)[k]) = EndsAt(c)
         /\ \A q : Holds(d, c, q) => \A e : Holds(Append(d, c), e, q)
<1> DEFINE t == Append(d, c)
<1>1. /\ t \in Seq(ShortChunks) /\ Len(t) = Len(d) + 1 /\ Len(d) \in Nat /\ DOMAIN t = 1 .. Len(t)
      /\ t[Len(t)] = c /\ DOMAIN d = 1 .. Len(d) /\ \A i \in DOMAIN d : t[i] = d[i]
  OBVIOUS
<1> HIDE DEF t
<1>2. Len(t) \in DOMAIN t /\ \A i \in DOMAIN d : i \in DOMAIN t
  BY <1>1
<1>3. ASSUME NEW k \in DOMAIN t, k > 1 PROVE EndsAt(t[k]) > EndsAt(t[k - 1])
  <2>1. k - 1 \in DOMAIN d /\ t[k - 1] = d[k - 1]
    BY <1>1, <1>3
  <2>2. CASE k = Len(t)
    <3>1. t[k] = c
      BY <1>1, <2>2
    <3>2. EndsAt(d[k - 1]) < EndsAt(c)
      BY <2>1
    <3> QED BY <2>1, <3>1, <3>2
  <2>3. CASE k # Len(t)
    <3>1. k \in DOMAIN d /\ t[k] = d[k]
      BY <1>1, <2>3
    <3> QED BY <1>3, <2>1, <3>1 DEF Ascends
  <2> QED BY <2>2, <2>3
<1>4. \A k \in DOMAIN t : EndsAt(t[k]) < EndsAt(c) \/ EndsAt(t[k]) = EndsAt(c)
  <2> TAKE k \in DOMAIN t
  <2>1. k = Len(t) \/ k \in DOMAIN d
    BY <1>1
  <2>2. CASE k = Len(t)
    BY <1>1, <2>2
  <2>3. CASE k \in DOMAIN d
    BY <1>1, <2>3
  <2> QED BY <2>1, <2>2, <2>3
<1>5. \A q : Holds(d, c, q) => \A e : Holds(t, e, q)
  BY <1>1, <1>2, Zenon DEF Holds
<1>6. Ascends(t)
  BY <1>3 DEF Ascends
<1> QED BY <1>1, <1>4, <1>5, <1>6, Zenon DEF t

(* A chunk has pieces, and an end.                                          *)
LEMMA GoodIs ==
  ASSUME TextOK, NEW c \in ShortChunks
  PROVE  c \in Seq(Small) /\ c \in Seq(Span) /\ Len(c) > 0 /\ c # <<>> /\ EndsAt(c) \in Nat
<1>1. Small \subseteq Stretches /\ Small \subseteq Span
  BY DEF Small, Stretches
<1>2. c \in Seq(Small) /\ Len(c) > 0
  BY DEF ShortChunks
<1>3. c \in Seq(Span) /\ Len(c) \in DOMAIN c /\ c # <<>>
  BY <1>1, <1>2
<1>4. c[Len(c)] \in Small
  BY <1>2, <1>3, SeqIs
<1>5. c[Len(c)].to \in Nat
  BY <1>1, <1>4, WithinIs
<1> QED BY <1>2, <1>3, <1>5 DEF EndsAt

(* The chunks that are done and the one that is filled.                     *)
SoFar(st) ==
  /\ st \in Packing /\ st.done \in Seq(ShortChunks) /\ Ascends(st.done) /\ st.current \in Seq(Small)
  /\ \/ st.done = <<>> /\ st.current = <<>>
     \/ /\ st.current \in ShortChunks
        /\ \A k \in DOMAIN st.done : EndsAt(st.done[k]) < EndsAt(st.current)

(* A round of the packing: the chunk goes on, or ends and the next begins   *)
(* with its tail and the piece, which is further on than all before.        *)
LEMMA PackIs ==
  ASSUME TextOK, NEW st, SoFar(st), NEW p \in Small,
         st.current # <<>> => EndsAt(st.current) < p.to
  PROVE  LET next == Pack(p)[st]
         IN  /\ SoFar(next) /\ next.current \in ShortChunks /\ EndsAt(next.current) = p.to
             /\ Holds(next.done, next.current, p)
             /\ \A q : Holds(st.done, st.current, q) => Holds(next.done, next.current, q)
<1>1. /\ st \in Packing /\ st.done \in Seq(ShortChunks) /\ Ascends(st.done) /\ st.current \in Seq(Small)
      /\ \/ st.done = <<>> /\ st.current = <<>>
         \/ /\ st.current \in ShortChunks
            /\ \A k \in DOMAIN st.done : EndsAt(st.done[k]) < EndsAt(st.current)
  BY DEF SoFar
<1>2. Small \subseteq Stretches /\ Small \subseteq Span
  BY DEF Small, Stretches
<1>3. p \in Stretches /\ Tokens(p) \in Nat /\ Tokens(p) <= ChunkTokens + 1 /\ p.to \in Nat
  BY <1>2, WithinIs
<1>4. ChunkTokens \in Nat \ {0} /\ Overlap \in Nat /\ Longest = ChunkTokens + 1 + Overlap
  BY ChunkingAssumptions, <1>1, EndingIs DEF Longest
<1>5. st.current \in Seq(Stretches)
  BY <1>1, <1>2
<1>6. Size(st.current) \in Nat /\ (st.current = <<>> => Size(st.current) = 0)
  BY <1>5, SizeIs
<1>7. \A c \in ShortChunks : c \in Seq(Small) /\ c \in Seq(Span) /\ Len(c) > 0
  BY GoodIs
<1>8. \A d \in Seq(ShortChunks) : d \in Seq(Seq(Span))
  BY <1>7
<1> DEFINE full == st.current # <<>> /\ Size(st.current) + Tokens(p) > ChunkTokens
           base == IF full THEN Ending(st.current) ELSE st.current
           done == IF full THEN Append(st.done, st.current) ELSE st.done
           current == Append(base, p)
           next == Pack(p)[st]
<1>9. next = [done |-> done, current |-> current]
  <2>1. st = [done |-> st.done, current |-> st.current]
    BY <1>1 DEF Packing
  <2>2. Pack(p)[st] = IF full
                      THEN [done |-> Append(st.done, st.current), current |-> Append(Ending(st.current), p)]
                      ELSE [st EXCEPT !.current = Append(@, p)]
    BY <1>1 DEF Pack
  <2>3. [st EXCEPT !.current = Append(@, p)] = [done |-> st.done, current |-> Append(st.current, p)]
    BY <2>1
  <2> HIDE DEF full
  <2> QED BY <2>2, <2>3
<1>10. base \in Seq(Small) /\ Size(base) + Tokens(p) <= Longest
  <2>1. CASE full
    <3>1. Ending(st.current) \in Seq(Small) /\ Size(Ending(st.current)) <= Overlap
      BY <1>1, EndingIs
    <3>2. Size(Ending(st.current)) \in Nat
      <4>1. Ending(st.current) \in Seq(Stretches)
        BY <1>2, <3>1
      <4> QED BY <4>1, SizeIs
    <3>3. base = Ending(st.current)
      BY <2>1
    <3> HIDE DEF base, full
    <3> QED BY <1>3, <1>4, <3>1, <3>2, <3>3
  <2>2. CASE ~ full
    <3>1. base = st.current
      BY <2>2
    <3>2. Size(st.current) + Tokens(p) <= Longest
      BY <1>3, <1>4, <1>6, <2>2
    <3> QED BY <1>1, <3>1, <3>2
  <2> QED BY <2>1, <2>2
<1> HIDE DEF base
<1>11. /\ current \in ShortChunks /\ EndsAt(current) = p.to
       /\ \E i \in DOMAIN current : current[i] = p
       /\ \A q : (\E i \in DOMAIN base : base[i] = q) => \E i \in DOMAIN current : current[i] = q
  BY <1>10, ChunkPlus
<1> HIDE DEF current
<1>12. next.done = done /\ next.current = current
  BY <1>9
<1>13. CASE full
  <2>1. st.current \in ShortChunks /\ \A k \in DOMAIN st.done : EndsAt(st.done[k]) < EndsAt(st.current)
    BY <1>1, <1>13
  <2>2. done = Append(st.done, st.current)
    BY <1>13
  <2>3. /\ done \in Seq(ShortChunks) /\ Ascends(done)
        /\ \A k \in DOMAIN done : EndsAt(done[k]) < EndsAt(st.current) \/ EndsAt(done[k]) = EndsAt(st.current)
        /\ \A q : Holds(st.done, st.current, q) => \A e : Holds(done, e, q)
    BY <1>1, <2>1, <2>2, ChunksPlus
  <2>4. EndsAt(st.current) < p.to /\ EndsAt(st.current) \in Nat
    BY <1>13, <2>1, GoodIs
  <2> HIDE DEF done, next, full
  <2>5. \A k \in DOMAIN done : EndsAt(done[k]) < EndsAt(current)
    <3>1. \A x : x < EndsAt(st.current) /\ x \in Int => x < p.to
      BY <1>3, <2>4
    <3>2. \A k \in DOMAIN done : EndsAt(done[k]) \in Int
      <4>1. \A k \in DOMAIN done : done[k] \in ShortChunks
        BY <2>3, SeqIs
      <4> QED BY <4>1, GoodIs
    <3> QED BY <1>11, <2>3, <2>4, <3>1, <3>2
  <2>6. next \in Packing
    BY <1>7, <1>8, <1>9, <1>11, <2>3 DEF Packing
  <2>7. SoFar(next)
    BY <1>7, <1>11, <1>12, <2>3, <2>5, <2>6 DEF SoFar
  <2>8. Holds(next.done, next.current, p)
    BY <1>11, <1>12, Zenon DEF Holds
  <2>9. \A q : Holds(st.done, st.current, q) => Holds(next.done, next.current, q)
    BY <1>12, <2>3, Zenon
  <2> QED BY <1>11, <1>12, <2>7, <2>8, <2>9 DEF next
<1>14. CASE ~ full
  <2>1. done = st.done /\ base = st.current
    BY <1>14 DEF base
  <2> HIDE DEF done, next, full
  <2>2. \A k \in DOMAIN done : EndsAt(done[k]) < EndsAt(current)
    <3>1. CASE st.done = <<>>
      BY <2>1, <3>1
    <3>2. CASE st.done # <<>>
      <4>1. st.current \in ShortChunks /\ \A k \in DOMAIN st.done : EndsAt(st.done[k]) < EndsAt(st.current)
        BY <1>1, <3>2
      <4>2. EndsAt(st.current) < p.to /\ EndsAt(st.current) \in Nat
        BY <4>1, GoodIs
      <4>3. \A k \in DOMAIN st.done : st.done[k] \in ShortChunks
        BY <1>1, SeqIs
      <4>4. \A k \in DOMAIN st.done : EndsAt(st.done[k]) \in Nat
        BY <4>3, GoodIs
      <4> QED BY <1>3, <1>11, <2>1, <4>1, <4>2, <4>4
    <3> QED BY <3>1, <3>2
  <2>3. next \in Packing
    BY <1>1, <1>7, <1>8, <1>9, <1>11, <2>1 DEF Packing
  <2>4. SoFar(next)
    BY <1>1, <1>7, <1>11, <1>12, <2>1, <2>2, <2>3 DEF SoFar
  <2>5. Holds(next.done, next.current, p)
    BY <1>11, <1>12, Zenon DEF Holds
  <2>6. \A q : Holds(st.done, st.current, q) => Holds(next.done, next.current, q)
    <3>1. \A q : Holds(st.done, base, q) => Holds(st.done, current, q)
      BY <1>11, Zenon DEF Holds
    <3>2. next.done = st.done /\ next.current = current
      BY <1>12, <2>1
    <3> QED BY <2>1, <3>1, <3>2
  <2> QED BY <1>11, <1>12, <2>4, <2>5, <2>6 DEF next
<1> QED BY <1>13, <1>14

(* What is packed: the pieces that are not blank, in their order.           *)
LEMMA UnitsAre ==
  ASSUME TextOK, NEW G, Pieces \in Seq(G)
  PROVE  /\ Units \in Seq(G)
         /\ (\A i, j \in DOMAIN Pieces : i < j => Pieces[i].to < Pieces[j].to) =>
              \A i, j \in DOMAIN Units : i < j => Units[i].to < Units[j].to
         /\ \A i \in DOMAIN Pieces : ~Blank(Pieces[i]) => \E j \in DOMAIN Units : Units[j] = Pieces[i]
<1> DEFINE S == {p \in ToSet(Pieces) : ~Blank(p)}
<1>1. Units = Only(Pieces, S)
  BY DEF Units
<1>2. \A i \in DOMAIN Pieces : ~Blank(Pieces[i]) => Pieces[i] \in S
  BY DEF ToSet
<1> HIDE DEF S
<1>3. PICK spot : Picks(Pieces, S, Len(Pieces), Units, spot)
  BY <1>1, OnlyPicks
<1>4. Units \in Seq(G)
  BY <1>1, OnlyPicks
<1>5. DOMAIN Units = 1 .. Len(Units) /\ DOMAIN Pieces = 1 .. Len(Pieces)
  BY <1>4, SeqIs
<1>6. /\ spot \in [1 .. Len(Units) -> 1 .. Len(Pieces)]
      /\ \A i, j \in 1 .. Len(Units) : i < j => spot[i] < spot[j]
      /\ \A i \in 1 .. Len(Units) : Units[i] = Pieces[spot[i]] /\ Pieces[spot[i]] \in S
      /\ \A m \in 1 .. Len(Pieces) : Pieces[m] \in S => \E i \in 1 .. Len(Units) : spot[i] = m
  BY <1>3 DEF Picks
<1>7. ASSUME \A i, j \in DOMAIN Pieces : i < j => Pieces[i].to < Pieces[j].to,
             NEW i \in DOMAIN Units, NEW j \in DOMAIN Units, i < j
      PROVE  Units[i].to < Units[j].to
  <2>1. spot[i] \in DOMAIN Pieces /\ spot[j] \in DOMAIN Pieces /\ spot[i] < spot[j]
    BY <1>5, <1>6, <1>7
  <2>2. Units[i] = Pieces[spot[i]] /\ Units[j] = Pieces[spot[j]]
    BY <1>5, <1>6
  <2> QED BY <1>7, <2>1, <2>2
<1>8. ASSUME NEW i \in DOMAIN Pieces, ~Blank(Pieces[i])
      PROVE  \E j \in DOMAIN Units : Units[j] = Pieces[i]
  <2>1. PICK j \in 1 .. Len(Units) : spot[j] = i
    BY <1>2, <1>5, <1>6, <1>8
  <2> QED BY <1>5, <1>6, <2>1
<1> QED BY <1>4, <1>7, <1>8

(* The chunks: each is good and goes further, and all units are in one.     *)
LEMMA ChunksAre ==
  ASSUME TextOK, Units \in Seq(Small),
         \A i, j \in DOMAIN Units : i < j => Units[i].to < Units[j].to
  PROVE  /\ Chunks \in Seq(ShortChunks) /\ Ascends(Chunks)
         /\ \A i \in DOMAIN Units : \E c \in DOMAIN Chunks : \E k \in DOMAIN Chunks[c] :
              Chunks[c][k] = Units[i]
<1> DEFINE u == Units
           N == Len(u)
           first == [done |-> <<>>, current |-> <<>>]
           round == [i \in DOMAIN u |-> Pack(u[i])]
           packed == Loop(first, round, N)
           D == [i \in 0 .. N |-> {st \in Packing :
                   /\ SoFar(st)
                   /\ i = 0 => st.current = <<>>
                   /\ i > 0 => st.current \in ShortChunks /\ EndsAt(st.current) = u[i].to
                   /\ \A j \in 1 .. i : Holds(st.done, st.current, u[j])}]
<1>1. N \in Nat /\ DOMAIN u = 1 .. N /\ \A i \in DOMAIN u : u[i] \in Small
  BY SeqIs
<1>2. Chunks = IF packed.current = <<>> THEN packed.done ELSE Append(packed.done, packed.current)
  BY DEF Chunks
<1> HIDE DEF u, N
<1>3. first \in D[0]
  <2>1. first.done = <<>> /\ first.current = <<>>
    OBVIOUS
  <2>2. <<>> \in Seq(ShortChunks) /\ <<>> \in Seq(Small) /\ <<>> \in Seq(Seq(Span)) /\ <<>> \in Seq(Span)
    OBVIOUS
  <2>3. first \in Packing
    BY <2>2 DEF Packing
  <2>4. Ascends(<<>>)
    BY DEF Ascends
  <2> HIDE DEF first
  <2>5. SoFar(first)
    BY <2>1, <2>2, <2>3, <2>4 DEF SoFar
  <2> QED BY <1>1, <2>1, <2>3, <2>5
<1>4. ASSUME NEW i \in 1 .. N, NEW st \in D[i - 1] PROVE round[i][st] \in D[i]
  <2>1. i \in 0 .. N /\ i - 1 \in 0 .. N /\ i \in DOMAIN u /\ u[i] \in Small
    BY <1>1
  <2>2. /\ SoFar(st)
        /\ i - 1 = 0 => st.current = <<>>
        /\ i - 1 > 0 => st.current \in ShortChunks /\ EndsAt(st.current) = u[i - 1].to
        /\ \A j \in 1 .. (i - 1) : Holds(st.done, st.current, u[j])
    BY <2>1
  <2>3. ASSUME st.current # <<>> PROVE EndsAt(st.current) < u[i].to
    <3>1. i - 1 > 0
      BY <2>1, <2>2, <2>3
    <3>2. i - 1 \in DOMAIN u /\ i - 1 < i
      BY <1>1, <3>1
    <3>3. u[i - 1].to < u[i].to
      BY <2>1, <3>2 DEF u
    <3> QED BY <2>2, <3>1, <3>3
  <2> DEFINE next == Pack(u[i])[st]
  <2>4. /\ SoFar(next) /\ next.current \in ShortChunks /\ EndsAt(next.current) = u[i].to
        /\ Holds(next.done, next.current, u[i])
        /\ \A q : Holds(st.done, st.current, q) => Holds(next.done, next.current, q)
    BY <2>1, <2>2, <2>3, PackIs
  <2>5. round[i][st] = next
    BY <2>1
  <2> HIDE DEF next
  <2>6. \A j \in 1 .. i : Holds(next.done, next.current, u[j])
    <3> TAKE j \in 1 .. i
    <3>1. j = i \/ j \in 1 .. (i - 1)
      BY <2>1
    <3>2. CASE j = i
      BY <2>4, <3>2
    <3>3. CASE j \in 1 .. (i - 1)
      BY <2>2, <2>4, <3>3
    <3> QED BY <3>1, <3>2, <3>3
  <2>7. next \in Packing
    BY <2>4 DEF SoFar
  <2>8. next \in D[i]
    BY <2>1, <2>4, <2>6, <2>7
  <2> QED BY <2>5, <2>8
<1>5. packed \in D[N]
  <2> HIDE DEF D, round, first
  <2> QED BY <1>1, <1>3, <1>4, LoopKeeps
<1> HIDE DEF packed
<1>6. /\ SoFar(packed)
      /\ N = 0 => packed.current = <<>>
      /\ N > 0 => packed.current \in ShortChunks
      /\ \A j \in 1 .. N : Holds(packed.done, packed.current, u[j])
  BY <1>1, <1>5
<1>7. /\ packed.done \in Seq(ShortChunks) /\ Ascends(packed.done)
      /\ packed.current \in ShortChunks => \A k \in DOMAIN packed.done : EndsAt(packed.done[k]) < EndsAt(packed.current)
  <2>1. packed.current \in ShortChunks => packed.current # <<>>
    BY GoodIs
  <2> QED BY <1>6, <2>1 DEF SoFar
<1>8. CASE packed.current = <<>>
  <2>1. \A i \in 1 .. N : \E c \in DOMAIN packed.done : \E k \in DOMAIN packed.done[c] :
          packed.done[c][k] = u[i]
    BY <1>6, <1>8 DEF Holds
  <2> QED BY <1>1, <1>2, <1>7, <1>8, <2>1 DEF u
<1>9. CASE packed.current # <<>>
  <2> DEFINE d == Append(packed.done, packed.current)
  <2>1. packed.current \in ShortChunks
    BY <1>1, <1>6, <1>9
  <2>2. d \in Seq(ShortChunks) /\ Ascends(d)
        /\ \A q : Holds(packed.done, packed.current, q) => \A e : Holds(d, e, q)
    BY <1>7, <2>1, ChunksPlus
  <2>3. Chunks = d
    BY <1>2, <1>9
  <2> HIDE DEF d
  <2>4. \A i \in 1 .. N : Holds(d, <<>>, u[i])
    BY <1>6, <2>2, Zenon
  <2>5. DOMAIN <<>> = {}
    OBVIOUS
  <2>6. \A i \in 1 .. N : \E c \in DOMAIN d : \E k \in DOMAIN d[c] : d[c][k] = u[i]
    BY <2>4, <2>5 DEF Holds
  <2> QED BY <1>1, <2>2, <2>3, <2>6 DEF u
<1> QED BY <1>8, <1>9

-----------------------------------------------------------------------------
(* A text is covered by its pieces, and its words by its chunks.            *)
LEMMA TextIsCoveredAlways ==
  ASSUME TextOK
  PROVE  TextIsCovered
<1>1. Len(passage) \in Nat /\ (passage # <<>> => 1 <= Len(passage))
      /\ DOMAIN passage = 1 .. Len(passage) /\ (passage = <<>> => Len(passage) = 0)
  BY DEF TextOK
<1>2. Small \subseteq Stretches
  BY DEF Small
<1>3. passage = <<>> => Pieces = <<>>
  BY DEF Pieces
<1>4. Pieces \in Seq(Small) /\ \A i, j \in DOMAIN Pieces : i < j => Pieces[i].to < Pieces[j].to
  <2>1. CASE passage = <<>>
    <3>1. <<>> \in Seq(Small) /\ DOMAIN <<>> = {}
      OBVIOUS
    <3> QED BY <1>3, <2>1, <3>1
  <2>2. CASE passage # <<>>
    <3>1. Follow(Pieces, 1, Len(passage), Small)
      BY <2>2, PiecesFollow
    <3>2. Follow(Pieces, 1, Len(passage), Stretches)
      BY <1>2, <3>1, FollowsWider
    <3>3. Pieces \in Seq(Small)
      BY <3>1 DEF Follow
    <3> QED BY <3>2, <3>3, FollowClimbs
  <2> QED BY <2>1, <2>2
<1>5. DOMAIN Pieces = 1 .. Len(Pieces) /\ Len(Pieces) \in Nat /\ \A i \in DOMAIN Pieces : Pieces[i] \in Small
  BY <1>4, SeqIs
<1>6. \A i \in DOMAIN Pieces :
        /\ Pieces[i].from = IF i = 1 THEN 1 ELSE Pieces[i - 1].to + 1
        /\ Pieces[i].from <= Pieces[i].to
        /\ Quarters(Pieces[i].from, Pieces[i].to) < 4 * ChunkTokens + 4
  <2> SUFFICES ASSUME NEW i \in DOMAIN Pieces
               PROVE  /\ Pieces[i].from = IF i = 1 THEN 1 ELSE Pieces[i - 1].to + 1
                      /\ Pieces[i].from <= Pieces[i].to
                      /\ Quarters(Pieces[i].from, Pieces[i].to) < 4 * ChunkTokens + 4
    OBVIOUS
  <2>1. Pieces[i].from <= Pieces[i].to /\ Quarters(Pieces[i].from, Pieces[i].to) < 4 * ChunkTokens + 4
    BY <1>5 DEF Small, Stretches
  <2>2. passage # <<>>
    <3>1. DOMAIN <<>> = {}
      OBVIOUS
    <3> QED BY <1>3, <3>1
  <2>3. Follow(Pieces, 1, Len(passage), Small)
    BY <2>2, PiecesFollow
  <2>4. Len(Pieces) > 0 /\ Pieces[1].from = 1
    BY <1>5, <2>3 DEF Follow
  <2>5. ASSUME i # 1 PROVE Pieces[i].from = Pieces[i - 1].to + 1
    <3>1. i - 1 \in 1 .. (Len(Pieces) - 1) /\ (i - 1) + 1 = i
      BY <1>5, <2>5
    <3>2. Pieces[(i - 1) + 1].from = Pieces[i - 1].to + 1
      BY <2>3, <3>1 DEF Follow
    <3> QED BY <3>1, <3>2
  <2> QED BY <2>1, <2>4, <2>5
<1>7. ASSUME passage # <<>> PROVE Pieces[Len(Pieces)].to = Len(passage)
  <2>1. Follow(Pieces, 1, Len(passage), Small)
    BY <1>7, PiecesFollow
  <2>2. Len(Pieces) # 0
    BY <1>1, <1>7, <2>1 DEF Follow
  <2> QED BY <1>5, <2>1, <2>2 DEF Follow
<1>8. Units \in Seq(Small) /\ \A i, j \in DOMAIN Units : i < j => Units[i].to < Units[j].to
  BY <1>4, UnitsAre
<1>9. /\ Chunks \in Seq(ShortChunks) /\ Ascends(Chunks)
      /\ \A i \in DOMAIN Units : \E c \in DOMAIN Chunks : \E k \in DOMAIN Chunks[c] :
           Chunks[c][k] = Units[i]
  BY <1>8, ChunksAre
<1>10. ASSUME NEW n \in DOMAIN passage, passage[n] \notin Space
       PROVE  \E c \in DOMAIN Chunks : \E i \in DOMAIN Chunks[c] :
                n \in Chunks[c][i].from..Chunks[c][i].to
  <2>1. passage # <<>>
    BY <1>1
  <2>2. Follow(Pieces, 1, Len(passage), Stretches)
    BY <1>2, <2>1, PiecesFollow, FollowsWider
  <2>3. PICK i \in DOMAIN Pieces : n \in Pieces[i].from .. Pieces[i].to
    BY <1>1, <2>2, FollowCovers
  <2>4. ~Blank(Pieces[i])
    BY <1>10, <2>3 DEF Blank
  <2>5. PICK j \in DOMAIN Units : Units[j] = Pieces[i]
    BY <1>4, <2>4, UnitsAre
  <2>6. PICK c \in DOMAIN Chunks : \E k \in DOMAIN Chunks[c] : Chunks[c][k] = Units[j]
    BY <1>9
  <2> QED BY <2>3, <2>5, <2>6
<1>11. ASSUME NEW c \in DOMAIN Chunks
       PROVE  /\ Size(Chunks[c]) <= ChunkTokens + 1 + Overlap
              /\ c > 1 => Chunks[c][Len(Chunks[c])].to > Chunks[c - 1][Len(Chunks[c - 1])].to
  <2>1. Chunks[c] \in ShortChunks
    BY <1>9, SeqIs
  <2>2. Size(Chunks[c]) <= ChunkTokens + 1 + Overlap
    BY <2>1 DEF ShortChunks, Longest
  <2> QED BY <1>9, <2>2 DEF Ascends, EndsAt
<1> QED BY <1>6, <1>7, <1>10, <1>11 DEF TextIsCovered

-----------------------------------------------------------------------------
(* The sections of a page.                                                  *)
PageOK == page \in Seq(Empty..MaxLevel)

(* A page and its lines.                                                    *)
LEMMA PageIs ==
  ASSUME PageOK
  PROVE  /\ Len(page) \in Nat /\ DOMAIN page = 1 .. Len(page)
         /\ \A l \in DOMAIN page : page[l] \in Int
         /\ \A l \in DOMAIN page : page[l] = Words => ~ IsHeading(l)
<1>1. MaxLevel \in Nat
  BY ChunkingAssumptions
<1>2. Len(page) \in Nat /\ DOMAIN page = 1 .. Len(page) /\ \A l \in DOMAIN page : page[l] \in Empty..MaxLevel
  BY SeqIs DEF PageOK
<1>3. \A l \in DOMAIN page : page[l] \in Int
  BY <1>1, <1>2 DEF Empty
<1> QED BY <1>2, <1>3 DEF IsHeading, Words

(* A line is in one section, with the headings that enclose it.             *)
InOne(sections, l) ==
  \E i \in DOMAIN sections :
    /\ l \in sections[i].body /\ l \in sections[i].start..sections[i].end
    /\ \A j \in DOMAIN sections : l \in sections[j].body => j = i
    /\ ToSet(sections[i].path) = {h \in DOMAIN page : Encloses(h, l)}

(* The page as far as line n.                                               *)
ReadTo(st, n) ==
  /\ st \in Reading
  /\ 1 <= st.start /\ (n = 0 => st.start = 1 /\ st.path = <<>>) /\ (n > 0 => st.start <= n)
  /\ st.body = {l \in st.start .. n : ~ IsHeading(l)}
  /\ \A l \in st.start .. n : ToSet(st.path) = {h \in DOMAIN page : Encloses(h, l)}
  /\ \A i \in DOMAIN st.sections : st.sections[i].body \subseteq 1 .. (st.start - 1)
  /\ \A l \in 1 .. (st.start - 1) : page[l] = Words => InOne(st.sections, l)

(* The greater of two.                                                      *)
LEMMA MaxOfTwo ==
  ASSUME NEW a \in Nat, NEW b \in Nat
  PROVE  Max({a, b}) \in Nat /\ Max({a, b}) >= a /\ Max({a, b}) >= b /\ Max({a, b}) \in {a, b}
<1> DEFINE m == IF a >= b THEN a ELSE b
<1>1. m \in {a, b} /\ \A y \in {a, b} : m >= y
  OBVIOUS
<1>2. Max({a, b}) = CHOOSE x \in {a, b} : \A y \in {a, b} : x >= y
  BY DEF Max
<1>3. Max({a, b}) \in {a, b} /\ \A y \in {a, b} : Max({a, b}) >= y
  <2> HIDE DEF m
  <2> QED BY <1>1, <1>2
<1> QED BY <1>3

(* What a section that is added does to the lines of the others, and to its *)
(* own.                                                                     *)
LEMMA SectionAdded ==
  ASSUME NEW d \in Seq(SectionSet), NEW s \in SectionSet
  PROVE  /\ Append(d, s) \in Seq(SectionSet)
         /\ \A l : InOne(d, l) /\ l \notin s.body => InOne(Append(d, s), l)
         /\ \A l : /\ l \in s.body /\ l \in s.start..s.end
                   /\ ToSet(s.path) = {h \in DOMAIN page : Encloses(h, l)}
                   /\ \A i \in DOMAIN d : l \notin d[i].body
                   => InOne(Append(d, s), l)
         /\ \A i \in DOMAIN Append(d, s) :
              Append(d, s)[i] = s \/ \E j \in DOMAIN d : Append(d, s)[i] = d[j]
<1> DEFINE t == Append(d, s)
           n == Len(t)
<1>1. /\ t \in Seq(SectionSet) /\ DOMAIN t = 1 .. n /\ DOMAIN d = 1 .. Len(d) /\ Len(d) \in Nat
      /\ n = Len(d) + 1 /\ t[n] = s /\ \A i \in DOMAIN d : t[i] = d[i]
  OBVIOUS
<1> HIDE DEF t, n
<1>2. n \in DOMAIN t /\ \A i \in DOMAIN d : i \in DOMAIN t
  BY <1>1
<1>3. \A i \in DOMAIN t : i = n \/ i \in DOMAIN d
  BY <1>1
<1>4. ASSUME NEW l, InOne(d, l), l \notin s.body PROVE InOne(t, l)
  <2>1. PICK i \in DOMAIN d :
          /\ l \in d[i].body /\ l \in d[i].start..d[i].end
          /\ \A j \in DOMAIN d : l \in d[j].body => j = i
          /\ ToSet(d[i].path) = {h \in DOMAIN page : Encloses(h, l)}
    BY <1>4 DEF InOne
  <2>2. i \in DOMAIN t /\ t[i] = d[i]
    BY <1>1, <1>2
  <2>3. \A j \in DOMAIN t : l \in t[j].body => j = i
    BY <1>1, <1>3, <1>4, <2>1
  <2> QED BY <2>1, <2>2, <2>3 DEF InOne
<1>5. ASSUME NEW l, l \in s.body, l \in s.start..s.end,
             ToSet(s.path) = {h \in DOMAIN page : Encloses(h, l)},
             \A i \in DOMAIN d : l \notin d[i].body
      PROVE  InOne(t, l)
  <2>1. \A j \in DOMAIN t : l \in t[j].body => j = n
    BY <1>1, <1>3, <1>5
  <2> QED BY <1>1, <1>2, <1>5, <2>1 DEF InOne
<1>6. \A i \in DOMAIN t : t[i] = s \/ \E j \in DOMAIN d : t[i] = d[j]
  BY <1>1, <1>3
<1> QED BY <1>1, <1>4, <1>5, <1>6, Zenon DEF t

(* A section is added if it has words.                                      *)
LEMMA FlushedIs ==
  ASSUME PageOK, NEW n \in 0 .. Len(page), NEW st, ReadTo(st, n)
  PROVE  /\ Flushed(st, n) \in Seq(SectionSet)
         /\ \A i \in DOMAIN Flushed(st, n) : Flushed(st, n)[i].body \subseteq 1 .. n
         /\ \A l \in 1 .. n : page[l] = Words => InOne(Flushed(st, n), l)
<1>1. /\ Len(page) \in Nat /\ DOMAIN page = 1 .. Len(page) /\ n \in Nat
      /\ \A l \in DOMAIN page : page[l] = Words => ~ IsHeading(l)
  BY PageIs
<1>2. st.sections \in Seq(SectionSet) /\ st.start \in Nat /\ st.path \in Seq(Nat)
  BY DEF ReadTo, Reading
<1>3. /\ 1 <= st.start /\ (n = 0 => st.start = 1) /\ (n > 0 => st.start <= n)
      /\ st.body = {l \in st.start .. n : ~ IsHeading(l)}
      /\ \A l \in st.start .. n : ToSet(st.path) = {h \in DOMAIN page : Encloses(h, l)}
      /\ \A i \in DOMAIN st.sections : st.sections[i].body \subseteq 1 .. (st.start - 1)
      /\ \A l \in 1 .. (st.start - 1) : page[l] = Words => InOne(st.sections, l)
  BY DEF ReadTo
<1> DEFINE body == {line \in st.body : page[line] = Words}
           s == [path |-> st.path, start |-> st.start, end |-> Max({st.start, n}), body |-> body]
<1>4. \/ Flushed(st, n) = Append(st.sections, s)
      \/ Flushed(st, n) = st.sections /\ body = {}
  BY DEF Flushed
<1>5. \A l \in 1 .. n : page[l] = Words /\ l >= st.start => l \in body
  BY <1>1, <1>2, <1>3
<1>6. \A l \in body : l \in st.start .. n /\ l \in 1 .. n
  BY <1>2, <1>3
<1>7. 1 .. (st.start - 1) \subseteq 1 .. n
  BY <1>1, <1>2, <1>3
<1>8. CASE Flushed(st, n) = st.sections /\ body = {}
  <2>1. \A l \in 1 .. n : page[l] = Words => l \in 1 .. (st.start - 1)
    <3> HIDE DEF body
    <3> QED BY <1>1, <1>2, <1>5, <1>8
  <2> HIDE DEF body, s
  <2> QED BY <1>2, <1>3, <1>7, <1>8, <2>1
<1>9. CASE Flushed(st, n) = Append(st.sections, s)
  <2>1. Max({st.start, n}) \in Nat /\ Max({st.start, n}) >= n
    BY <1>1, <1>2, MaxOfTwo
  <2>2. body \subseteq Nat
    BY <1>6
  <2> HIDE DEF body
  <2>3. s \in SectionSet /\ s.body = body /\ s.start = st.start /\ s.end = Max({st.start, n})
        /\ s.path = st.path
    BY <1>2, <2>1, <2>2 DEF SectionSet
  <2> HIDE DEF s
  <2> DEFINE t == Append(st.sections, s)
  <2>4. /\ t \in Seq(SectionSet)
        /\ \A l : InOne(st.sections, l) /\ l \notin s.body => InOne(t, l)
        /\ \A l : /\ l \in s.body /\ l \in s.start..s.end
                  /\ ToSet(s.path) = {h \in DOMAIN page : Encloses(h, l)}
                  /\ \A i \in DOMAIN st.sections : l \notin st.sections[i].body
                  => InOne(t, l)
        /\ \A i \in DOMAIN t : t[i] = s \/ \E j \in DOMAIN st.sections : t[i] = st.sections[j]
    BY <1>2, <2>3, SectionAdded
  <2> HIDE DEF t
  <2>5. \A i \in DOMAIN t : t[i].body \subseteq 1 .. n
    BY <1>3, <1>6, <1>7, <2>3, <2>4
  <2>6. ASSUME NEW l \in 1 .. n, page[l] = Words PROVE InOne(t, l)
    <3>1. CASE l < st.start
      <4>1. l \in 1 .. (st.start - 1) /\ l \notin body
        BY <1>1, <1>2, <1>6, <3>1
      <4> QED BY <1>3, <2>3, <2>4, <2>6, <4>1
    <3>2. CASE ~ (l < st.start)
      <4>1. l \in body /\ l \in st.start .. n /\ l \notin 1 .. (st.start - 1)
        BY <1>1, <1>2, <1>5, <2>6, <3>2
      <4>2. l \in s.start .. s.end
        BY <1>1, <1>2, <2>1, <2>3, <4>1
      <4>3. \A i \in DOMAIN st.sections : l \notin st.sections[i].body
        BY <1>3, <4>1
      <4>4. ToSet(s.path) = {h \in DOMAIN page : Encloses(h, l)}
        BY <1>3, <2>3, <4>1
      <4> QED BY <2>3, <2>4, <4>1, <4>2, <4>3, <4>4
    <3> QED BY <3>1, <3>2
  <2> QED BY <1>9, <2>4, <2>5, <2>6 DEF t
<1> HIDE DEF body, s
<1> QED BY <1>4, <1>8, <1>9

(* What encloses the next line.                                             *)
LEMMA EnclosesNext ==
  ASSUME PageOK, NEW n \in 0 .. (Len(page) - 1), NEW m, m = n + 1
  PROVE  /\ ~ IsHeading(m) /\ n > 0 =>
              {h \in DOMAIN page : Encloses(h, m)} = {h \in DOMAIN page : Encloses(h, n)}
         /\ ~ IsHeading(m) /\ n = 0 => {h \in DOMAIN page : Encloses(h, m)} = {}
         /\ IsHeading(m) /\ n > 0 =>
              {h \in DOMAIN page : Encloses(h, m)}
                = {h \in DOMAIN page : Encloses(h, n) /\ page[h] < page[m]} \cup {m}
         /\ IsHeading(m) /\ n = 0 => {h \in DOMAIN page : Encloses(h, m)} = {m}
<1>1. /\ Len(page) \in Nat /\ DOMAIN page = 1 .. Len(page) /\ \A l \in DOMAIN page : page[l] \in Int
  BY PageIs
<1>2. m \in DOMAIN page /\ n \in Nat /\ m = n + 1 /\ m \in Nat
  BY <1>1
<1>3. ASSUME NEW h \in DOMAIN page, h # m
      PROVE  Encloses(h, m) <=> Encloses(h, n) /\ (IsHeading(m) => page[m] > page[h])
  <2>1. h \in Nat /\ (h <= m <=> h <= n)
    BY <1>1, <1>2, <1>3
  <2>2. CASE h <= n
    <3>1. (h + 1) .. m = ((h + 1) .. n) \cup {m}
      BY <1>2, <2>1, <2>2
    <3> QED BY <2>1, <3>1 DEF Encloses
  <2>3. CASE ~ (h <= n)
    BY <2>1, <2>3 DEF Encloses
  <2> QED BY <2>2, <2>3
<1>4. IsHeading(m) <=> Encloses(m, m)
  <2>1. (m + 1) .. m = {} /\ m <= m
    BY <1>2
  <2> QED BY <2>1 DEF Encloses
<1>5. \A h \in DOMAIN page : n = 0 => ~ Encloses(h, n)
  BY <1>1 DEF Encloses
<1>6. \A h \in DOMAIN page : page[m] > page[h] <=> page[h] < page[m]
  BY <1>1, <1>2
<1>7. ASSUME ~ IsHeading(m), n > 0
      PROVE  {h \in DOMAIN page : Encloses(h, m)} = {h \in DOMAIN page : Encloses(h, n)}
  <2>1. ~ Encloses(m, n)
    BY <1>2 DEF Encloses
  <2>2. \A h \in DOMAIN page : Encloses(h, m) <=> Encloses(h, n)
    BY <1>3, <1>4, <1>7, <2>1
  <2> QED BY <2>2
<1>8. ASSUME ~ IsHeading(m), n = 0
      PROVE  {h \in DOMAIN page : Encloses(h, m)} = {}
  <2>1. \A h \in DOMAIN page : ~ Encloses(h, m)
    BY <1>3, <1>4, <1>5, <1>8
  <2> QED BY <2>1
<1>9. ASSUME IsHeading(m), n > 0
      PROVE  {h \in DOMAIN page : Encloses(h, m)}
               = {h \in DOMAIN page : Encloses(h, n) /\ page[h] < page[m]} \cup {m}
  <2>1. \A h \in DOMAIN page : Encloses(h, m) <=> h = m \/ (Encloses(h, n) /\ page[h] < page[m])
    <3>1. ~ (page[m] < page[m])
      BY <1>1, <1>2
    <3> QED BY <1>3, <1>4, <1>6, <1>9, <3>1
  <2> QED BY <1>2, <2>1
<1>10. ASSUME IsHeading(m), n = 0
       PROVE  {h \in DOMAIN page : Encloses(h, m)} = {m}
  <2>1. \A h \in DOMAIN page : Encloses(h, m) <=> h = m
    BY <1>3, <1>4, <1>5, <1>10
  <2> QED BY <1>2, <2>1
<1> QED BY <1>7, <1>8, <1>9, <1>10

(* What was read up to a line, and with it.                                 *)
LEMMA NextLineIs ==
  ASSUME PageOK, NEW n \in 0 .. (Len(page) - 1), NEW st, ReadTo(st, n)
  PROVE  ReadTo(NextLine(n + 1)[st], n + 1)
<1> DEFINE m == n + 1
           next == NextLine(m)[st]
<1>1. /\ Len(page) \in Nat /\ DOMAIN page = 1 .. Len(page) /\ n \in Nat /\ n \in 0 .. Len(page)
      /\ m \in Nat /\ m \in DOMAIN page /\ m = n + 1 /\ m - 1 = n /\ m > 0
  BY PageIs
<1> HIDE DEF m
<1>2. /\ st \in Reading /\ st.sections \in Seq(SectionSet) /\ st.start \in Nat /\ st.path \in Seq(Nat)
      /\ st = [sections |-> st.sections, start |-> st.start, body |-> st.body, path |-> st.path]
  BY DEF ReadTo, Reading
<1>3. /\ 1 <= st.start /\ (n = 0 => st.start = 1 /\ st.path = <<>>) /\ (n > 0 => st.start <= n)
      /\ st.body = {l \in st.start .. n : ~ IsHeading(l)}
      /\ \A l \in st.start .. n : ToSet(st.path) = {h \in DOMAIN page : Encloses(h, l)}
      /\ \A i \in DOMAIN st.sections : st.sections[i].body \subseteq 1 .. (st.start - 1)
      /\ \A l \in 1 .. (st.start - 1) : page[l] = Words => InOne(st.sections, l)
  BY DEF ReadTo
<1>4. ToSet(<<>>) = {}
  BY DEF ToSet
<1>5. n > 0 => n \in st.start .. n
  BY <1>1, <1>2, <1>3
<1> DEFINE lower == {h \in DOMAIN page : page[h] < page[m]}
           path == Append(Only(st.path, lower), m)
<1>6. next = IF ~ IsHeading(m) THEN [st EXCEPT !.body = @ \cup {m}]
             ELSE [sections |-> Flushed(st, n), start |-> m, body |-> {}, path |-> path]
  BY <1>1, <1>2 DEF NextLine
<1> HIDE DEF next
<1>7. ASSUME ~ IsHeading(m) PROVE ReadTo(next, m)
  <2>1. next = [sections |-> st.sections, start |-> st.start, body |-> st.body \cup {m}, path |-> st.path]
    BY <1>2, <1>6, <1>7
  <2>2. next.sections = st.sections /\ next.start = st.start /\ next.path = st.path
        /\ next.body = st.body \cup {m}
    BY <2>1
  <2>3. st.body \cup {m} = {l \in st.start .. m : ~ IsHeading(l)}
    BY <1>1, <1>2, <1>3, <1>7
  <2>4. next \in Reading
    <3>1. st.body \cup {m} \subseteq Nat
      BY <1>1, <1>2, <2>3
    <3> QED BY <1>2, <2>1, <3>1 DEF Reading
  <2>5. ToSet(st.path) = {h \in DOMAIN page : Encloses(h, m)}
    <3>1. CASE n = 0
      BY <1>1, <1>3, <1>4, <1>7, <3>1, EnclosesNext
    <3>2. CASE n # 0
      <4>1. n > 0
        BY <1>1, <3>2
      <4>2. {h \in DOMAIN page : Encloses(h, m)} = {h \in DOMAIN page : Encloses(h, n)}
        BY <1>1, <1>7, <4>1, EnclosesNext
      <4> QED BY <1>3, <1>5, <4>1, <4>2
    <3> QED BY <3>1, <3>2
  <2>6. \A l \in st.start .. m : ToSet(st.path) = {h \in DOMAIN page : Encloses(h, l)}
    <3>1. \A l \in st.start .. m : l = m \/ l \in st.start .. n
      BY <1>1, <1>2
    <3> QED BY <1>3, <2>5, <3>1
  <2>7. st.start <= m /\ 1 <= st.start /\ m # 0
    BY <1>1, <1>2, <1>3
  <2> QED BY <1>3, <2>2, <2>3, <2>4, <2>6, <2>7 DEF ReadTo
<1>8. ASSUME IsHeading(m) PROVE ReadTo(next, m)
  <2>1. next = [sections |-> Flushed(st, n), start |-> m, body |-> {}, path |-> path]
    BY <1>6, <1>8
  <2>2. /\ Flushed(st, n) \in Seq(SectionSet)
        /\ \A i \in DOMAIN Flushed(st, n) : Flushed(st, n)[i].body \subseteq 1 .. n
        /\ \A l \in 1 .. n : page[l] = Words => InOne(Flushed(st, n), l)
    BY <1>1, FlushedIs
  <2> DEFINE kept == Only(st.path, lower)
  <2> HIDE DEF lower
  <2>3. /\ kept \in Seq(Nat) /\ Len(kept) \in Nat /\ DOMAIN kept = 1 .. Len(kept)
        /\ \A i \in DOMAIN kept : kept[i] \in lower /\ \E j \in DOMAIN st.path : kept[i] = st.path[j]
        /\ \A j \in DOMAIN st.path : st.path[j] \in lower => \E i \in DOMAIN kept : kept[i] = st.path[j]
    BY <1>2, OnlyMembers
  <2> HIDE DEF kept
  <2>4. ToSet(kept) = ToSet(st.path) \cap lower
    BY <2>3 DEF ToSet
  <2>5. path \in Seq(Nat) /\ ToSet(path) = ToSet(kept) \cup {m}
    <3>1. /\ path = Append(kept, m)
      BY DEF kept
    <3> DEFINE p == Append(kept, m)
    <3>2. /\ p \in Seq(Nat) /\ DOMAIN p = 1 .. (Len(kept) + 1) /\ p[Len(kept) + 1] = m
          /\ \A i \in DOMAIN kept : p[i] = kept[i]
      BY <1>1, <2>3
    <3> HIDE DEF p
    <3>3. ToSet(p) = ToSet(kept) \cup {m}
      <4>1. \A i \in DOMAIN p : i = Len(kept) + 1 \/ i \in DOMAIN kept
        BY <2>3, <3>2
      <4>2. Len(kept) + 1 \in DOMAIN p /\ \A i \in DOMAIN kept : i \in DOMAIN p
        BY <2>3, <3>2
      <4> QED BY <3>2, <4>1, <4>2 DEF ToSet
    <3> QED BY <3>1, <3>2, <3>3 DEF p
  <2> HIDE DEF path
  <2>6. ToSet(path) = {h \in DOMAIN page : Encloses(h, m)}
    <3>1. CASE n = 0
      <4>1. ToSet(st.path) = {}
        BY <1>3, <1>4, <3>1
      <4>2. {h \in DOMAIN page : Encloses(h, m)} = {m}
        BY <1>1, <1>8, <3>1, EnclosesNext
      <4> QED BY <2>4, <2>5, <4>1, <4>2
    <3>2. CASE n # 0
      <4>1. n > 0
        BY <1>1, <3>2
      <4>2. {h \in DOMAIN page : Encloses(h, m)}
              = {h \in DOMAIN page : Encloses(h, n) /\ page[h] < page[m]} \cup {m}
        BY <1>1, <1>8, <4>1, EnclosesNext
      <4>3. ToSet(st.path) = {h \in DOMAIN page : Encloses(h, n)}
        BY <1>3, <1>5, <4>1
      <4>4. {h \in DOMAIN page : Encloses(h, n)} \cap lower
              = {h \in DOMAIN page : Encloses(h, n) /\ page[h] < page[m]}
        BY DEF lower
      <4> QED BY <2>4, <2>5, <4>2, <4>3, <4>4
    <3> QED BY <3>1, <3>2
  <2>7. next.sections = Flushed(st, n) /\ next.start = m /\ next.body = {} /\ next.path = path
    BY <2>1
  <2>8. next \in Reading
    BY <1>1, <2>1, <2>2, <2>5 DEF Reading
  <2>9. {l \in m .. m : ~ IsHeading(l)} = {}
    BY <1>1, <1>8
  <2>10. \A l \in m .. m : ToSet(path) = {h \in DOMAIN page : Encloses(h, l)}
    <3>1. \A l \in m .. m : l = m
      BY <1>1
    <3> QED BY <2>6, <3>1
  <2>11. 1 <= m /\ m <= m /\ m # 0 /\ m - 1 = n
    BY <1>1
  <2> QED BY <2>2, <2>7, <2>8, <2>9, <2>10, <2>11 DEF ReadTo
<1>9. ReadTo(next, m)
  BY <1>7, <1>8
<1> QED BY <1>9 DEF next, m

(* Each line of words is in one section, under its headings.                *)
LEMMA PageIsCoveredAlways ==
  ASSUME PageOK
  PROVE  PageIsCovered
<1> DEFINE N == Len(page)
           first == [sections |-> <<>>, start |-> 1, body |-> {}, path |-> <<>>]
           round == [line \in DOMAIN page |-> NextLine(line)]
           st == Loop(first, round, N)
           D == [n \in 0 .. N |-> {x \in Reading : ReadTo(x, n)}]
<1>1. N \in Nat /\ DOMAIN page = 1 .. N
  BY PageIs
<1>2. MarkdownSections = Flushed(st, N)
  BY DEF MarkdownSections
<1>3. first \in D[0]
  <2>1. <<>> \in Seq(SectionSet) /\ <<>> \in Seq(Nat) /\ DOMAIN <<>> = {}
    OBVIOUS
  <2>2. first \in Reading
    BY <2>1 DEF Reading
  <2>3. first.sections = <<>> /\ first.start = 1 /\ first.body = {} /\ first.path = <<>>
    OBVIOUS
  <2> HIDE DEF first
  <2>4. 1 .. 0 = {} /\ 1 .. (1 - 1) = {} /\ 1 <= 1 /\ ~ (0 > 0)
    OBVIOUS
  <2>5. {l \in 1 .. 0 : ~ IsHeading(l)} = {}
    BY <2>4
  <2>6. ReadTo(first, 0)
    BY <2>1, <2>2, <2>3, <2>4, <2>5 DEF ReadTo
  <2> QED BY <1>1, <2>2, <2>6
<1>4. ASSUME NEW i \in 1 .. N, NEW x \in D[i - 1] PROVE round[i][x] \in D[i]
  <2>1. i - 1 \in 0 .. (N - 1) /\ i - 1 \in 0 .. N /\ i \in 0 .. N /\ i \in DOMAIN page /\ (i - 1) + 1 = i
    BY <1>1
  <2>2. ReadTo(x, i - 1)
    BY <2>1
  <2>3. ReadTo(NextLine(i)[x], i)
    <3>1. ReadTo(NextLine((i - 1) + 1)[x], (i - 1) + 1)
      BY <2>1, <2>2, NextLineIs
    <3> QED BY <2>1, <3>1
  <2>4. round[i][x] = NextLine(i)[x]
    BY <2>1
  <2>5. NextLine(i)[x] \in Reading
    BY <2>3 DEF ReadTo
  <2> HIDE DEF round
  <2> QED BY <2>1, <2>3, <2>4, <2>5
<1>5. st \in D[N]
  <2> HIDE DEF D, round, first, N
  <2> QED BY <1>1, <1>3, <1>4, LoopKeeps
<1> HIDE DEF st
<1>6. ReadTo(st, N)
  BY <1>1, <1>5
<1>7. \A l \in 1 .. N : page[l] = Words => InOne(Flushed(st, N), l)
  BY <1>1, <1>6, FlushedIs
<1> QED BY <1>1, <1>2, <1>7 DEF PageIsCovered, InOne

-----------------------------------------------------------------------------
(* The sections of a file.                                                  *)
MarksOK == marks \subseteq (1..MaxLines) \X (1..MaxName)

(* The definitions of a file are finitely many lines and names.             *)
LEMMA DefinitionsAre ==
  ASSUME MarksOK
  PROVE  /\ IsFiniteSet(Definitions)
         /\ \A d \in Definitions : d[1] \in Nat /\ d[2] \in 0 .. MaxName /\ d = <<d[1], d[2]>>
         /\ MaxName \in Nat
<1>1. MaxLines \in Nat /\ MaxName \in Nat
  BY ChunkingAssumptions
<1>2. CASE marks = {}
  <2>1. Definitions = {<<1, 0>>}
    BY <1>2 DEF Definitions
  <2>2. IsFiniteSet(Definitions)
    BY <2>1, FS_Singleton
  <2>3. \A d \in Definitions : d[1] = 1 /\ d[2] = 0 /\ d = <<d[1], d[2]>>
    BY <2>1
  <2> QED BY <1>1, <2>2, <2>3
<1>3. CASE marks # {}
  <2>1. Definitions = marks
    BY <1>3 DEF Definitions
  <2>2. IsFiniteSet(1..MaxLines) /\ IsFiniteSet(1..MaxName)
    BY <1>1, FS_Interval
  <2>3. IsFiniteSet((1..MaxLines) \X (1..MaxName))
    BY <2>2, FS_Product
  <2>4. IsFiniteSet(marks)
    BY <2>3, FS_Subset DEF MarksOK
  <2>5. \A d \in marks : d[1] \in 1..MaxLines /\ d[2] \in 1..MaxName /\ d = <<d[1], d[2]>>
    BY DEF MarksOK
  <2> QED BY <1>1, <2>1, <2>4, <2>5
<1> QED BY <1>2, <1>3

(* The body of a definition begins with it and ends before the next one     *)
(* that begins on a later line.                                             *)
LEMMA BodyIs ==
  ASSUME PageOK, MarksOK, NEW d \in Definitions, NEW line \in DOMAIN page
  PROVE  line \in Body(d) <=> d[1] <= line /\ (line = d[1] \/ \A c \in After(d) : line < c[1])
<1> DEFINE N == Len(page)
           L == {c[1] : c \in After(d)}
           next == IF After(d) = {} THEN N + 1 ELSE Min(L)
           start == d[1]
           last == Max({start, next - 1})
           end == Min({N, last})
<1>1. Body(d) = start .. end
  BY DEF Body
<1>2. N \in Nat /\ line \in 1 .. N
  BY PageIs
<1>3. start \in Nat
  BY DefinitionsAre
<1>4. next \in Nat /\ (line < next <=> \A c \in After(d) : line < c[1])
  <2>1. CASE After(d) = {}
    BY <1>2, <2>1
  <2>2. CASE After(d) # {}
    <3>1. \A c \in After(d) : c[1] \in Nat
      BY DefinitionsAre DEF After
    <3>2. L \in SUBSET Nat /\ L # {}
      BY <2>2, <3>1
    <3>3. \A c \in After(d) : c[1] \in L
      OBVIOUS
    <3>4. \A x \in L : \E c \in After(d) : x = c[1]
      OBVIOUS
    <3>5. next = Min(L)
      BY <2>2
    <3> HIDE DEF L, next
    <3>6. \E x \in L : \A y \in L : x <= y
      BY <3>2, SmallestMember
    <3>7. Min(L) \in L /\ \A y \in L : Min(L) <= y
      BY <3>6, Zenon DEF Min
    <3>8. next \in Nat /\ next \in L /\ \A y \in L : next <= y
      BY <3>2, <3>5, <3>7
    <3> QED BY <1>2, <3>1, <3>3, <3>4, <3>8
  <2> QED BY <2>1, <2>2
<1> HIDE DEF next, start, N
<1>5. last \in Int /\ last >= start /\ last >= next - 1 /\ last \in {start, next - 1}
  <2> DEFINE m == IF start >= next - 1 THEN start ELSE next - 1
  <2>1. m \in {start, next - 1} /\ \A y \in {start, next - 1} : m >= y
    BY <1>3, <1>4
  <2>2. last = CHOOSE x \in {start, next - 1} : \A y \in {start, next - 1} : x >= y
    BY DEF Max
  <2> HIDE DEF m, last
  <2>3. last \in {start, next - 1} /\ \A y \in {start, next - 1} : last >= y
    BY <2>1, <2>2
  <2> QED BY <1>3, <1>4, <2>3
<1> HIDE DEF last
<1>6. end = IF N <= last THEN N ELSE last
  BY <1>2, <1>5, MinOfTwo
<1> HIDE DEF end
<1>7. line \in start .. end <=> start <= line /\ (line = start \/ line < next)
  BY <1>2, <1>3, <1>4, <1>5, <1>6
<1> QED BY <1>1, <1>4, <1>7 DEF start

(* A set has more than one member if it has two.                            *)
LEMMA TwoMembers ==
  ASSUME NEW S, IsFiniteSet(S)
  PROVE  Cardinality(S) > 1 <=> \E x, y \in S : x # y
<1>1. Cardinality(S) \in Nat
  BY FS_CardinalityType
<1>2. Cardinality(S) = 0 <=> S = {}
  BY FS_EmptySet
<1>3. Cardinality(S) = 1 <=> \E x : S = {x}
  BY FS_Singleton
<1>4. (\E x, y \in S : x # y) <=> S # {} /\ ~ \E x : S = {x}
  OBVIOUS
<1> QED BY <1>1, <1>2, <1>3, <1>4

(* The line of a file is in the body of the last definition at or before    *)
(* it.                                                                      *)
LEMMA FileIsCoveredAlways ==
  ASSUME PageOK, MarksOK
  PROVE  FileIsCovered
<1> DEFINE sections == CodeSections
           kept == {d \in Definitions : \E l \in Body(d) : page[l] # Empty}
<1>1. DOMAIN sections = kept /\ \A d \in kept : sections[d] = Body(d)
  BY DEF CodeSections
<1>2. /\ IsFiniteSet(Definitions) /\ MaxName \in Nat
      /\ \A d \in Definitions : d[1] \in Nat /\ d[2] \in 0 .. MaxName /\ d = <<d[1], d[2]>>
  BY DefinitionsAre
<1>3. \A line \in DOMAIN page : line \in Nat
  BY PageIs
<1> HIDE DEF sections
<1>4. SUFFICES ASSUME NEW line \in DOMAIN page, page[line] # Empty,
                      marks = {} \/ \E d \in marks : d[1] <= line
               PROVE  LET of == {i \in DOMAIN sections : line \in sections[i]}
                      IN  /\ of # {}
                          /\ Cardinality(of) > 1 => Cardinality({d \in marks : d[1] = line}) > 1
  BY DEF FileIsCovered, sections
<1> DEFINE of == {i \in DOMAIN sections : line \in sections[i]}
<1>5. \A d : d \in of <=> d \in Definitions /\ line \in Body(d)
  BY <1>1, <1>4
<1>6. \E d \in Definitions : d[1] <= line
  <2>1. CASE marks = {}
    <3>1. <<1, 0>> \in Definitions /\ <<1, 0>>[1] = 1
      BY <2>1 DEF Definitions
    <3>2. 1 <= line
      BY PageIs
    <3> QED BY <3>1, <3>2
  <2>2. CASE marks # {}
    BY <1>4, <2>2 DEF Definitions
  <2> QED BY <2>1, <2>2
<1> HIDE DEF of
<1>7. of # {}
  <2> DEFINE Rows == {n \in 0 .. line : \E d \in Definitions : d[1] = n}
  <2>1. Rows \in SUBSET Nat /\ Rows # {} /\ \A n \in Rows : n <= line
    BY <1>2, <1>3, <1>6
  <2>2. \A n \in Rows : \E d \in Definitions : d[1] = n
    OBVIOUS
  <2>3. \A d \in Definitions : d[1] <= line => d[1] \in Rows
    BY <1>2, <1>3
  <2> HIDE DEF Rows
  <2>4. PICK n \in Rows : \A k \in Rows : n >= k
    BY <1>3, <2>1, GreatestMember
  <2> DEFINE Ranks == {k \in 0 .. MaxName : \E d \in Definitions : d[1] = n /\ d[2] = k}
  <2>5. Ranks \in SUBSET Nat /\ Ranks # {} /\ \A k \in Ranks : k <= MaxName
    BY <1>2, <2>2, <2>4
  <2>6. \A k \in Ranks : \E d \in Definitions : d[1] = n /\ d[2] = k
    OBVIOUS
  <2>7. \A d \in Definitions : d[1] = n => d[2] \in Ranks
    BY <1>2
  <2> HIDE DEF Ranks
  <2>8. PICK k \in Ranks : \A i \in Ranks : k >= i
    BY <1>2, <2>5, GreatestMember
  <2>9. PICK d \in Definitions : d[1] = n /\ d[2] = k
    BY <2>6, <2>8
  <2>10. \A c \in After(d) : line < c[1]
    <3> SUFFICES ASSUME NEW c \in After(d), ~ (line < c[1]) PROVE FALSE
      OBVIOUS
    <3>1. c \in Definitions /\ (d[1] < c[1] \/ (d[1] = c[1] /\ d[2] < c[2]))
      BY DEF After
    <3>2. c[1] \in Nat /\ c[2] \in Nat /\ n \in Nat /\ k \in Nat
      BY <1>2, <2>1, <2>5, <3>1
    <3>3. c[1] \in Rows
      BY <1>3, <2>3, <3>1, <3>2
    <3>4. n >= c[1]
      BY <2>4, <3>3
    <3>5. c[1] = n /\ k < c[2]
      BY <2>9, <3>1, <3>2, <3>4
    <3>6. k >= c[2]
      BY <2>7, <2>8, <3>1, <3>5
    <3> QED BY <3>2, <3>5, <3>6
  <2>11. d[1] <= line
    BY <2>1, <2>9
  <2>12. line \in Body(d)
    BY <2>10, <2>11, BodyIs
  <2> QED BY <1>5, <2>12
<1>8. ASSUME Cardinality(of) > 1 PROVE Cardinality({d \in marks : d[1] = line}) > 1
  <2>1. IsFiniteSet(of)
    BY <1>2, <1>5, FS_Subset
  <2>2. PICK x \in of : \E y \in of : x # y
    BY <1>8, <2>1, TwoMembers
  <2>3. PICK y \in of : x # y
    BY <2>2
  <2>4. x \in Definitions /\ y \in Definitions /\ line \in Body(x) /\ line \in Body(y)
    BY <1>5
  <2>5. ASSUME NEW d \in Definitions, NEW e \in Definitions, line \in Body(d), line \in Body(e),
               e \in After(d)
        PROVE  d[1] = line /\ e[1] = line
    <3>1. d[1] <= line /\ (line = d[1] \/ line < e[1]) /\ e[1] <= line
      BY <2>5, BodyIs
    <3>2. d[1] < e[1] \/ d[1] = e[1]
      BY <2>5 DEF After
    <3>3. d[1] \in Nat /\ e[1] \in Nat
      BY <1>2
    <3> QED BY <1>3, <3>1, <3>2, <3>3
  <2>6. y \in After(x) \/ x \in After(y)
    <3>1. x[1] # y[1] \/ x[2] # y[2]
      BY <1>2, <2>3, <2>4
    <3>2. x[1] \in Nat /\ x[2] \in Nat /\ y[1] \in Nat /\ y[2] \in Nat
      BY <1>2, <2>4
    <3>3. x[1] < y[1] \/ (x[1] = y[1] /\ x[2] < y[2]) \/ y[1] < x[1] \/ (y[1] = x[1] /\ y[2] < x[2])
      BY <3>1, <3>2
    <3> QED BY <2>4, <3>3 DEF After
  <2>7. x[1] = line /\ y[1] = line
    BY <2>4, <2>5, <2>6
  <2>8. Definitions = marks
    <3>1. Definitions # {<<1, 0>>}
      BY <2>3, <2>4
    <3> QED BY <3>1 DEF Definitions
  <2> DEFINE same == {d \in marks : d[1] = line}
  <2>9. x \in same /\ y \in same
    BY <2>4, <2>7, <2>8
  <2>10. IsFiniteSet(same)
    BY <1>2, <2>8, FS_Subset
  <2> HIDE DEF same
  <2>11. Cardinality(same) > 1
    BY <2>3, <2>9, <2>10, TwoMembers
  <2> QED BY <2>11 DEF same
<1> QED BY <1>7, <1>8 DEF of

-----------------------------------------------------------------------------
(* The author writes symbols, lines and definitions only.                   *)
LEMMA ChunkingTypes ==
  /\ ChunkingInit => ChunkingTypeOK
  /\ ChunkingTypeOK /\ [ChunkingNext]_chunkingVars => ChunkingTypeOK'
<1>1. ASSUME ChunkingInit PROVE ChunkingTypeOK
  BY <1>1 DEF ChunkingInit, ChunkingTypeOK
<1>2. ASSUME ChunkingTypeOK, [ChunkingNext]_chunkingVars PROVE ChunkingTypeOK'
  <2> USE <1>2 DEF ChunkingTypeOK
  <2>1. ASSUME NEW s \in DOMAIN Weight, WriteSymbol(s) PROVE ChunkingTypeOK'
    BY <2>1 DEF WriteSymbol
  <2>2. ASSUME NEW kind \in Empty..MaxLevel, WriteLine(kind) PROVE ChunkingTypeOK'
    BY <2>2 DEF WriteLine
  <2>3. ASSUME NEW line \in 1..MaxLines, NEW name \in 1..MaxName, Define(line, name)
        PROVE  ChunkingTypeOK'
    BY <2>3 DEF Define
  <2>4. CASE UNCHANGED chunkingVars
    BY <2>4 DEF chunkingVars
  <2> QED BY <2>1, <2>2, <2>3, <2>4 DEF ChunkingNext
<1> QED BY <1>1, <1>2

(* What is cut from whatever is written is sound: the pieces of a text are  *)
(* all of it and each word is in a chunk, none is too long and each goes    *)
(* further; each line of words of a page is in one section, with the        *)
(* headings that enclose it; and each line of a file is in the body of a    *)
(* definition.                                                              *)
THEOREM ChunksCoverTheText == ChunkingSpec => [](ChunkingTypeOK /\ ChunksAreSound)
<1>1. ChunkingTypeOK => ChunksAreSound
  BY TextIsCoveredAlways, PageIsCoveredAlways, FileIsCoveredAlways
  DEF ChunkingTypeOK, TextOK, PageOK, MarksOK, ChunksAreSound
<1> QED BY <1>1, ChunkingTypes, PTL DEF ChunkingSpec
=============================================================================
