------------------------------- MODULE Evidence --------------------------------
(***************************************************************************)
(* What the index says of the code when a prompt is built:                 *)
(* build_retrieval_section of core/runtime/session/runtime_retrieval.py    *)
(* over retrieve of features/retrieval/pipeline.py with its filters,       *)
(* fusion, conflicts, reranking, abstention, expansion and citations.      *)
(* Two caches stand between a prompt and the index: the sections of a      *)
(* turn and the answers to queries; a background thread may bring the      *)
(* index up to date meanwhile.  CodeIndex is the index itself; here it is  *)
(* the version of the sources it was last synced with, which also is its   *)
(* signature.  A chunk is a number, so that ties are broken as by its id.  *)
(* Definitions marked faulty are changes to the code under which a         *)
(* property fails; nothing else uses them.                                 *)
(***************************************************************************)
EXTENDS Integers, Sequences, FiniteSets, SequencesExt, FiniteSetsExt, Lists

CONSTANTS
  Versions,     \* versions of the sources: number -> the chunks cut of them
  ChunkOf,      \* chunk -> its parent, section, conflict key, revision, ...
  SparseTop, DenseTop, CoarseTop, FinalTop,
  PerParent,    \* parent_max_chunks
  Threshold,    \* abstention_min_rerank, or 0
  SectionMax,   \* section_max_chars
  Budget,       \* evidence_budget_chars, 400 at least, without the lines of the contract
  LeastEntry,        \* the 80 characters an entry must have room for, and its header
  Semantic,     \* the fine reranker's scores are of relevance
  CacheSize,    \* query_cache_size
  MaxWrites,    \* bound: tools that may have changed the sources
  MaxSections,   \* bound: prompts
  MaxSyncs      \* bound: background syncs

Ids == DOMAIN ChunkOf
ASSUME EvidenceAssumptions ==
  /\ Ids \subseteq Nat /\ \A v \in DOMAIN Versions : Versions[v] \subseteq Ids
  /\ 1 \in DOMAIN Versions
  /\ \A c \in Ids : {ChunkOf[c].length, ChunkOf[c].sectionLength} \subseteq Nat
  /\ {SparseTop, DenseTop, CoarseTop, FinalTop, PerParent, CacheSize} \subseteq Nat
  /\ {Budget, LeastEntry} \subseteq Nat
  /\ Semantic \in BOOLEAN /\ Budget > LeastEntry

VARIABLES
  sources,     \* their version in the workspace
  index,       \* the version in the index
  dense,       \* every chunk of the index has its vector
  queries,     \* _cache: answers with the index they are kept under, oldest first
  section,     \* _retrieval_section_cache: the answer of the turn, if it has one
  at,          \* where the prompt is
  answer,      \* the answer the prompt is given
  key,         \* the signature the query read
  keyedDense,  \* the sync of the prompt found the vectors complete
  background,  \* the background sync: where it is, and the version it collected
  seen,        \* versions the index had since a tool of the turn last completed
  writes, prompts, syncs
evidenceVars == <<sources, index, dense, queries, section, at, answer, key, keyedDense,
                  background, seen, writes, prompts, syncs>>

NoAnswer == [of |-> {}, hits |-> <<>>, cited |-> 0, sparse |-> TRUE, rejected |-> {}]

EvidenceInit ==
  /\ sources = 1 /\ index = 1 /\ dense = FALSE /\ queries = <<>> /\ section = <<>>
  /\ at = "turn" /\ answer = NoAnswer /\ key = 0 /\ keyedDense = FALSE
  /\ background = [at |-> "idle", collected |-> 0] /\ seen = {}
  /\ writes = 0 /\ prompts = 0 /\ syncs = 0

-----------------------------------------------------------------------------
(* RetrievalFilter.apply *)
Active == {c \in Ids : ChunkOf[c].active}
Admitted(hits) == Only(hits, Active)
DeniedOf(hits) == ToSet(hits) \ Active

(* The hits at the kept places, and the first n hits.                      *)
AtPlaces(hits, kept) ==
  LET order == Only([i \in DOMAIN hits |-> i], kept) IN [n \in DOMAIN order |-> hits[order[n]]]
FirstHits(hits, n) == SubSeq(hits, 1, Min({n, Len(hits)}))

(* reciprocal_rank_fusion with rrf_k = 60, in millionths.                  *)
RankScore(hits, c) ==
  IF c \in ToSet(hits)
  THEN 1000000 \div (60 + CHOOSE i \in DOMAIN hits : hits[i] = c) ELSE 0
Fusions(sparse, vector) ==
  LET Score(c) == RankScore(sparse, c) + RankScore(vector, c)
      Before(c, d) == Score(c) > Score(d) \/ (Score(c) = Score(d) /\ c > d)
  IN  {fused \in SetToSeqs(ToSet(sparse) \cup ToSet(vector)) :
         \A i, j \in DOMAIN fused : i < j => Before(fused[i], fused[j])}

(* _preferred_hit: who supersedes the other, else the higher revision,     *)
(* else the hit that came first, both being unranked as yet.               *)
Preferred(c, d) ==
  CASE ChunkOf[d].supersedes = c -> d
    [] ChunkOf[d].supersedes # c /\ ChunkOf[c].supersedes = d -> c
    [] OTHER -> IF ChunkOf[d].revision > ChunkOf[c].revision THEN d ELSE c

(* resolve_conflicts: the winner of a key takes the place of its first.    *)
Rivals(fused, c) == Only(fused, {d \in Ids : ChunkOf[d].key = ChunkOf[c].key})
Winner(rivals) ==
  LET against == [n \in 1..(Len(rivals) - 1) |-> [c \in Ids |-> Preferred(c, rivals[n + 1])]]
  IN  Loop(rivals[1], against, Len(rivals) - 1)
Resolved(fused) ==
  LET firsts == Only(fused, {c \in ToSet(fused) : Rivals(fused, c)[1] = c})
  IN  [i \in DOMAIN firsts |-> Winner(Rivals(fused, firsts[i]))]

(* parent_aware_deduplicate *)
Siblings(hits, i) == {j \in 1..(i - 1) : ChunkOf[hits[j]].parent = ChunkOf[hits[i]].parent}
Deduplicated(hits) ==
  LET few == {i \in DOMAIN hits : Cardinality(Siblings(hits, i)) < PerParent}
  IN  FirstHits(AtPlaces(hits, few), CoarseTop)

(* The rerankers sort by their score, then by the score of the fusion.     *)
Rankings(hits, score) ==
  LET Place(c) == CHOOSE i \in DOMAIN hits : hits[i] = c
      Before(c, d) == score[c] > score[d] \/ (score[c] = score[d] /\ Place(c) < Place(d))
  IN  {ranked \in SetToSeqs(ToSet(hits)) :
         \A i, j \in DOMAIN ranked : i < j => Before(ranked[i], ranked[j])}

(* _apply_abstention_floor: only a score of relevance can be held to it.   *)
Abstains(hits, score, relevance) ==
  Threshold > 0 /\ hits # <<>> /\ relevance /\ \A i \in DOMAIN hits : score[hits[i]] < Threshold

(* _expand_to_sections: one entry for a section, of the whole section if   *)
(* that is not too long and of the chunk's neighbourhood otherwise.        *)
Again(hits, i) == \E j \in 1..(i - 1) : ChunkOf[hits[j]].section = ChunkOf[hits[i]].section
Expanded(hits) == AtPlaces(hits, {i \in DOMAIN hits : ~Again(hits, i)})
BodyLength(c) ==
  IF ChunkOf[c].sectionLength <= SectionMax THEN ChunkOf[c].sectionLength ELSE ChunkOf[c].length

(* assemble_evidence: an entry is cut to the room there is, and when there *)
(* is hardly any no more entries follow.  The characters used by the       *)
(* entries so far, and how many there are.                                 *)
UsedRoom == [chars : Int, cited : Nat, full : BOOLEAN]
Entry(used, c) ==
  IF used.full \/ Budget - used.chars <= LeastEntry
  THEN [chars |-> used.chars, cited |-> used.cited, full |-> TRUE]
  ELSE [chars |-> used.chars + Min({BodyLength(c), Budget - used.chars}),
        cited |-> used.cited + 1, full |-> FALSE]
UsedBy(hits) ==
  Loop([chars |-> 0, cited |-> 0, full |-> FALSE],
       [n \in 1..Len(hits) |-> [used \in UsedRoom |-> Entry(used, hits[n])]], Len(hits))

(* The answer to a query, from what the channels found and how the hits    *)
(* were ranked; a failed reranker is replaced by the deterministic one.    *)
Respond(sparse, vector, ranked, score, relevance) ==
  LET first == FirstHits(ranked, FinalTop)
      kept == IF Abstains(first, score, relevance) THEN <<>> ELSE Expanded(first)
  IN  [of |-> answer.of \cup (IF keyedDense THEN {index} ELSE {}), hits |-> kept,
       cited |-> UsedBy(kept).cited, sparse |-> ~keyedDense,
       rejected |-> DeniedOf(sparse) \cup DeniedOf(vector)]

-----------------------------------------------------------------------------
Counts == <<writes, syncs>>

(* A turn begins: its sections are forgotten.                              *)
StartTurn ==
  /\ at = "shown" /\ at' = "turn" /\ section' = <<>> /\ answer' = NoAnswer
  /\ seen' = {}
  /\ UNCHANGED <<sources, index, dense, queries, key, keyedDense, background, prompts, Counts>>

(* update_memory_after_tool: a tool that may have written, and came back;  *)
(* invalidate_retrieval_cache forgets the sections of the turn.            *)
StillKnown == section     \* faulty
Invalidated == <<>>
ToolCompletes(v) ==
  /\ at \in {"turn", "shown"} /\ at' = "turn" /\ writes < MaxWrites /\ writes' = writes + 1
  /\ sources' = v /\ section' = Invalidated /\ answer' = NoAnswer /\ seen' = {}
  /\ UNCHANGED <<index, dense, queries, key, keyedDense, background, prompts, syncs>>

(* A tool that raised or timed out after it had written, or somebody else: *)
(* nobody tells the section cache.                                         *)
OthersWrite(v) ==
  /\ at \in {"turn", "shown"} /\ at' = "turn" /\ writes < MaxWrites /\ writes' = writes + 1
  /\ sources' = v /\ answer' = NoAnswer
  /\ UNCHANGED <<index, dense, queries, section, key, keyedDense, background, seen, prompts,
                 syncs>>

(* build_retrieval_section: the section the turn has already, or a sync of *)
(* the index without vectors, which empties the cache of queries when the  *)
(* index was not of these sources, and then a query.                       *)
ReuseSection ==
  /\ at = "turn" /\ section # <<>> /\ prompts < MaxSections /\ prompts' = prompts + 1
  /\ at' = "shown" /\ answer' = section[1]
  /\ UNCHANGED <<sources, index, dense, queries, section, key, keyedDense, background, seen,
                 Counts>>

SyncForPrompt ==
  /\ at = "turn" /\ section = <<>> /\ prompts < MaxSections /\ prompts' = prompts + 1
  /\ at' = "synced" /\ index' = sources /\ seen' = seen \cup {sources}
  /\ dense' = (dense /\ index = sources) /\ keyedDense' = (dense /\ index = sources)
  /\ queries' = IF index = sources THEN queries ELSE <<>>
  /\ IF keyedDense' \/ background.at # "idle" \/ syncs = MaxSyncs
     THEN UNCHANGED <<background, syncs>>
     ELSE background' = [at |-> "started", collected |-> 0] /\ syncs' = syncs + 1
  /\ UNCHANGED <<sources, section, answer, key, writes>>

(* retrieve: the key names the index as it is now.                         *)
ReadKey ==
  /\ at = "synced" /\ at' = "keyed" /\ key' = index
  /\ UNCHANGED <<sources, index, dense, queries, section, answer, keyedDense, background, seen,
                 prompts, Counts>>

(* What is kept under the key for the same channels; the entry becomes the *)
(* youngest.                                                               *)
KeptAnswers ==
  {i \in DOMAIN queries : queries[i].key = key /\ queries[i].answer.sparse = ~keyedDense}
ServeCached ==
  /\ at = "keyed" /\ KeptAnswers # {} /\ at' = "shown"
  /\ \E i \in KeptAnswers :
       /\ answer' = queries[i].answer /\ section' = <<queries[i].answer>>
       /\ queries' = Append(SubSeq(queries, 1, i - 1) \o SubSeq(queries, i + 1, Len(queries)),
                            queries[i])
  /\ UNCHANGED <<sources, index, dense, key, keyedDense, background, seen, prompts, Counts>>

(* Each channel finds some chunks of the index as it then is, in some      *)
(* order, or fails; without vectors only the words are searched and        *)
(* nothing is reranked.                                                    *)
SomeOf(chunks, n) == UNION {{s \in [1..k -> chunks] : IsInjective(s)} : k \in 0..n}
SearchWords ==
  /\ at = "keyed" /\ KeptAnswers = {} /\ at' = "words"
  /\ \E sparse \in SomeOf(Versions[index], SparseTop) :
       answer' = [NoAnswer EXCEPT !.of = {index}, !.hits = sparse]
  /\ UNCHANGED <<sources, index, dense, queries, section, key, keyedDense, background, seen,
                 prompts, Counts>>
SearchVectors ==
  /\ at = "words" /\ at' = "searched"
  /\ \E vector \in IF keyedDense THEN SomeOf(Versions[index], DenseTop) ELSE {<<>>} :
     \E score \in [ToSet(answer.hits) \cup ToSet(vector) -> 0..1] :
     \E relevance \in IF keyedDense /\ Semantic THEN BOOLEAN ELSE {FALSE} :
     \E fused \in Fusions(Admitted(answer.hits), Admitted(vector)) :
     \E ranked \in Rankings(Deduplicated(Resolved(fused)), score) :
       answer' = Respond(answer.hits, vector, ranked, score, relevance)
  /\ UNCHANGED <<sources, index, dense, queries, section, key, keyedDense, background, seen,
                 prompts, Counts>>

(* _remember: the new entry comes last; a full cache drops its oldest.     *)
Remember ==
  /\ at = "searched" /\ at' = "shown" /\ section' = <<answer>>
  /\ LET kept == Append(queries, [key |-> key, answer |-> answer])
     IN  queries' = IF Len(kept) > CacheSize THEN Tail(kept) ELSE kept
  /\ UNCHANGED <<sources, index, dense, answer, key, keyedDense, background, seen, prompts,
                 Counts>>

(* Whatever fails, the turn keeps the map of the repository alone.         *)
FallBack ==
  /\ at \in {"synced", "keyed", "words"} /\ at' = "shown"
  /\ answer' = NoAnswer /\ section' = <<NoAnswer>>
  /\ UNCHANGED <<sources, index, dense, queries, key, keyedDense, background, seen, prompts,
                 Counts>>

(* The background thread: it looks at the sources, writes the index with   *)
(* vectors, and empties the cache if the index was not of these sources.   *)
BackgroundCollects ==
  /\ background.at = "started" /\ background' = [at |-> "collected", collected |-> sources]
  /\ UNCHANGED <<sources, index, dense, queries, section, at, answer, key, keyedDense, seen,
                 prompts, Counts>>
BackgroundWrites ==
  /\ background.at = "collected"
  /\ background' = [background EXCEPT
       !.at = IF background.collected = index THEN "idle" ELSE "wrote"]
  /\ index' = background.collected /\ dense' = TRUE /\ seen' = seen \cup {index'}
  /\ UNCHANGED <<sources, queries, section, at, answer, key, keyedDense, prompts, Counts>>
BackgroundClears ==
  /\ background.at = "wrote" /\ background' = [at |-> "idle", collected |-> 0]
  /\ queries' = <<>>
  /\ UNCHANGED <<sources, index, dense, section, at, answer, key, keyedDense, seen, prompts,
                 Counts>>

EvidenceNext ==
  \/ StartTurn \/ ReuseSection \/ SyncForPrompt \/ ReadKey \/ ServeCached \/ SearchWords
  \/ SearchVectors \/ Remember \/ FallBack
  \/ BackgroundCollects \/ BackgroundWrites \/ BackgroundClears
  \/ \E v \in DOMAIN Versions : ToolCompletes(v) \/ OthersWrite(v)

EvidenceSpec == EvidenceInit /\ [][EvidenceNext]_evidenceVars

-----------------------------------------------------------------------------
EvidenceTypeOK ==
  /\ {sources, index} \subseteq DOMAIN Versions /\ seen \subseteq DOMAIN Versions
  /\ at \in {"turn", "synced", "keyed", "words", "searched", "shown"}
  /\ background.at \in {"idle", "started", "collected", "wrote"}
  /\ Len(queries) <= CacheSize /\ {dense, keyedDense} \subseteq BOOLEAN

(* What a prompt shows was found in the index as it was after the last     *)
(* tool of the turn that completed, whichever cache it came from and       *)
(* whatever the background thread wrote meanwhile.                         *)
ShownIsOfThisIndex ==
  at = "shown" => answer.of \subseteq seen

(* The hits are chunks of the index they were searched in that may be      *)
(* shown; no section and no conflict key is shown twice, no parent fills   *)
(* the answer, and what is cited is a beginning of what was selected.      *)
ShownIsSound ==
  LET hits == answer.hits IN
  at = "shown" =>
    /\ ToSet(hits) \subseteq {c \in UNION {Versions[v] : v \in answer.of} : ChunkOf[c].active}
    /\ Len(hits) <= FinalTop /\ answer.cited <= Len(hits)
    /\ (answer.cited = 0) = (hits = <<>>)
    /\ \A i, j \in DOMAIN hits : i # j =>
         /\ ChunkOf[hits[i]].section # ChunkOf[hits[j]].section
         /\ ChunkOf[hits[i]].key # ChunkOf[hits[j]].key
    /\ \A c \in ToSet(hits) :
         Cardinality({d \in ToSet(hits) : ChunkOf[d].parent = ChunkOf[c].parent}) <= PerParent

EvidenceIsSound == ShownIsOfThisIndex /\ ShownIsSound
=============================================================================
