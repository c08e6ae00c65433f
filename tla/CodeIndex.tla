----------------------------- MODULE CodeIndex -------------------------------
(***************************************************************************)
(* The index of the code that a turn retrieves from: sync_code of          *)
(* features/retrieval/pipeline.py over the SQLite tables of index.py.  A   *)
(* turn brings the table of chunks up to date and leaves the vectors to a  *)
(* background thread of its process; processes of one workspace share the  *)
(* database.  Each statement under "with self._lock, self._connect()" is a *)
(* transaction of its own, so syncs interleave between them.               *)
(* A file's text is the number of the edit that wrote it, which is its     *)
(* modification time too; 0 is a file that does not exist.  A chunk is a   *)
(* file with the text it was cut from: its id contains the text's hash.    *)
(* Definitions marked faulty are changes to the code under which a         *)
(* property fails; nothing else uses them.                                 *)
(***************************************************************************)
EXTENDS Integers, FiniteSets

CONSTANTS
  Indexers,    \* processes with a retrieval service
  CodeFiles,   \* source files of the workspace
  MaxEdits,    \* bound: edits of a file
  MaxSyncs,    \* bound: syncs that begin
  MaxExits   \* bound: processes that die

ASSUME CodeIndexAssumptions == {MaxEdits, MaxSyncs, MaxExits} \subseteq Nat

VARIABLES
  source,      \* the text of each file
  rows,        \* retrieval_chunks
  vectors,     \* retrieval_vectors of the embedding model
  manifest,    \* retrieval_manifests: the chunks signed and the model, or none
  known,       \* retrieval_code_file_states: stat and hash of each file
  chunkCache,  \* retrieval_code_chunk_cache: the text whose chunks it holds
  generation,  \* retrieval_index_generation
  graph,       \* _hnsw_cache of each process: the generation and chunks it is of
  sync,        \* the turn's and the background thread's sync of each process
  overlapped,  \* two syncs have run at the same time
  edits, syncs, exits
indexVars == <<source, rows, vectors, manifest, known, chunkCache, generation, graph,
               sync, overlapped, edits, syncs, exits>>

Threads == {"turn", "background"}
Chunks == CodeFiles \X (1..MaxEdits)
IndexTables == <<rows, vectors, manifest, known, chunkCache, generation>>
IndexBounds == <<edits, syncs, exits>>

Unsigned == [signed |-> {}, model |-> "none"]
NoGraph == [generation |-> -1, holds |-> {}]
Unrecorded == [stat |-> 0, text |-> 0]
NoSync == [at |-> "idle", stats |-> [f \in CodeFiles |-> 0], cut |-> {}, changed |-> {},
           missing |-> {}, complete |-> FALSE, reused |-> FALSE]

CodeIndexInit ==
  /\ source = [f \in CodeFiles |-> 0]
  /\ rows = {} /\ vectors = {} /\ manifest = Unsigned
  /\ known = [f \in CodeFiles |-> Unrecorded]
  /\ chunkCache = [f \in CodeFiles |-> 0] /\ generation = 0
  /\ graph = [p \in Indexers |-> NoGraph]
  /\ sync = [p \in Indexers |-> [t \in Threads |-> NoSync]]
  /\ overlapped = FALSE /\ edits = 0 /\ syncs = 0 /\ exits = 0

SyncOf(p, t) == sync[p][t]
SyncGoes(p, t, new) == sync' = [sync EXCEPT ![p][t] = new]
Running == {p \in Indexers \X Threads : SyncOf(p[1], p[2]).at \notin {"idle", "synced"}}

-----------------------------------------------------------------------------
(* Somebody writes a file, or deletes it.                                  *)
EditFile(f) ==
  /\ edits < MaxEdits /\ edits' = edits + 1
  /\ \/ source' = [source EXCEPT ![f] = edits']
     \/ source[f] > 0 /\ source' = [source EXCEPT ![f] = 0]
  /\ UNCHANGED <<IndexTables, graph, sync, overlapped, syncs, exits>>

(* sync_code begins: collect_source_file_states.  A turn's sync is asked   *)
(* for by build_retrieval_section; the background's by a turn whose sync   *)
(* left vectors out, unless one runs already.                              *)
Collect(p, t) ==
  /\ syncs < MaxSyncs /\ syncs' = syncs + 1
  /\ SyncGoes(p, t, [NoSync EXCEPT !.at = "collected", !.stats = source])
  /\ overlapped' = (overlapped \/ Running # {})
  /\ UNCHANGED <<source, IndexTables, graph, edits, exits>>

TurnSyncs(p) == SyncOf(p, "turn").at = "idle" /\ Collect(p, "turn")

BackgroundSyncs(p) ==
  /\ SyncOf(p, "turn").at = "synced" /\ ~SyncOf(p, "turn").complete
  /\ SyncOf(p, "background").at = "idle"
  /\ Collect(p, "background")

(* code_snapshot_matches                                                   *)
Snapshot(s) ==
  manifest # Unsigned /\ \A f \in CodeFiles : known[f].stat = s.stats[f]

(* code_dense_complete counts, for a model.                                *)
DenseComplete(table, held, model) ==
  Cardinality(IF model = "m" THEN held \cap table ELSE {}) >= Cardinality(table)

(* Unchanged files and nothing to embed: the index is reused as it is.     *)
(* Unchanged files with vectors missing: the chunks come from the table.   *)
Check(p, t) ==
  LET s == SyncOf(p, t)
      complete == DenseComplete(rows, vectors, "m") IN
  /\ s.at = "collected"
  /\ SyncGoes(p, t,
       IF ~Snapshot(s) THEN [s EXCEPT !.at = "chunking"]
       ELSE IF t = "turn" \/ complete
         THEN [s EXCEPT !.at = "synced", !.complete = complete, !.reused = TRUE]
         ELSE [s EXCEPT !.at = "loading"])
  /\ UNCHANGED <<source, IndexTables, graph, overlapped, IndexBounds>>

LoadChunks(p, t) ==
  LET s == SyncOf(p, t) IN
  /\ s.at = "loading"
  /\ SyncGoes(p, t, [s EXCEPT !.at = "planning", !.cut = rows, !.reused = TRUE])
  /\ UNCHANGED <<source, IndexTables, graph, overlapped, IndexBounds>>

(* chunk_code_repository: a file whose recorded stat is the collected one  *)
(* comes from the chunk cache, if that has the recorded text; any other is *)
(* read now, and a file that is gone by now has no chunks.                 *)
Cached(s, f) ==
  known[f].stat = s.stats[f] /\ known[f].text = chunkCache[f] /\ chunkCache[f] > 0
TextOf(s, f) == IF Cached(s, f) THEN chunkCache[f] ELSE source[f]
CutOf(s) ==
  {<<f, TextOf(s, f)>> : f \in {g \in CodeFiles : s.stats[g] > 0 /\ TextOf(s, g) > 0}}

Chunk(p, t) ==
  LET s == SyncOf(p, t)
      cut == CutOf(s) IN
  /\ s.at = "chunking"
  /\ chunkCache' = [f \in CodeFiles |->
       IF \E c \in cut : c[1] = f THEN TextOf(s, f) ELSE chunkCache[f]]
  /\ SyncGoes(p, t, [s EXCEPT !.at = "planning", !.cut = cut])
  /\ UNCHANGED <<source, rows, vectors, manifest, known, generation, graph, overlapped,
                 IndexBounds>>

(* Without an embedder the sync keeps the manifest's model.                *)
ModelOf(t) ==
  IF t = "background" THEN "m" ELSE IF manifest = Unsigned THEN "disabled"
  ELSE manifest.model

(* index.sync, before the embeddings: what differs from the tables.        *)
Plan(p, t) ==
  LET s == SyncOf(p, t)
      changed == s.cut \ rows
      missing == IF t = "turn" THEN {} ELSE s.cut \ (vectors \cap rows)
      same == /\ manifest = [signed |-> s.cut, model |-> ModelOf(t)]
              /\ changed = {} /\ missing = {} IN
  /\ s.at = "planning"
  /\ SyncGoes(p, t, [s EXCEPT
       !.at = IF ~same THEN "writing" ELSE IF s.reused THEN "synced" ELSE "recording",
       !.changed = changed, !.missing = missing,
       !.complete = DenseComplete(rows, vectors, ModelOf(t))])
  /\ UNCHANGED <<source, IndexTables, graph, overlapped, IndexBounds>>

(* The provider fails: the exception ends the sync and, in the background, *)
(* the thread.                                                             *)
EmbeddingFails(p, t) ==
  /\ SyncOf(p, t).at = "writing" /\ SyncOf(p, t).missing # {}
  /\ SyncGoes(p, t, NoSync)
  /\ UNCHANGED <<source, IndexTables, graph, overlapped, IndexBounds>>

(* index.sync, after the embeddings: one transaction, planned before them. *)
(* What the table holds by now and this sync did not cut is stale.         *)
WriteIndex(p, t) ==
  LET s == SyncOf(p, t)
      stale == rows \ s.cut IN
  /\ s.at = "writing"
  /\ rows' = (rows \ stale) \cup s.changed
  /\ vectors' = (vectors \ (stale \cup s.changed)) \cup s.missing
  /\ manifest' = [signed |-> s.cut, model |-> ModelOf(t)]
  /\ generation' = generation + 1
  /\ graph' = [graph EXCEPT ![p] = NoGraph]
  /\ SyncGoes(p, t, [s EXCEPT !.at = IF s.reused THEN "synced" ELSE "recording",
                          !.complete = DenseComplete(rows', vectors', ModelOf(t))])
  /\ UNCHANGED <<source, known, chunkCache, overlapped, IndexBounds>>

(* faulty: the file is looked at again                                     *)
StatNow(s, f) == IF s.stats[f] > 0 THEN source[f] ELSE 0

(* record_code_file_states: the stats collected before anything was read,  *)
(* with the texts that were cut.                                           *)
StatOf(s, f) == s.stats[f]

RecordStates(p, t) ==
  LET s == SyncOf(p, t) IN
  /\ s.at = "recording"
  /\ known' = [f \in CodeFiles |->
       [stat |-> StatOf(s, f),
        text |-> IF \E c \in s.cut : c[1] = f
                 THEN (CHOOSE c \in s.cut : c[1] = f)[2] ELSE 0]]
  /\ SyncGoes(p, t, [s EXCEPT !.at = "synced"])
  /\ UNCHANGED <<source, rows, vectors, manifest, chunkCache, generation, graph, overlapped,
                 IndexBounds>>

(* The turn goes on, the thread ends.                                      *)
SyncEnds(p, t) ==
  /\ SyncOf(p, t).at = "synced"
  /\ SyncGoes(p, t, NoSync)
  /\ UNCHANGED <<source, IndexTables, graph, overlapped, IndexBounds>>

(* retrieve, by dense_search: the graph of this generation, or a new one.  *)
Retrieve(p) ==
  /\ SyncOf(p, "turn").at = "synced" /\ SyncOf(p, "turn").complete
  /\ graph[p].generation # generation
  /\ graph' = [graph EXCEPT ![p] = [generation |-> generation, holds |-> vectors \cap rows]]
  /\ UNCHANGED <<source, IndexTables, sync, overlapped, IndexBounds>>

IndexerDies(p) ==
  /\ exits < MaxExits /\ exits' = exits + 1
  /\ sync' = [sync EXCEPT ![p] = [t \in Threads |-> NoSync]]
  /\ graph' = [graph EXCEPT ![p] = NoGraph]
  /\ UNCHANGED <<source, IndexTables, overlapped, edits, syncs>>

CodeIndexNext ==
  \/ \E f \in CodeFiles : EditFile(f)
  \/ \E p \in Indexers : TurnSyncs(p) \/ BackgroundSyncs(p) \/ Retrieve(p) \/ IndexerDies(p)
  \/ \E p \in Indexers, t \in Threads :
       \/ Check(p, t) \/ LoadChunks(p, t) \/ Chunk(p, t) \/ Plan(p, t) \/ EmbeddingFails(p, t)
       \/ WriteIndex(p, t) \/ RecordStates(p, t) \/ SyncEnds(p, t)

CodeIndexSpec == CodeIndexInit /\ [][CodeIndexNext]_indexVars

-----------------------------------------------------------------------------
(* Every value is of its kind.                                             *)
CodeIndexTypeOK ==
  /\ source \in [CodeFiles -> 0..MaxEdits]
  /\ rows \subseteq Chunks /\ vectors \subseteq Chunks
  /\ manifest.signed \subseteq Chunks /\ manifest.model \in {"none", "disabled", "m"}
  /\ known \in [CodeFiles -> [stat : 0..MaxEdits, text : 0..MaxEdits]]
  /\ chunkCache \in [CodeFiles -> 0..MaxEdits] /\ generation \in Nat
  /\ \A p \in Indexers : graph[p].holds \subseteq Chunks
  /\ \A p \in Indexers, t \in Threads :
       sync[p][t].at \in {"idle", "collected", "loading", "chunking", "planning", "writing",
                          "recording", "synced"}

(* A graph that retrieval would use as it is finds what an exact search of *)
(* the vectors would, whatever another process has written since.          *)
GraphIsCurrent ==
  \A p \in Indexers :
    graph[p].generation = generation => graph[p].holds = vectors \cap rows

(* The chunks of a file that exists and has not been edited since s looked *)
(* at it are those of its text.  A file that was deleted can leave chunks  *)
(* behind: its sync died between WriteIndex and RecordStates, and what is known *)
(* then never had the file.                                                *)
FollowsFiles(s) ==
  \A f \in CodeFiles : source[f] > 0 /\ s.stats[f] = source[f] =>
    {c \in rows : c[1] = f} = {<<f, source[f]>>}

(* As long as syncs have not overlapped, a turn whose sync is done         *)
(* retrieves from the current text of the files, through edits during the  *)
(* sync, failed embeddings and exits.                                    *)
LoneSyncIsCurrent ==
  \A p \in Indexers :
    ~overlapped /\ SyncOf(p, "turn").at = "synced" => FollowsFiles(SyncOf(p, "turn"))

(* What retrieval relies on.                                               *)
IndexIsSound == GraphIsCurrent /\ LoneSyncIsCurrent

(* An index that is reused because the metadata of its files has not       *)
(* changed holds the text of these files.  It does not: a background sync  *)
(* that loaded its chunks before an edit writes after the turn's sync of   *)
(* the edited file and deletes its new chunks as stale.                    *)
ReusedIsCurrent ==
  \A p \in Indexers :
    SyncOf(p, "turn").at = "synced" /\ SyncOf(p, "turn").reused => FollowsFiles(SyncOf(p, "turn"))
=============================================================================
