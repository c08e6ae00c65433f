------------------------------ MODULE RepoMap --------------------------------
(***************************************************************************)
(* The map of the repository's symbols: features/repomap.  load_tags lists *)
(* the source files with their stat, takes each file's definitions and     *)
(* references from tags_cache.json when stat or content still match, else  *)
(* from a parser, and writes the cache back; the tags become a graph of    *)
(* references and a text within a budget.  The repo_map tool and the code  *)
(* index's background sync (chunking.chunk_repository) load tags from one  *)
(* cache file at the same time, and so do other processes.                 *)
(*                                                                         *)
(* A stat (size and modification time) is a number that every write of the *)
(* file renews; equal hashes are equal texts.  Scores are left out: any    *)
(* order of the files may be the ranking.                                  *)
(***************************************************************************)
EXTENDS Integers, FiniteSets, Sequences, SequencesExt, FiniteSetsExt, Sums

CONSTANTS
  MapFiles,      \* numbers, in the order of the paths
  Queries,       \* the sets of symbols that a query may name
  Code,          \* text |-> [defines, refers]: sets of symbols
  MaxDefiners,   \* MAX_DEFINERS_PER_IDENT
  MaxSymbols,    \* MAX_TAGS_PER_FILE
  MaxTermFiles,  \* max_term_files of build_seeds
  MaxSeeds,      \* MAX_SEED_FILES
  MapRoom,       \* budget: the symbols and paths a map has room for
  MaxWrites,     \* bound: writes of source files
  MaxMapLoads    \* bound: loads that begin

ASSUME RepoMapAssumption ==
  /\ IsFiniteSet(MapFiles)
  /\ MapFiles \cup {MaxDefiners, MaxSymbols, MaxTermFiles, MaxSeeds, MapRoom,
                    MaxWrites, MaxMapLoads}
       \subseteq Nat

VARIABLES
  files,    \* the text and the stat of each source file
  tagCache, \* tags_cache.json: its entries, and whether it can be parsed
  loader,   \* the call of load_tags of each loader
  parses,   \* pack_available: found once for the process
  map,      \* what build returned: the lines, the seeds, the edges
  sourceWrites, mapLoads
mapVars == <<files, tagCache, loader, parses, map, sourceWrites, mapLoads>>

Loaders == {"map", "index"}
Texts == DOMAIN Code
Absent == [text |-> "none", stat |-> 0]
NoEntries == [f \in MapFiles |-> Absent]
Unlisted == [f \in MapFiles |-> 0]
NoMap == [lines |-> <<>>, seeds |-> {}, edges |-> {}]
NoLoad == [at |-> "idle", loaded |-> FALSE, entries |-> NoEntries, states |-> Unlisted,
           todo |-> {}, tags |-> [f \in MapFiles |-> "none"], dirty |-> FALSE]

RepoMapInit ==
  /\ files = NoEntries /\ tagCache = [torn |-> FALSE, entries |-> NoEntries]
  /\ loader = [l \in Loaders |-> NoLoad]
  /\ parses \in BOOLEAN
  /\ map = NoMap /\ sourceWrites = 0 /\ mapLoads = 0

LoadOf(l) == loader[l]
LoadGoes(l, new) == loader' = [loader EXCEPT ![l] = new]
Present(f) == files[f] # Absent

-----------------------------------------------------------------------------
(* Somebody writes a source file (perhaps the same text), or removes it.   *)
WriteSource(f) ==
  /\ sourceWrites < MaxWrites /\ sourceWrites' = sourceWrites + 1
  /\ \/ \E t \in Texts : files' = [files EXCEPT ![f] = [text |-> t, stat |-> sourceWrites']]
     \/ Present(f) /\ files' = [files EXCEPT ![f] = Absent]
  /\ UNCHANGED <<tagCache, loader, parses, map, mapLoads>>

(* TagCache(): a file that cannot be parsed is taken for an empty cache    *)
(* that may not be saved.  The map opens the cache first and then lists    *)
(* the files; the index lists first.                                       *)
WithCache(load) ==
  [load EXCEPT !.loaded = ~tagCache.torn,
               !.entries = IF tagCache.torn THEN NoEntries ELSE tagCache.entries]
Listed(load) ==
  [load EXCEPT !.states = [f \in MapFiles |-> files[f].stat],
               !.todo = {f \in MapFiles : Present(f)}]

BeginLoad(l) ==
  /\ parses /\ LoadOf(l).at = "idle"
  /\ mapLoads < MaxMapLoads /\ mapLoads' = mapLoads + 1
  /\ LET load == [NoLoad EXCEPT !.at = "begun"]
     IN  LoadGoes(l, IF l = "map" THEN WithCache(load) ELSE Listed(load))
  /\ map' = IF l = "map" THEN NoMap ELSE map
  /\ UNCHANGED <<files, tagCache, parses, sourceWrites>>

GoOn(l) ==
  /\ LoadOf(l).at = "begun"
  /\ LET load == [LoadOf(l) EXCEPT !.at = "tagging"]
     IN  LoadGoes(l, IF l = "map" THEN Listed(load) ELSE WithCache(load))
  /\ UNCHANGED <<files, tagCache, parses, map, sourceWrites, mapLoads>>

(* get_by_stat and get (by hash)                                            *)
SameStat(load, f) == load.entries[f].stat = load.states[f]
AnyText(load, f) == load.entries[f] # Absent                      \* faulty
SameText(load, f) == load.entries[f].text = files[f].text

Handled(load, f, text) == [load EXCEPT !.todo = @ \ {f}, !.tags[f] = text]
(* refresh_stat or put: the stat is the one read when the files were listed *)
Rewritten(load, f, text) ==
  [Handled(load, f, text) EXCEPT !.entries[f] = [text |-> text, stat |-> load.states[f]],
                                 !.dirty = TRUE]

TakeByStat(l, f) ==
  /\ SameStat(LoadOf(l), f)
  /\ LoadGoes(l, Handled(LoadOf(l), f, LoadOf(l).entries[f].text))

(* A hit by hash keeps the cached tags, a miss parses the file.             *)
TakeByText(l, f) ==
  /\ ~SameStat(LoadOf(l), f) /\ Present(f)
  /\ LET load == LoadOf(l)
     IN  LoadGoes(l, Rewritten(load, f, IF SameText(load, f) THEN load.entries[f].text
                                                            ELSE files[f].text))

(* The file has gone since it was listed.                                   *)
Vanished(l, f) ==
  /\ ~SameStat(LoadOf(l), f) /\ ~Present(f)
  /\ LoadGoes(l, [LoadOf(l) EXCEPT !.todo = @ \ {f}])

TagFile(l, f) ==
  /\ LoadOf(l).at = "tagging" /\ f \in LoadOf(l).todo
  /\ TakeByStat(l, f) \/ TakeByText(l, f) \/ Vanished(l, f)
  /\ UNCHANGED <<files, tagCache, parses, map, sourceWrites, mapLoads>>

(* save(): write_text truncates the file and then fills it                  *)
BeginSave(l) ==
  /\ LoadOf(l).at = "tagging" /\ LoadOf(l).todo = {}
  /\ LoadOf(l).dirty /\ LoadOf(l).loaded
  /\ tagCache' = [torn |-> TRUE, entries |-> NoEntries]
  /\ LoadGoes(l, [LoadOf(l) EXCEPT !.at = "saving"])
  /\ UNCHANGED <<files, parses, map, sourceWrites, mapLoads>>

(* two that write at once may leave a mixture                               *)
EndSave(l) ==
  /\ LoadOf(l).at = "saving"
  /\ \/ tagCache' = [torn |-> FALSE, entries |-> LoadOf(l).entries]
     \/ /\ \E m \in Loaders \ {l} : LoadOf(m).at = "saving"
        /\ UNCHANGED tagCache
  /\ LoadGoes(l, [LoadOf(l) EXCEPT !.at = "tagged"])
  /\ UNCHANGED <<files, parses, map, sourceWrites, mapLoads>>

SaveNothing(l) ==
  /\ LoadOf(l).at = "tagging" /\ LoadOf(l).todo = {}
  /\ ~(LoadOf(l).dirty /\ LoadOf(l).loaded)
  /\ LoadGoes(l, [LoadOf(l) EXCEPT !.at = "tagged"])
  /\ UNCHANGED <<files, tagCache, parses, map, sourceWrites, mapLoads>>

-----------------------------------------------------------------------------
Tagged(tags) == {f \in MapFiles : tags[f] # "none"}
Defines(tags, f) == Code[tags[f]].defines
Mentions(tags, f) == Code[tags[f]].defines \cup Code[tags[f]].refers

(* build_reference_graph: from every file to those that define what it      *)
(* refers to, unless too many do                                            *)
Definers(tags, f, s) == {g \in Tagged(tags) \ {f} : s \in Defines(tags, g)}
References(tags) ==
  {e \in Tagged(tags) \X Tagged(tags) :
     \E s \in Code[tags[e[1]]].refers :
       /\ e[2] \in Definers(tags, e[1], s)
       /\ Cardinality(Definers(tags, e[1], s)) <= MaxDefiners}

(* build_seeds: symbols of the query that are not in too many files; the    *)
(* files with the rarest come first.  A rarity is a fraction of Whole.      *)
Whole == 12
HoldersOf(tags, s) == {f \in Tagged(tags) : s \in Mentions(tags, f)}
Useful(tags, query) == {s \in query : Cardinality(HoldersOf(tags, s)) <= MaxTermFiles}
Rarity(tags, query, f) ==
  MapThenSumSet(LAMBDA s : Whole \div Cardinality(HoldersOf(tags, s)),
                {s \in Useful(tags, query) : f \in HoldersOf(tags, s)})
Matching(tags, query) == {f \in Tagged(tags) : Mentions(tags, f) \cap Useful(tags, query) # {}}
Before(tags, query, f, g) ==
  \/ Rarity(tags, query, f) > Rarity(tags, query, g)
  \/ Rarity(tags, query, f) = Rarity(tags, query, g) /\ f < g
Seeds(tags, query, recent) ==
  {f \in Matching(tags, query) :
     Cardinality({g \in Matching(tags, query) : Before(tags, query, g, f)}) < MaxSeeds}
  \cup (recent \cap Tagged(tags))

(* render_repo_map: lines are added until one does not fit                  *)
Symbols(tags, f) ==
  CHOOSE S \in SUBSET Defines(tags, f) :
    Cardinality(S) = Min({MaxSymbols, Cardinality(Defines(tags, f))})
Line(tags, f) == [file |-> f, symbols |-> Symbols(tags, f)]
WidthOf(lines) ==
  SumTo([i \in DOMAIN lines |-> 1 + Cardinality(lines[i].symbols)], Len(lines))
Rendered(tags, ranked) ==
  LET lines == [i \in DOMAIN ranked |-> Line(tags, ranked[i])]
      fits == {n \in 0 .. Len(lines) : WidthOf(SubSeq(lines, 1, n)) <= MapRoom}
  IN  SubSeq(lines, 1, Max(fits))

(* build: the files that define something, in some order of their scores    *)
Render ==
  /\ LoadOf("map").at = "tagged"
  /\ LET tags == LoadOf("map").tags
         ranking == {f \in Tagged(tags) : Defines(tags, f) # {}}
     IN  \E ranked \in SetToSeqs(ranking), query \in Queries, recent \in SUBSET MapFiles :
           map' = [lines |-> Rendered(tags, ranked),
                   seeds |-> Seeds(tags, query, recent),
                   edges |-> References(tags)]
  /\ LoadGoes("map", NoLoad)
  /\ UNCHANGED <<files, tagCache, parses, sourceWrites, mapLoads>>

(* the index goes on with the tags                                          *)
Chunked ==
  /\ LoadOf("index").at = "tagged"
  /\ LoadGoes("index", NoLoad)
  /\ UNCHANGED <<files, tagCache, parses, map, sourceWrites, mapLoads>>

(* The process dies, perhaps in the middle of the write; the next one finds *)
(* out anew whether it can parse.                                           *)
Restart ==
  /\ \E l \in Loaders : LoadOf(l).at # "idle"
  /\ loader' = [l \in Loaders |-> NoLoad]
  /\ parses' \in BOOLEAN /\ map' = NoMap
  /\ UNCHANGED <<files, tagCache, sourceWrites, mapLoads>>

LoadStep(l) ==
  \/ BeginLoad(l) \/ GoOn(l) \/ BeginSave(l) \/ EndSave(l) \/ SaveNothing(l)
  \/ \E f \in MapFiles : TagFile(l, f)
RepoMapNext ==
  \/ \E f \in MapFiles : WriteSource(f)
  \/ \E l \in Loaders : LoadStep(l)
  \/ Render \/ Chunked \/ Restart

RepoMapSpec == RepoMapInit /\ [][RepoMapNext]_mapVars

-----------------------------------------------------------------------------
Entries == [text : Texts \cup {"none"}, stat : 0 .. MaxWrites]
RepoMapTypeOK ==
  /\ files \in [MapFiles -> Entries]
  /\ tagCache \in [torn : BOOLEAN, entries : [MapFiles -> Entries]]
  /\ \A l \in Loaders :
       /\ LoadOf(l).at \in {"idle", "begun", "tagging", "saving", "tagged"}
       /\ LoadOf(l).entries \in [MapFiles -> Entries]
       /\ LoadOf(l).todo \subseteq MapFiles

(* An entry whose stat is the file's has the file's text, in the cache file *)
(* and in every loader's copy: the files may change between the listing,    *)
(* the hash and the parse, and the two loaders may save over each other.    *)
EntriesAreCurrent ==
  \A f \in MapFiles :
    \A e \in {tagCache.entries[f]} \cup {LoadOf(l).entries[f] : l \in Loaders} :
      Present(f) /\ e.stat = files[f].stat => e.text = files[f].text

(* So a load gives no tags of a text that was gone before it began.         *)
TagsAreCurrent ==
  \A l \in Loaders : \A f \in Tagged(LoadOf(l).tags) :
    LoadOf(l).states[f] = files[f].stat => LoadOf(l).tags[f] = files[f].text

(* A map has room for what it shows and shows a file once; no        *)
(* reference leads from a file to itself.                                   *)
MapFits ==
  /\ WidthOf(map.lines) <= MapRoom
  /\ \A i, j \in DOMAIN map.lines : map.lines[i].file = map.lines[j].file => i = j
  /\ \A e \in map.edges : e[1] # e[2]

TagsAreSound == EntriesAreCurrent /\ TagsAreCurrent /\ MapFits
=============================================================================
