---------------------------- MODULE LexicalCache ----------------------------
(***************************************************************************)
(* The BM25 index of one knowledge base and embedding model, and its two   *)
(* caches: a process-wide one keyed by the number of chunks the filters of *)
(* the search matched, and a side file that records its own number of      *)
(* chunks (retrieval/lexical_index.py).                                    *)
(*                                                                         *)
(* A document version has one chunk here, so a chunk is <<document,        *)
(* version>>.  Which versions of a document are INDEXED is the matter of   *)
(* Pipeline, where two may be and an older one may replace a newer: here   *)
(* a run that commits may leave any others INDEXED.                        *)
(*                                                                         *)
(* Between two awaits the event loop runs nothing else: a search reads the *)
(* live chunks, and in a second step consults or fills the caches; an      *)
(* indexing run commits, reads the live chunks, and in a third step writes *)
(* the file and empties the process cache.  The language filter acts as    *)
(* document_ids does and is not told apart from it.                        *)
(***************************************************************************)
EXTENDS Naturals, FiniteSets

CONSTANTS
    Docs,
    Versions,      \* of a document
    Searchers,     \* searches that may be running at once
    Indexers,      \* indexing runs that may be running at once
    Filters,       \* document_ids of a search; {} is no filter
    Withdrawals,   \* what is INDEXED is archived, restored, deleted or fails
    Faults,        \* the process restarts, and writing the file fails
    NoIndex,       \* in place of an index: none is there, or none that can be read
    CutFile        \* a file that ends inside a character

ASSUME LexicalAssumption ==
    /\ IsFiniteSet(Docs)
    /\ IsFiniteSet(Versions)
    /\ Filters \subseteq SUBSET Docs
    /\ Withdrawals \in BOOLEAN
    /\ Faults \in BOOLEAN
    /\ NoIndex # CutFile
    /\ \A index \in SUBSET (Docs \X Versions) : index \notin {NoIndex, CutFile}

Rows == Docs \X Versions
Sizes == 0 .. Cardinality(Rows)

VARIABLES
    indexed,    \* per document: the versions that are INDEXED
    active,     \* per document: its status is ACTIVE
    cache,      \* _PROCESS_CACHE, per number of chunks
    file,       \* the side file
    spc, sfilter, srows, answer,   \* per search: step, filter, rows read, index used
    ipc, irows                     \* per indexing run: step, rows read

corpus == <<indexed, active>>
searches == <<spc, sfilter, srows, answer>>
runs == <<ipc, irows>>
vars == <<corpus, cache, file, searches, runs>>

EmptyCache == [n \in Sizes |-> NoIndex]

Init ==
    /\ indexed = [d \in Docs |-> {}]
    /\ active = [d \in Docs |-> TRUE]
    /\ cache = EmptyCache
    /\ file = NoIndex
    /\ spc = [s \in Searchers |-> "idle"]
    /\ sfilter = [s \in Searchers |-> {}]
    /\ srows = [s \in Searchers |-> {}]
    /\ answer = [s \in Searchers |-> NoIndex]
    /\ ipc = [i \in Indexers |-> "idle"]
    /\ irows = [i \in Indexers |-> {}]

\* list_indexed_corpus: the live chunks that pass the filter.
Corpus(filter) ==
    {r \in Rows : r[2] \in indexed[r[1]] /\ active[r[1]] /\ (filter = {} \/ r[1] \in filter)}

\* Mutant: the recorded count is not looked at.
FileMatches_Any(n) == file \notin {NoIndex, CutFile} /\ n # 0

\* The file holds an index of n chunks; a recorded count of 0 never matches.
FileMatches(n) == file \notin {NoIndex, CutFile} /\ n # 0 /\ Cardinality(file) = n

-----------------------------------------------------------------------------
(* load_bm25_index *)

\* A search stops early when the knowledge base has no indexed embedding.
SearchRead(s, filter) ==
    /\ spc[s] = "idle"
    /\ \E d \in Docs : indexed[d] # {}
    /\ spc' = [spc EXCEPT ![s] = "read"]
    /\ sfilter' = [sfilter EXCEPT ![s] = filter]
    /\ srows' = [srows EXCEPT ![s] = Corpus(filter)]
    /\ UNCHANGED <<corpus, cache, file, answer, runs>>

Use(s, index) ==
    /\ spc' = [spc EXCEPT ![s] = "answered"]
    /\ answer' = [answer EXCEPT ![s] = index]
    /\ UNCHANGED <<corpus, sfilter, srows, runs>>

CacheHit(s) ==
    LET n == Cardinality(srows[s]) IN
    /\ spc[s] = "read"
    /\ cache[n] # NoIndex
    /\ Use(s, cache[n])
    /\ UNCHANGED <<cache, file>>

FileHit(s) ==
    LET n == Cardinality(srows[s]) IN
    /\ spc[s] = "read"
    /\ cache[n] = NoIndex
    /\ sfilter[s] = {}
    /\ FileMatches(n)
    /\ Use(s, file)
    /\ cache' = [cache EXCEPT ![n] = file]
    /\ UNCHANGED file

\* An unfiltered search also replaces the file.
Build(s) ==
    LET n == Cardinality(srows[s]) IN
    /\ spc[s] = "read"
    /\ cache[n] = NoIndex
    /\ sfilter[s] = {} => file # CutFile /\ ~FileMatches(n)
    /\ Use(s, srows[s])
    /\ cache' = [cache EXCEPT ![n] = srows[s]]
    /\ file' = IF sfilter[s] = {} THEN srows[s] ELSE file

EndSearch(s) ==
    /\ spc' = [spc EXCEPT ![s] = "idle"]
    /\ answer' = [answer EXCEPT ![s] = NoIndex]
    /\ sfilter' = [sfilter EXCEPT ![s] = {}]
    /\ srows' = [srows EXCEPT ![s] = {}]
    /\ UNCHANGED <<corpus, cache, runs>>

Reply(s) ==
    /\ spc[s] = "answered"
    /\ EndSearch(s)
    /\ UNCHANGED file

\* A file whose writing fails may be cut short: it is no JSON then, which counts as
\* no file, or not even text.
WriteFails == Faults /\ file' \in {file, NoIndex, CutFile}

\* The file cannot be replaced, which ends the search.
BuildFails(s) ==
    LET n == Cardinality(srows[s]) IN
    /\ spc[s] = "read"
    /\ cache[n] = NoIndex
    /\ sfilter[s] = {} /\ file # CutFile /\ ~FileMatches(n)
    /\ WriteFails
    /\ EndSearch(s)

\* UnicodeDecodeError, which _load_side_file does not expect, ends the search.
FileFails(s) ==
    /\ spc[s] = "read"
    /\ cache[Cardinality(srows[s])] = NoIndex
    /\ sfilter[s] = {} /\ file = CutFile
    /\ EndSearch(s)
    /\ UNCHANGED file

\* _CACHE_TTL_SECONDS have passed since the entry was made.
Expire(n) ==
    /\ cache[n] # NoIndex
    /\ cache' = [cache EXCEPT ![n] = NoIndex]
    /\ UNCHANGED <<corpus, file, searches, runs>>

-----------------------------------------------------------------------------
(* IndexingService._index_once and persist_kb_lexical_index *)

\* Version v of d is INDEXED, perhaps again.  It supersedes those it has found INDEXED
\* (_supersede_prior_versions), older or newer; one committed since stays.
CommitIndexed(i, d, v) ==
    /\ ipc[i] = "idle"
    /\ \E kept \in SUBSET (indexed[d] \ {v}) :
          indexed' = [indexed EXCEPT ![d] = kept \cup {v}]
    /\ ipc' = [ipc EXCEPT ![i] = "committed"]
    /\ UNCHANGED <<active, cache, file, searches, irows>>

PersistRead(i) ==
    /\ ipc[i] = "committed"
    /\ ipc' = [ipc EXCEPT ![i] = "read"]
    /\ irows' = [irows EXCEPT ![i] = Corpus({})]
    /\ UNCHANGED <<corpus, cache, file, searches>>

PersistEnd(i) ==
    /\ ipc' = [ipc EXCEPT ![i] = "idle"]
    /\ irows' = [irows EXCEPT ![i] = {}]
    /\ UNCHANGED <<corpus, searches>>

\* Mutant: the process cache keeps its entries.
PersistWrite_KeepsCache(i) ==
    /\ ipc[i] = "read"
    /\ file' = irows[i]
    /\ UNCHANGED cache
    /\ PersistEnd(i)

PersistWrite(i) ==
    /\ ipc[i] = "read"
    /\ file' = irows[i]
    /\ cache' = EmptyCache
    /\ PersistEnd(i)

\* Logged and ignored: the index is "best effort".
PersistFails(i) ==
    /\ \/ ipc[i] = "committed" /\ Faults /\ UNCHANGED file
       \/ ipc[i] = "read" /\ WriteFails
    /\ UNCHANGED cache
    /\ PersistEnd(i)

-----------------------------------------------------------------------------
(* Elsewhere *)

\* No cache is told of any of these.
ArchiveDocument(d) ==
    /\ Withdrawals
    /\ active[d]
    /\ active' = [active EXCEPT ![d] = FALSE]
    /\ UNCHANGED <<indexed, cache, file, searches, runs>>

RestoreDocument(d) ==
    /\ Withdrawals
    /\ ~active[d]
    /\ active' = [active EXCEPT ![d] = TRUE]
    /\ UNCHANGED <<indexed, cache, file, searches, runs>>

\* A document that is deleted leaves its place to one that is uploaded later.
DeleteDocument(d) ==
    /\ Withdrawals
    /\ indexed[d] # {}
    /\ indexed' = [indexed EXCEPT ![d] = {}]
    /\ active' = [active EXCEPT ![d] = TRUE]
    /\ UNCHANGED <<cache, file, searches, runs>>

\* _mark_failed: a run that ended late marks a version that is INDEXED.
MarkFailed(d, v) ==
    /\ Withdrawals
    /\ v \in indexed[d]
    /\ indexed' = [indexed EXCEPT ![d] = @ \ {v}]
    /\ UNCHANGED <<active, cache, file, searches, runs>>

\* The process stops, perhaps while it writes the file, and starts again: what it
\* was doing is lost.
Restart ==
    /\ WriteFails
    /\ cache' = EmptyCache
    /\ spc' = [s \in Searchers |-> "idle"]
    /\ sfilter' = [s \in Searchers |-> {}]
    /\ srows' = [s \in Searchers |-> {}]
    /\ answer' = [s \in Searchers |-> NoIndex]
    /\ ipc' = [i \in Indexers |-> "idle"]
    /\ irows' = [i \in Indexers |-> {}]
    /\ UNCHANGED corpus

Next ==
    \/ \E s \in Searchers :
          \/ \E f \in Filters : SearchRead(s, f)
          \/ CacheHit(s) \/ FileHit(s) \/ Build(s) \/ BuildFails(s) \/ FileFails(s)
          \/ Reply(s)
    \/ \E n \in Sizes : Expire(n)
    \/ \E i \in Indexers :
          \/ \E d \in Docs, v \in Versions : CommitIndexed(i, d, v)
          \/ PersistRead(i) \/ PersistWrite(i) \/ PersistFails(i)
    \/ \E d \in Docs : \/ ArchiveDocument(d) \/ RestoreDocument(d) \/ DeleteDocument(d)
                      \/ \E v \in Versions : MarkFailed(d, v)
    \/ Restart

Spec == Init /\ [][Next]_vars

-----------------------------------------------------------------------------
IndexOrNone == {NoIndex} \cup SUBSET Rows

\* The type invariant.
TypeOK ==
    /\ indexed \in [Docs -> SUBSET Versions]
    /\ active \in [Docs -> BOOLEAN]
    /\ cache \in [Sizes -> IndexOrNone]
    /\ file \in IndexOrNone \cup {CutFile}
    /\ spc \in [Searchers -> {"idle", "read", "answered"}]
    /\ sfilter \in [Searchers -> SUBSET Docs]
    /\ srows \in [Searchers -> SUBSET Rows]
    /\ answer \in [Searchers -> IndexOrNone]
    /\ ipc \in [Indexers -> {"idle", "committed", "read"}]
    /\ irows \in [Indexers -> SUBSET Rows]

\* Whatever is cached, the index a search uses has exactly as many chunks as its
\* own filters match in the database.
AnswerHasLiveSize ==
    \A s \in Searchers : spc[s] = "answered" => Cardinality(answer[s]) = Cardinality(srows[s])

\* An index that a search starting now could be given: it has as many chunks as
\* the live corpus.
Reachable(index) == index \notin {NoIndex, CutFile} /\ Cardinality(index) = Cardinality(Corpus({}))

\* Once no indexing run is under way, no cache a search could use is stale, even
\* though searches that read the corpus long ago keep filling both caches.
FreshWhenQuiet ==
    (\A i \in Indexers : ipc[i] = "idle") =>
        \A index \in {cache[n] : n \in Sizes} \cup {file} :
            Reachable(index) => index = Corpus({})

-----------------------------------------------------------------------------
(* What does not hold. *)

\* "Retrieval never returns chunks from superseded versions"
\* (specs/005-retrieval/SPEC.md:252).
NeverSuperseded ==
    \A s \in Searchers : spc[s] = "answered" =>
        \A r \in answer[s], q \in srows[s] : r[1] = q[1] => r \in srows[s]

\* "all results reference D1 only" (specs/005-retrieval/SPEC.md:360).
FilterRespected ==
    \A s \in Searchers : spc[s] = "answered" /\ sfilter[s] # {} =>
        \A r \in answer[s] : r[1] \in sfilter[s]

\* A file that cannot be read leaves a search the live chunks ("Load BM25 index from
\* process cache, side file, or live chunk corpus", retrieval/lexical_index.py:99).
FileNeverFails == [][\A s \in Searchers : ~FileFails(s)]_vars
=============================================================================
