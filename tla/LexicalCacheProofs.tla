------------------------- MODULE LexicalCacheProofs -------------------------
(***************************************************************************)
(* For any number of documents, versions, searches and indexing runs, with *)
(* every fault: the index a search is given has the size of what its       *)
(* filters match.                                                          *)
(*                                                                         *)
(* AnswerHasLiveSize is not inductive: a cache entry must be known to have *)
(* the size that is its key.                                               *)
(***************************************************************************)
EXTENDS LexicalCache, FiniteSetTheorems, TLAPS

\* Every cache entry has the number of chunks of its key.
Sized == \A n \in Sizes : cache[n] # NoIndex => Cardinality(cache[n]) = n

IInv == TypeOK /\ Sized /\ AnswerHasLiveSize

\* NoIndex is no index, nor is a file that cannot be read.
LEMMA NoIndexApart ==
    ASSUME NEW R \in SUBSET Rows
    PROVE  R # NoIndex /\ R # CutFile
BY LexicalAssumption DEF LexicalAssumption, Rows

\* The number of chunks that are read is a cache key.
LEMMA RowsSize ==
    ASSUME NEW R \in SUBSET Rows
    PROVE  IsFiniteSet(R) /\ Cardinality(R) \in Sizes
<1>1. IsFiniteSet(Rows)
  BY FS_Product, LexicalAssumption DEF Rows, LexicalAssumption
<1>2. IsFiniteSet(R) /\ Cardinality(R) <= Cardinality(Rows)
  BY <1>1, FS_Subset
<1>3. Cardinality(R) \in Nat /\ Cardinality(Rows) \in Nat
  BY <1>1, <1>2, FS_CardinalityType
<1> QED
  BY <1>2, <1>3 DEF Sizes

\* What list_indexed_corpus returns are chunks.
LEMMA CorpusIsRows == \A filter : Corpus(filter) \in SUBSET Rows
BY DEF Corpus

\* At the start there is no index.
LEMMA InitInv == Init => IInv
<1> SUFFICES ASSUME Init PROVE IInv
  OBVIOUS
<1> USE DEF Init
<1>1. TypeOK
  BY LexicalAssumption DEF TypeOK, EmptyCache, IndexOrNone, LexicalAssumption
<1>2. Sized
  BY DEF Sized, EmptyCache
<1>4. AnswerHasLiveSize
  BY DEF AnswerHasLiveSize
<1> QED
  BY <1>1, <1>2, <1>4 DEF IInv

\* What a search in step "read" finds under its key, and in the file if it
\* matches, has the size of the rows it read.
LEMMA RightSize ==
    ASSUME IInv, NEW s \in Searchers
    PROVE  /\ Cardinality(srows[s]) \in Sizes
           /\ cache[Cardinality(srows[s])] # NoIndex =>
                 Cardinality(cache[Cardinality(srows[s])]) = Cardinality(srows[s])
<1>1. srows[s] \in SUBSET Rows
  BY DEF IInv, TypeOK
<1> QED
  BY <1>1, RowsSize DEF IInv, Sized

\* The steps of load_bm25_index.
LEMMA SearchStep ==
    ASSUME IInv, NEW s \in Searchers,
           \/ \E f \in Filters : SearchRead(s, f)
           \/ CacheHit(s) \/ FileHit(s) \/ Build(s) \/ BuildFails(s) \/ FileFails(s)
           \/ Reply(s)
    PROVE  IInv'
<1> DEFINE n == Cardinality(srows[s])
<1> USE DEF IInv
<1>n. n \in Sizes /\ (cache[n] # NoIndex => Cardinality(cache[n]) = n)
  BY RightSize
<1>s. srows[s] \in SUBSET Rows /\ srows[s] # NoIndex
  BY NoIndexApart DEF TypeOK
<1>1. ASSUME NEW f \in Filters, SearchRead(s, f) PROVE IInv'
  <2>1. Corpus(f) \in SUBSET Rows
    BY CorpusIsRows
  <2>2. TypeOK'
    BY <1>1, <2>1, LexicalAssumption
       DEF SearchRead, TypeOK, corpus, runs, LexicalAssumption
  <2>3. Sized'
    BY <1>1 DEF SearchRead, Sized
  <2>5. AnswerHasLiveSize'
    BY <1>1 DEF SearchRead, AnswerHasLiveSize, TypeOK
  <2> QED
    BY <2>2, <2>3, <2>5
<1>2. ASSUME CacheHit(s) PROVE IInv'
  <2>1. TypeOK'
    BY <1>2, <1>n DEF CacheHit, Use, TypeOK, corpus, runs
  <2>2. Sized'
    BY <1>2 DEF CacheHit, Sized
  <2>4. AnswerHasLiveSize'
    BY <1>2, <1>n DEF CacheHit, Use, AnswerHasLiveSize, TypeOK
  <2> QED
    BY <2>1, <2>2, <2>4
<1>3. ASSUME FileHit(s) PROVE IInv'
  <2>1. file \in IndexOrNone /\ file # NoIndex /\ Cardinality(file) = n
    BY <1>3 DEF FileHit, FileMatches, TypeOK
  <2>2. TypeOK'
    BY <1>3, <1>n, <2>1 DEF FileHit, Use, TypeOK, corpus, runs
  <2>3. Sized'
    BY <1>3, <2>1 DEF FileHit, Sized, TypeOK
  <2>5. AnswerHasLiveSize'
    BY <1>3, <2>1 DEF FileHit, Use, AnswerHasLiveSize, TypeOK
  <2> QED
    BY <2>2, <2>3, <2>5
<1>4. ASSUME Build(s) PROVE IInv'
  <2>1. TypeOK'
    BY <1>4, <1>n, <1>s DEF Build, Use, TypeOK, IndexOrNone, corpus, runs
  <2>2. Sized'
    BY <1>4 DEF Build, Sized, TypeOK
  <2>4. AnswerHasLiveSize'
    BY <1>4 DEF Build, Use, AnswerHasLiveSize, TypeOK
  <2> QED
    BY <2>1, <2>2, <2>4
<1>5. ASSUME EndSearch(s), file' \in {file, NoIndex, CutFile} PROVE IInv'
  <2>1. TypeOK'
    BY <1>5 DEF EndSearch, TypeOK, IndexOrNone, corpus, runs
  <2>2. Sized'
    BY <1>5 DEF EndSearch, Sized
  <2>4. AnswerHasLiveSize'
    BY <1>5 DEF EndSearch, AnswerHasLiveSize, TypeOK
  <2> QED
    BY <2>1, <2>2, <2>4
<1> QED
  BY <1>1, <1>2, <1>3, <1>4, <1>5 DEF BuildFails, FileFails, Reply, WriteFails

\* The steps of an indexing run and of persist_kb_lexical_index.
LEMMA IndexerStep ==
    ASSUME IInv, NEW i \in Indexers,
           \/ \E d \in Docs, v \in Versions : CommitIndexed(i, d, v)
           \/ PersistRead(i) \/ PersistWrite(i) \/ PersistFails(i)
    PROVE  IInv'
<1> USE DEF IInv
<1>1. ASSUME NEW d \in Docs, NEW v \in Versions, CommitIndexed(i, d, v) PROVE IInv'
  <2>1. PICK kept \in SUBSET (indexed[d] \ {v}) : indexed' = [indexed EXCEPT ![d] = kept \cup {v}]
    BY <1>1 DEF CommitIndexed
  <2>2. TypeOK'
    BY <1>1, <2>1 DEF CommitIndexed, TypeOK, searches
  <2> QED
    BY <1>1, <2>2 DEF CommitIndexed, Sized, AnswerHasLiveSize, searches
<1>2. ASSUME PersistRead(i) PROVE IInv'
  <2>1. Corpus({}) \in SUBSET Rows
    BY CorpusIsRows
  <2>2. TypeOK'
    BY <1>2, <2>1 DEF PersistRead, TypeOK, corpus, searches
  <2> QED
    BY <1>2, <2>2 DEF PersistRead, Sized, AnswerHasLiveSize, searches
<1>3. ASSUME PersistEnd(i), cache' \in {cache, EmptyCache},
             file' \in {file, NoIndex, CutFile, irows[i]}
      PROVE  IInv'
  <2>1. TypeOK'
    BY <1>3 DEF PersistEnd, TypeOK, EmptyCache, IndexOrNone, corpus, searches
  <2>2. Sized'
    BY <1>3 DEF Sized, EmptyCache
  <2> QED
    BY <1>3, <2>1, <2>2 DEF PersistEnd, AnswerHasLiveSize, searches
<1> QED
  BY <1>1, <1>2, <1>3 DEF PersistWrite, PersistFails, WriteFails

\* What no cache is told of.
Withdrawn(d) ==
    \/ ArchiveDocument(d) \/ RestoreDocument(d) \/ DeleteDocument(d)
    \/ \E v \in Versions : MarkFailed(d, v)

\* Expiry, withdrawals and restarts.
LEMMA OtherStep ==
    ASSUME IInv,
           \/ \E n \in Sizes : Expire(n)
           \/ \E d \in Docs : Withdrawn(d)
           \/ Restart
    PROVE  IInv'
<1> USE DEF IInv
<1>1. ASSUME NEW n \in Sizes, Expire(n) PROVE IInv'
  BY <1>1 DEF Expire, TypeOK, Sized, AnswerHasLiveSize, IndexOrNone, corpus, searches, runs
<1>2. ASSUME NEW d \in Docs, Withdrawn(d) PROVE IInv'
  <2>1. active' \in [Docs -> BOOLEAN] /\ indexed' \in [Docs -> SUBSET Versions]
    <3>1. CASE ArchiveDocument(d) \/ RestoreDocument(d)
      BY <3>1 DEF ArchiveDocument, RestoreDocument, TypeOK
    <3>2. CASE DeleteDocument(d)
      BY <3>2 DEF DeleteDocument, TypeOK
    <3>3. ASSUME NEW v \in Versions, MarkFailed(d, v)
          PROVE  active' \in [Docs -> BOOLEAN] /\ indexed' \in [Docs -> SUBSET Versions]
      <4>1. indexed[d] \ {v} \in SUBSET Versions
        BY DEF TypeOK
      <4> QED
        BY <3>3, <4>1 DEF MarkFailed, TypeOK
    <3> QED
      BY <1>2, <3>1, <3>2, <3>3 DEF Withdrawn
  <2>2. UNCHANGED <<cache, file, searches, runs>>
    BY <1>2 DEF Withdrawn, ArchiveDocument, RestoreDocument, DeleteDocument, MarkFailed
  <2>3. TypeOK'
    BY <2>1, <2>2 DEF TypeOK, searches, runs
  <2> QED
    BY <2>2, <2>3 DEF Sized, AnswerHasLiveSize, searches
<1>3. CASE Restart
  <2>1. TypeOK'
    BY <1>3 DEF Restart, WriteFails, TypeOK, EmptyCache, IndexOrNone, corpus
  <2> QED
    BY <1>3, <2>1 DEF Restart, Sized, AnswerHasLiveSize, EmptyCache
<1> QED
  BY <1>1, <1>2, <1>3

\* Every step preserves the invariant.
LEMMA Inductive == IInv /\ [Next]_vars => IInv'
<1> SUFFICES ASSUME IInv, [Next]_vars PROVE IInv'
  OBVIOUS
<1>1. CASE UNCHANGED vars
  BY <1>1 DEF vars, corpus, searches, runs, IInv, TypeOK, Sized, 
              AnswerHasLiveSize
<1> QED
  BY <1>1, SearchStep, IndexerStep, OtherStep DEF Next, Withdrawn

\* The invariant holds for ever.
LEMMA Invariance == Spec => []IInv
<1>1. Init => IInv
  BY InitInv
<1>2. IInv /\ [Next]_vars => IInv'
  BY Inductive
<1> QED
  BY <1>1, <1>2, PTL DEF Spec

\* The variables of the two caches keep their types.
THEOREM LexicalTypeCorrect == Spec => []TypeOK
<1>1. IInv => TypeOK
  BY DEF IInv
<1> QED
  BY <1>1, Invariance, PTL

\* The index a search is given has as many chunks as its filters match in the
\* database, whatever load_bm25_index found in its caches.
THEOREM LiveSizeHolds == Spec => []AnswerHasLiveSize
<1>1. IInv => AnswerHasLiveSize
  BY DEF IInv
<1> QED
  BY <1>1, Invariance, PTL

-----------------------------------------------------------------------------
(***************************************************************************)
(* Freshness, for one search and one indexing run at a time, with nothing  *)
(* else changing the corpus.  FreshWhenQuiet is not inductive: a search    *)
(* may hold rows as many as the live ones but older, and would cache them  *)
(* if it did not find the file.                                            *)
(***************************************************************************)

OneAtATime ==
    /\ \E s : Searchers = {s}
    /\ \E i : Indexers = {i}
    /\ Filters = {{}} /\ ~Withdrawals /\ ~Faults

Quiet == \A i \in Indexers : ipc[i] = "idle"

\* The rows to be written are the live ones.
PersistFresh == \A i \in Indexers : ipc[i] = "read" => irows[i] = Corpus({})

\* A search with rows it should not cache will be stopped by the file.
Guarded ==
    \A s \in Searchers :
        /\ sfilter[s] = {}
        /\ /\ Quiet
           /\ spc[s] = "read"
           /\ Cardinality(srows[s]) = Cardinality(Corpus({}))
           /\ srows[s] # Corpus({})
           => file = Corpus({})

FInv == IInv /\ PersistFresh /\ Guarded /\ FreshWhenQuiet

\* The corpus stays while versions and documents do.
LEMMA SameCorpus ==
    ASSUME UNCHANGED corpus
    PROVE  Corpus({})' = Corpus({})
BY DEF corpus, Corpus

\* A search that replaces the file has read the live rows, or fewer or more of them.
LEMMA BuildsLiveRows ==
    ASSUME FInv, Quiet, NEW s \in Searchers, Build(s),
           Cardinality(srows[s]) = Cardinality(Corpus({}))
    PROVE  srows[s] = Corpus({})
<1> SUFFICES ASSUME srows[s] # Corpus({}) PROVE FALSE
  OBVIOUS
<1>1. Corpus({}) \in SUBSET Rows
  BY CorpusIsRows
<1>2. srows[s] \in SUBSET Rows
  BY DEF FInv, IInv, TypeOK
<1>3. IsFiniteSet(Corpus({})) /\ IsFiniteSet(srows[s])
  BY <1>1, <1>2, RowsSize
<1>4. file = Corpus({}) /\ sfilter[s] = {}
  BY DEF FInv, Guarded, Build
<1>5. file \notin {NoIndex, CutFile}
  BY <1>1, <1>4, NoIndexApart
<1>6. Cardinality(srows[s]) = 0
  BY <1>4, <1>5 DEF Build, FileMatches
<1> QED
  BY <1>3, <1>6, FS_EmptySet

\* A step of the one search keeps the caches fresh.
LEMMA FreshSearchStep ==
    ASSUME OneAtATime, FInv, NEW s \in Searchers,
           \/ \E f \in Filters : SearchRead(s, f)
           \/ CacheHit(s) \/ FileHit(s) \/ Build(s) \/ BuildFails(s) \/ FileFails(s)
           \/ Reply(s)
    PROVE  (PersistFresh /\ Guarded /\ FreshWhenQuiet)'
<1> USE DEF FInv
<1>s. Searchers = {s}
  BY DEF OneAtATime
<1>t. TypeOK
  BY DEF IInv
<1>1. ASSUME NEW f \in Filters, SearchRead(s, f)
      PROVE  (PersistFresh /\ Guarded /\ FreshWhenQuiet)'
  <2>1. f = {}
    BY DEF OneAtATime
  <2>2. UNCHANGED corpus /\ Corpus({})' = Corpus({}) /\ UNCHANGED <<cache, file, ipc, irows>>
    BY <1>1, SameCorpus DEF SearchRead, runs
  <2>3. sfilter'[s] = {} /\ srows'[s] = Corpus({})
    BY <1>1, <1>t, <2>1 DEF SearchRead, TypeOK
  <2> QED
    BY <1>s, <2>2, <2>3 DEF PersistFresh, Guarded, FreshWhenQuiet, Reachable, Quiet
<1>2. ASSUME UNCHANGED <<corpus, ipc, irows>>, sfilter'[s] = {}, spc'[s] # "read"
      PROVE  Corpus({})' = Corpus({}) /\ PersistFresh' /\ Guarded' /\ Quiet' = Quiet
  BY <1>2, <1>s, SameCorpus DEF PersistFresh, Guarded, Quiet
<1>3. ASSUME CacheHit(s) \/ Reply(s) \/ FileFails(s) PROVE (PersistFresh /\ Guarded /\ FreshWhenQuiet)'
  <2>1. /\ UNCHANGED <<corpus, ipc, irows, cache, file>>
        /\ sfilter'[s] = {}
        /\ spc'[s] # "read"
    BY <1>3, <1>t DEF CacheHit, Use, Reply, FileFails, EndSearch, runs, TypeOK, Guarded
  <2> QED
    BY <2>1, <1>2 DEF FreshWhenQuiet, Reachable, Quiet
<1>4. ASSUME FileHit(s) \/ Build(s) PROVE (PersistFresh /\ Guarded /\ FreshWhenQuiet)'
  <2> DEFINE n == Cardinality(srows[s])
  <2>1. /\ UNCHANGED <<corpus, ipc, irows>>
        /\ sfilter'[s] = {}
        /\ spc'[s] # "read"
    BY <1>4, <1>t DEF FileHit, Build, Use, runs, TypeOK, Guarded
  <2>2. PersistFresh' /\ Guarded' /\ Corpus({})' = Corpus({}) /\ Quiet' = Quiet
    BY <2>1, <1>2
  <2>3. \E index :
           /\ cache' = [cache EXCEPT ![n] = index]
           /\ file' \in {file, index}
           /\ Quiet /\ Reachable(index) => index = Corpus({})
    <3>1. CASE FileHit(s)
      BY <3>1 DEF FileHit, FreshWhenQuiet, Quiet
    <3>2. CASE Build(s)
      <4>1. Quiet /\ Reachable(srows[s]) => srows[s] = Corpus({})
        BY <3>2, BuildsLiveRows DEF Reachable
      <4> QED
        BY <3>2, <4>1 DEF Build
    <3> QED
      BY <1>4, <3>1, <3>2
  <2>4. n \in Sizes
    BY RightSize
  <2>5. FreshWhenQuiet'
    <3>1. PICK index :
           /\ cache' = [cache EXCEPT ![n] = index]
           /\ file' \in {file, index}
           /\ Quiet /\ Reachable(index) => index = Corpus({})
      BY <2>3
    <3>2. \A m \in Sizes : cache'[m] \in {cache[m], index}
      BY <3>1, <1>t DEF TypeOK
    <3> QED
      BY <3>1, <3>2, <2>2 DEF FreshWhenQuiet, Reachable, Quiet
  <2> QED
    BY <2>2, <2>5
<1>5. ~BuildFails(s)
  BY DEF BuildFails, WriteFails, OneAtATime
<1> QED
  BY <1>1, <1>3, <1>4, <1>5

\* The same for the indexing run.
LEMMA FreshIndexerStep ==
    ASSUME OneAtATime, FInv, NEW i \in Indexers,
           \/ \E d \in Docs, v \in Versions : CommitIndexed(i, d, v)
           \/ PersistRead(i) \/ PersistWrite(i) \/ PersistFails(i)
    PROVE  (PersistFresh /\ Guarded /\ FreshWhenQuiet)'
<1> USE DEF FInv
<1>i. Indexers = {i}
  BY DEF OneAtATime
<1>t. TypeOK
  BY DEF IInv
<1>1. ASSUME NEW d \in Docs, NEW v \in Versions, CommitIndexed(i, d, v)
      PROVE  (PersistFresh /\ Guarded /\ FreshWhenQuiet)'
  <2>1. ipc'[i] = "committed" /\ UNCHANGED sfilter
    BY <1>1, <1>t DEF CommitIndexed, TypeOK, searches
  <2> QED
    BY <1>i, <2>1 DEF PersistFresh, Guarded, FreshWhenQuiet, Quiet
<1>2. ASSUME PersistRead(i) PROVE (PersistFresh /\ Guarded /\ FreshWhenQuiet)'
  <2>1. ipc'[i] = "read" /\ irows'[i] = Corpus({}) /\ UNCHANGED <<corpus, sfilter>>
    BY <1>2, <1>t DEF PersistRead, TypeOK, searches
  <2>2. Corpus({})' = Corpus({})
    BY <2>1, SameCorpus
  <2> QED
    BY <1>i, <2>1, <2>2 DEF PersistFresh, Guarded, FreshWhenQuiet, Quiet
<1>3. ASSUME PersistWrite(i) PROVE (PersistFresh /\ Guarded /\ FreshWhenQuiet)'
  <2>1. /\ file' = Corpus({}) /\ cache' = EmptyCache
        /\ ipc'[i] = "idle" /\ UNCHANGED <<corpus, sfilter>>
    BY <1>3, <1>t DEF PersistWrite, PersistEnd, PersistFresh, TypeOK, searches
  <2>2. Corpus({})' = Corpus({})
    BY <2>1, SameCorpus
  <2>3. \A n \in Sizes : cache'[n] = NoIndex
    BY <2>1 DEF EmptyCache
  <2> QED
    BY <1>i, <2>1, <2>2, <2>3 DEF PersistFresh, Guarded, FreshWhenQuiet, Reachable, Quiet
<1>4. ~PersistFails(i)
  BY DEF PersistFails, WriteFails, OneAtATime
<1> QED
  BY <1>1, <1>2, <1>3, <1>4

\* Every step keeps the caches fresh.
LEMMA FreshInductive == ASSUME OneAtATime, FInv, [Next]_vars PROVE FInv'
<1>1. IInv'
  BY Inductive DEF FInv
<1>2. CASE UNCHANGED vars
  BY <1>1, <1>2, SameCorpus DEF FInv, PersistFresh, Guarded, FreshWhenQuiet, Reachable, Quiet,
     vars, searches, runs
<1>3. ASSUME NEW n \in Sizes, Expire(n) PROVE FInv'
  <2>1. UNCHANGED <<corpus, file, searches, runs>> /\ Corpus({})' = Corpus({})
    BY <1>3, SameCorpus DEF Expire
  <2>2. \A m \in Sizes : cache'[m] \in {cache[m], NoIndex}
    BY <1>3 DEF Expire, FInv, IInv, TypeOK
  <2> QED
    BY <1>1, <2>1, <2>2 DEF FInv, PersistFresh, Guarded, FreshWhenQuiet, Reachable, Quiet,
       searches, runs
<1>4. ~(\E d \in Docs : Withdrawn(d)) /\ ~Restart
  BY DEF OneAtATime, Withdrawn, ArchiveDocument, RestoreDocument, DeleteDocument, MarkFailed,
     Restart, WriteFails
<1> QED
  BY <1>1, <1>2, <1>3, <1>4, FreshSearchStep, FreshIndexerStep DEF Next, FInv, Withdrawn

\* Where one search and one indexing run are under way at most, and nothing is
\* withdrawn or fails, no index a search could use is stale once persist_kb_lexical_index
\* is done.  The runs show two searches, or two indexing runs, to be too many.
THEOREM FreshnessHolds == ASSUME OneAtATime PROVE Spec => []FreshWhenQuiet
<1>1. Init => FInv
  <2> SUFFICES ASSUME Init PROVE FInv
    OBVIOUS
  <2>1. IInv
    BY InitInv
  <2>2. Guarded /\ PersistFresh
    BY DEF Init, Guarded, PersistFresh
  <2>3. FreshWhenQuiet
    BY DEF Init, EmptyCache, FreshWhenQuiet, Reachable
  <2> QED
    BY <2>1, <2>2, <2>3 DEF FInv
<1>2. FInv /\ [Next]_vars => FInv'
  BY FreshInductive
<1>3. FInv => FreshWhenQuiet
  BY DEF FInv
<1> QED
  BY <1>1, <1>2, <1>3, PTL DEF Spec

=============================================================================
