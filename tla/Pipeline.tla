------------------------------ MODULE Pipeline ------------------------------
(***************************************************************************)
(* The versions of one document, and the requests that extract, chunk and  *)
(* index them concurrently (pipeline/service.py, chunking/service.py,      *)
(* indexing/service.py).                                                   *)
(*                                                                         *)
(* The database is PostgreSQL at READ COMMITTED.  "status", "chunks" and   *)
(* "emb" hold what is committed; what a transaction has written and not    *)
(* committed is implied by the pc of the request that runs it.  A flush    *)
(* keeps row locks until commit or rollback: "lock" is the holder of the   *)
(* row of a version, "rows" the holder of its chunk and embedding rows.    *)
(* A statement that needs a row locked by another transaction waits, so    *)
(* the action is disabled.                                                 *)
(***************************************************************************)
EXTENDS Naturals, FiniteSets

CONSTANTS
    Tasks,             \* requests that may be running at once
    NoTask,            \* no holder
    MaxVersion,        \* bound: versions the document ever gets
    MaxAttempts,       \* 1 + len(retry_delays_seconds)
    DirectOps,         \* subset of {"reindex", "resume"}: service calls that bypass the pipeline
    OneJobPerVersion,  \* callers never process a version twice at once
    Faults             \* databases fail and workers die

ASSUME ConstantsAssumption ==
    /\ NoTask \notin Tasks
    /\ MaxVersion \in Nat
    /\ MaxAttempts \in Nat \ {0}
    /\ DirectOps \subseteq {"reindex", "resume"}
    /\ OneJobPerVersion \in BOOLEAN
    /\ Faults \in BOOLEAN

Versions == 1 .. MaxVersion
NoVersion == 0

\* "absent": no row.  "chunking" and "indexing" are flushed, never committed.
Statuses == {"absent", "uploaded", "extracting", "extracted", "chunked",
             "indexed", "failed", "superseded"}

\* A transaction writes all the chunks (embeddings) of a version or none.
ChunkStates == {"none", "created", "indexed", "superseded"}
EmbStates == {"none", "indexed", "stale"}

PCs == {"idle", "extract", "extracting",
        "chunk", "chunkdelete", "chunkcommit",
        "idxget", "idxlock", "idxembed", "idxwrite", "idxsiblings", "idxmark",
        "idxcommit", "idxfailed", "failed"}

VARIABLES
    status, chunks, emb,   \* committed rows of each version
    current,               \* documents.current_version_id
    deleted,               \* the document was deleted
    lock, rows,            \* row-lock holders, per version
    pc, op, ver, attempt,  \* per request: position, kind, version, try
    prior,                 \* per request: siblings read as to be superseded
    marked                 \* per request: those whose chunk rows it marked

store == <<status, chunks, emb, current, deleted>>
locks == <<lock, rows>>
request == <<op, ver, attempt>>
sweep == <<prior, marked>>
vars == <<store, locks, pc, request, sweep>>

Init ==
    /\ status = [v \in Versions |-> "absent"]
    /\ chunks = [v \in Versions |-> "none"]
    /\ emb = [v \in Versions |-> "none"]
    /\ current = NoVersion
    /\ deleted = FALSE
    /\ lock = [v \in Versions |-> NoTask]
    /\ rows = [v \in Versions |-> NoTask]
    /\ pc = [t \in Tasks |-> "idle"]
    /\ op = [t \in Tasks |-> "none"]
    /\ ver = [t \in Tasks |-> NoVersion]
    /\ attempt = [t \in Tasks |-> 0]
    /\ prior = [t \in Tasks |-> {}]
    /\ marked = [t \in Tasks |-> {}]

-----------------------------------------------------------------------------
(* Steps shared by the actions. *)

Exists(v) == status[v] # "absent"

\* The row of v can be written by t now: no other transaction holds it.
Writable(t, v) == lock[v] \in {t, NoTask}
RowsWritable(t, v) == rows[v] \in {t, NoTask}

Goto(t, p) == pc' = [pc EXCEPT ![t] = p]

\* Commit or rollback: t gives up every row lock.
Release(t) ==
    /\ lock' = [v \in Versions |-> IF lock[v] = t THEN NoTask ELSE lock[v]]
    /\ rows' = [v \in Versions |-> IF rows[v] = t THEN NoTask ELSE rows[v]]

ForgetSweep(t) ==
    /\ prior' = [prior EXCEPT ![t] = {}]
    /\ marked' = [marked EXCEPT ![t] = {}]

\* The request of t is answered.
Answer(t) ==
    /\ Goto(t, "idle")
    /\ op' = [op EXCEPT ![t] = "none"]
    /\ ver' = [ver EXCEPT ![t] = NoVersion]
    /\ attempt' = [attempt EXCEPT ![t] = 0]

SetStatus(v, s) == status' = [status EXCEPT ![v] = s]

Start(t, o, v, p) ==
    /\ pc[t] = "idle"
    /\ Goto(t, p)
    /\ op' = [op EXCEPT ![t] = o]
    /\ ver' = [ver EXCEPT ![t] = v]
    /\ attempt' = [attempt EXCEPT ![t] = 1]
    /\ UNCHANGED <<locks, sweep>>

-----------------------------------------------------------------------------
(* Documents and requests arriving.  A refused request changes nothing. *)

\* UploadDocumentVersionHandler: the new version becomes the current one.
UploadVersion(v) ==
    /\ ~deleted
    /\ ~Exists(v)
    /\ \A w \in Versions : w < v => Exists(w)
    /\ SetStatus(v, "uploaded")
    /\ current' = v
    /\ UNCHANGED <<chunks, emb, deleted, locks, pc, request, sweep>>

\* DeleteDocumentHandler: its transaction ends once no other one holds a row.
DeleteDocument ==
    /\ ~deleted
    /\ \A v \in Versions : lock[v] = NoTask /\ rows[v] = NoTask
    /\ deleted' = TRUE
    /\ current' = NoVersion
    /\ status' = [v \in Versions |-> "absent"]
    /\ chunks' = [v \in Versions |-> "none"]
    /\ emb' = [v \in Versions |-> "none"]
    /\ UNCHANGED <<locks, pc, request, sweep>>

\* process_document: where it enters the pipeline depends on the status read.
EntryPoint(s) ==
    CASE s \in {"uploaded", "failed"} -> "extract"
      [] s = "extracted"              -> "chunk"
      [] s = "chunked"                -> "idxget"

StartProcess(t) ==
    /\ current # NoVersion
    /\ status[current] \in {"uploaded", "failed", "extracted", "chunked"}
    /\ OneJobPerVersion => \A u \in Tasks : ver[u] # current
    /\ Start(t, "process", current, EntryPoint(status[current]))
    /\ UNCHANGED store

\* reindex_document_version: force re-embedding, any version, any status.
StartReindex(t, v) ==
    /\ "reindex" \in DirectOps
    /\ Exists(v)
    /\ OneJobPerVersion => \A u \in Tasks : ver[u] # v
    /\ Start(t, "reindex", v, "idxget")
    /\ UNCHANGED store

\* resume_failed_indexing: FAILED is first committed as CHUNKED.
StartResume(t, v) ==
    /\ "resume" \in DirectOps
    /\ status[v] \in {"failed", "chunked"}
    /\ status[v] = "failed" => Writable(t, v)
    /\ OneJobPerVersion => \A u \in Tasks : ver[u] # v
    /\ Start(t, "resume", v, "idxget")
    /\ SetStatus(v, "chunked")
    /\ UNCHANGED <<chunks, emb, current, deleted>>

-----------------------------------------------------------------------------
(* Extraction: two short transactions around reading the file. *)

\* Commits EXTRACTING whatever the status has become since it was loaded.
BeginExtract(t) ==
    /\ pc[t] = "extract"
    /\ Exists(ver[t])
    /\ Writable(t, ver[t])
    /\ SetStatus(ver[t], "extracting")
    /\ Goto(t, "extracting")
    /\ UNCHANGED <<chunks, emb, current, deleted, locks, request, sweep>>

\* Commits EXTRACTED, again whatever the status has become.
ExtractDone(t) ==
    /\ pc[t] = "extracting"
    /\ Exists(ver[t])
    /\ Writable(t, ver[t])
    /\ SetStatus(ver[t], "extracted")
    /\ Goto(t, "chunk")
    /\ UNCHANGED <<chunks, emb, current, deleted, locks, request, sweep>>

\* The version was deleted meanwhile: not_found, and nothing to mark.
VersionGone(t) ==
    /\ pc[t] \in {"extract", "extracting", "chunk"}
    /\ ~Exists(ver[t])
    /\ Answer(t)
    /\ UNCHANGED <<store, locks, sweep>>

\* Mutant: an exception type is missing from the except clause.
ContentFails_Unmarked(t) ==
    /\ pc[t] \in {"extracting", "chunk"}
    /\ Answer(t)
    /\ UNCHANGED <<store, locks, sweep>>

\* Unreadable file, unsupported format, no text: handled by _mark_failed.
ContentFails(t) ==
    /\ pc[t] \in {"extracting", "chunk"}
    /\ Goto(t, "failed")
    /\ UNCHANGED <<store, locks, request, sweep>>

-----------------------------------------------------------------------------
(* Chunking: one transaction that replaces the chunks of the version. *)

ChunkLock(t) ==
    /\ pc[t] = "chunk"
    /\ Exists(ver[t])
    /\ lock[ver[t]] = NoTask
    /\ lock' = [lock EXCEPT ![ver[t]] = t]
    /\ Goto(t, "chunkdelete")
    /\ UNCHANGED <<store, rows, request, sweep>>

ChunkDelete(t) ==
    /\ pc[t] = "chunkdelete"
    /\ rows[ver[t]] = NoTask
    /\ rows' = [rows EXCEPT ![ver[t]] = t]
    /\ Goto(t, "chunkcommit")
    /\ UNCHANGED <<store, lock, request, sweep>>

\* An indexer whose UPDATE of these rows waits finds them deleted, one that
\* issues it later sees the new rows: "seen" are the latter.
ChunkCommit(t) ==
    /\ pc[t] = "chunkcommit"
    /\ SetStatus(ver[t], "chunked")
    /\ chunks' = [chunks EXCEPT ![ver[t]] = "created"]
    /\ emb' = [emb EXCEPT ![ver[t]] = "none"]
    /\ Release(t)
    /\ Goto(t, "idxget")
    /\ \E seen \in SUBSET {u \in Tasks : pc[u] = "idxmark" /\ ver[t] \in prior[u]} :
         marked' = [u \in Tasks |->
                      IF u \in seen THEN marked[u] \cup {ver[t]}
                                    ELSE marked[u] \ {ver[t]}]
    /\ UNCHANGED <<current, deleted, request, prior>>

-----------------------------------------------------------------------------
(* Indexing: _run_with_retries around _index_once, one transaction each. *)

\* Mutant: one try too many.
AttemptFails_OneMore(t) ==
    /\ Release(t)
    /\ ForgetSweep(t)
    /\ \/ /\ attempt[t] <= MaxAttempts
          /\ attempt' = [attempt EXCEPT ![t] = @ + 1]
          /\ Goto(t, "idxget")
       \/ /\ attempt[t] > MaxAttempts
          /\ UNCHANGED attempt
          /\ Goto(t, "idxfailed")
    /\ UNCHANGED <<store, op, ver>>

\* Mutant: the tries are not counted.
AttemptFails_Uncounted(t) ==
    /\ Release(t)
    /\ ForgetSweep(t)
    /\ Goto(t, "idxget")
    /\ UNCHANGED <<store, request>>

\* An exception in _index_once rolls everything back; the last one is final.
AttemptFails(t) ==
    /\ Release(t)
    /\ ForgetSweep(t)
    /\ \/ /\ attempt[t] < MaxAttempts
          /\ attempt' = [attempt EXCEPT ![t] = @ + 1]
          /\ Goto(t, "idxget")
       \/ /\ attempt[t] >= MaxAttempts
          /\ UNCHANGED attempt
          /\ Goto(t, "idxfailed")
    /\ UNCHANGED <<store, op, ver>>

Indexable == {"chunked", "failed", "indexed"}

\* The status read here is not read again.
IndexGet(t) ==
    /\ pc[t] = "idxget"
    /\ status[ver[t]] \in Indexable
    /\ \/ /\ status[ver[t]] = "indexed"
          /\ op[t] # "reindex"
          /\ Answer(t)
       \/ /\ status[ver[t]] # "indexed" \/ op[t] = "reindex"
          /\ Goto(t, "idxlock")
          /\ UNCHANGED request
    /\ UNCHANGED <<store, locks, sweep>>

IndexRefused(t) ==
    /\ \/ pc[t] = "idxget" /\ status[ver[t]] \notin Indexable
       \/ pc[t] = "idxlock" /\ ~Exists(ver[t])
    /\ AttemptFails(t)

\* Mutant: INDEXING is only assigned, and nothing is flushed before the reads.
IndexLock_NoFlush(t) ==
    /\ pc[t] = "idxlock"
    /\ Exists(ver[t])
    /\ chunks[ver[t]] # "none"
    /\ Goto(t, "idxembed")
    /\ UNCHANGED <<store, locks, request, sweep>>

\* The flush of INDEXING takes the row lock.
IndexLock(t) ==
    /\ pc[t] = "idxlock"
    /\ Exists(ver[t])
    /\ chunks[ver[t]] # "none"
    /\ lock[ver[t]] = NoTask
    /\ lock' = [lock EXCEPT ![ver[t]] = t]
    /\ Goto(t, "idxembed")
    /\ UNCHANGED <<store, rows, request, sweep>>

\* No chunks: FAILED is committed, and EmptyChunkListError is not retried.
IndexEmpty(t) ==
    /\ pc[t] = "idxlock"
    /\ Exists(ver[t])
    /\ chunks[ver[t]] = "none"
    /\ lock[ver[t]] = NoTask
    /\ SetStatus(ver[t], "failed")
    /\ Goto(t, "idxfailed")
    /\ UNCHANGED <<chunks, emb, current, deleted, locks, request, sweep>>

\* find_active_match holds for every chunk: nothing to write.
AllEmbedded(t) ==
    /\ op[t] # "reindex"
    /\ emb[ver[t]] = "indexed"
    /\ chunks[ver[t]] = "indexed"

IndexEmbed(t) ==
    /\ pc[t] = "idxembed"
    /\ Goto(t, IF AllEmbedded(t) THEN "idxsiblings" ELSE "idxwrite")
    /\ UNCHANGED <<store, locks, request, sweep>>

\* The flush of the new embeddings and of the chunk states.
IndexWrite(t) ==
    /\ pc[t] = "idxwrite"
    /\ rows[ver[t]] = NoTask
    /\ rows' = [rows EXCEPT ![ver[t]] = t]
    /\ Goto(t, "idxsiblings")
    /\ UNCHANGED <<store, lock, request, sweep>>

\* Timeouts and provider errors that outlast the retries of each chunk.
EmbedFails(t) ==
    /\ pc[t] = "idxembed"
    /\ ~AllEmbedded(t)
    /\ AttemptFails(t)

\* A vector of the wrong length is not retried.
DimensionMismatch(t) ==
    /\ pc[t] = "idxembed"
    /\ ~AllEmbedded(t)
    /\ Release(t)
    /\ Goto(t, "idxfailed")
    /\ UNCHANGED <<store, request, sweep>>

\* Mutant: an INDEXED sibling is forgotten.
Siblings_ChunkedOnly(t) == {v \in Versions \ {ver[t]} : status[v] = "chunked"}

\* _supersede_prior_versions: every sibling in these states, newer ones too.
Siblings(t) == {v \in Versions \ {ver[t]} : status[v] \in {"indexed", "chunked"}}

\* Mutant: the versions are superseded, their chunks and embeddings are not.
IndexSiblings_NoMark(t) ==
    /\ pc[t] = "idxsiblings"
    /\ prior' = [prior EXCEPT ![t] = Siblings(t)]
    /\ marked' = [marked EXCEPT ![t] = {}]
    /\ Goto(t, "idxmark")
    /\ UNCHANGED <<store, locks, request>>

IndexSiblings(t) ==
    /\ pc[t] = "idxsiblings"
    /\ prior' = [prior EXCEPT ![t] = Siblings(t)]
    /\ marked' = [marked EXCEPT ![t] = {v \in Siblings(t) : chunks[v] # "none"}]
    /\ Goto(t, "idxmark")
    /\ UNCHANGED <<store, locks, request>>

\* Mutant: the prior versions are superseded in a transaction of their own.
IndexMark_OwnTransaction(t) ==
    /\ pc[t] = "idxmark"
    /\ \A v \in marked[t] : RowsWritable(t, v)
    /\ status' = [v \in Versions |-> IF v \in prior[t] THEN "superseded" ELSE status[v]]
    /\ Goto(t, "idxcommit")
    /\ UNCHANGED <<chunks, emb, current, deleted, locks, request, sweep>>

\* UPDATE chunks and UPDATE embeddings of the prior versions.
IndexMark(t) ==
    /\ pc[t] = "idxmark"
    /\ \A v \in marked[t] : RowsWritable(t, v)
    /\ rows' = [v \in Versions |-> IF v \in marked[t] THEN t ELSE rows[v]]
    /\ Goto(t, "idxcommit")
    /\ UNCHANGED <<store, lock, request, sweep>>

\* t has new embeddings of v to commit; otherwise every chunk was skipped.
HasWritten(t, v) == v = ver[t] /\ rows[v] = t

\* Flush the prior version rows, set INDEXED, commit.
IndexCommit(t) ==
    /\ pc[t] = "idxcommit"
    /\ \A v \in prior[t] : Writable(t, v)
    /\ status' = [v \in Versions |->
                    IF v = ver[t] THEN "indexed"
                    ELSE IF v \in prior[t] THEN "superseded" ELSE status[v]]
    /\ chunks' = [v \in Versions |->
                    IF HasWritten(t, v) THEN "indexed"
                    ELSE IF v \in marked[t] THEN "superseded" ELSE chunks[v]]
    /\ emb' = [v \in Versions |->
                    IF HasWritten(t, v) THEN "indexed"
                    ELSE IF v \in marked[t] /\ emb[v] = "indexed" THEN "stale" ELSE emb[v]]
    /\ Release(t)
    /\ ForgetSweep(t)
    /\ Answer(t)
    /\ UNCHANGED <<current, deleted>>

-----------------------------------------------------------------------------
(* Failure handling. *)

\* Mutant: the row is taken to exist.
MarkFailed_Unchecked(t, v) ==
    /\ Writable(t, v)
    /\ SetStatus(v, "failed")
    /\ UNCHANGED <<chunks, emb, current, deleted>>

\* The row is set to FAILED if it still exists.
MarkFailed(t, v) ==
    /\ Writable(t, v)
    /\ SetStatus(v, IF Exists(v) THEN "failed" ELSE "absent")
    /\ UNCHANGED <<chunks, emb, current, deleted>>

\* IndexingService._mark_failed overwrites any status; the pipeline's own
\* handler follows when the pipeline made the call.
IndexMarkFailed(t) ==
    /\ pc[t] = "idxfailed"
    /\ MarkFailed(t, ver[t])
    /\ \/ op[t] = "process" /\ Goto(t, "failed") /\ UNCHANGED request
       \/ op[t] # "process" /\ Answer(t)
    /\ UNCHANGED <<locks, sweep>>

\* A FAILED that is already there is kept.
PipelineMarkFailed(t) ==
    /\ pc[t] = "failed"
    /\ \/ status[ver[t]] = "failed" /\ UNCHANGED store
       \/ status[ver[t]] # "failed" /\ MarkFailed(t, ver[t])
    /\ Answer(t)
    /\ UNCHANGED <<locks, sweep>>

-----------------------------------------------------------------------------
(* The database and the process. *)

\* t waits for a row lock that u holds.
WaitsFor(t, u) ==
    /\ t # u
    /\ \/ pc[t] \in {"chunkdelete", "idxwrite"} /\ rows[ver[t]] = u
       \/ pc[t] = "idxmark" /\ \E v \in marked[t] : rows[v] = u
       \/ pc[t] = "idxcommit" /\ \E v \in prior[t] : lock[v] = u

\* t is on a cycle of waiting transactions.
InDeadlock(t) ==
    \E S \in SUBSET Tasks :
        /\ t \in S
        /\ \A x \in S : \E y, z \in S : WaitsFor(x, y) /\ WaitsFor(z, x)

\* What an exception from the database does: the indexer retries it, and no
\* handler of process_document catches it, so the request ends as it stands.
DatabaseError(t) ==
    \/ /\ pc[t] \in {"idxget", "idxlock", "idxembed", "idxwrite", "idxsiblings",
                     "idxmark", "idxcommit"}
       /\ AttemptFails(t)
    \/ /\ pc[t] \in {"extract", "extracting", "chunk", "chunkdelete", "chunkcommit",
                     "idxfailed", "failed"}
       /\ Release(t)
       /\ Answer(t)
       /\ UNCHANGED <<store, sweep>>

\* PostgreSQL aborts one transaction of a deadlock.
DeadlockVictim(t) ==
    /\ InDeadlock(t)
    /\ DatabaseError(t)

DatabaseFails(t) ==
    /\ Faults
    /\ DatabaseError(t)

\* The worker dies: the database rolls back, nothing of the request is left.
WorkerDies(t) ==
    /\ Faults
    /\ pc[t] # "idle"
    /\ Release(t)
    /\ ForgetSweep(t)
    /\ Answer(t)
    /\ UNCHANGED store

-----------------------------------------------------------------------------
Arrival(t) ==
    \/ StartProcess(t)
    \/ \E v \in Versions : StartReindex(t, v) \/ StartResume(t, v)

\* What the code does next for a request it has accepted.
Progress(t) ==
    \/ BeginExtract(t) \/ ExtractDone(t) \/ VersionGone(t) \/ ContentFails(t)
    \/ ChunkLock(t) \/ ChunkDelete(t) \/ ChunkCommit(t)
    \/ IndexGet(t) \/ IndexRefused(t) \/ IndexLock(t) \/ IndexEmpty(t)
    \/ IndexEmbed(t) \/ IndexWrite(t) \/ EmbedFails(t) \/ DimensionMismatch(t)
    \/ IndexSiblings(t) \/ IndexMark(t) \/ IndexCommit(t)
    \/ IndexMarkFailed(t) \/ PipelineMarkFailed(t)
    \/ DeadlockVictim(t)

Next ==
    \/ \E v \in Versions : UploadVersion(v)
    \/ DeleteDocument
    \/ \E t \in Tasks : Arrival(t) \/ Progress(t) \/ DatabaseFails(t) \/ WorkerDies(t)

Spec == Init /\ [][Next]_vars

\* The event loop runs every coroutine that can go on, PostgreSQL grants a row
\* lock to its waiters in order, so none is passed over for ever, and it ends
\* every deadlock.
Fairness == \A t \in Tasks : SF_vars(Progress(t))
FairSpec == Spec /\ Fairness

-----------------------------------------------------------------------------
\* The type invariant.
TypeOK ==
    /\ status \in [Versions -> Statuses]
    /\ chunks \in [Versions -> ChunkStates]
    /\ emb \in [Versions -> EmbStates]
    /\ current \in Versions \cup {NoVersion}
    /\ deleted \in BOOLEAN
    /\ lock \in [Versions -> Tasks \cup {NoTask}]
    /\ rows \in [Versions -> Tasks \cup {NoTask}]
    /\ pc \in [Tasks -> PCs]
    /\ op \in [Tasks -> {"none", "process", "reindex", "resume"}]
    /\ ver \in [Tasks -> Versions \cup {NoVersion}]
    /\ attempt \in [Tasks -> 0 .. MaxAttempts]
    /\ prior \in [Tasks -> SUBSET Versions]
    /\ marked \in [Tasks -> SUBSET Versions]

\* A version is INDEXED only while all its chunks and embeddings are: no
\* interleaving of chunking, superseding, deleting and indexing, no retry and no
\* lost worker leaves a version that search would serve in part
\* (indexing/service.py:_index_once, specs/004-embeddings/SPEC.md AC-03).
IndexedComplete ==
    \A v \in Versions : status[v] = "indexed" => chunks[v] = "indexed" /\ emb[v] = "indexed"

\* Why IndexedComplete holds.  From the flush of INDEXING (CHUNKING) to its end
\* a transaction holds the row of its version, and whoever commits a change to
\* chunks or embeddings of a version must be able to write that row.  So the
\* embeddings a run has found complete, and does not write, are still complete
\* when it commits.
InTransaction == {"chunkdelete", "chunkcommit", "idxembed", "idxwrite", "idxsiblings",
                  "idxmark", "idxcommit"}

RowOrder ==
    \A t \in Tasks :
        /\ pc[t] # "idle" => ver[t] \in Versions
        /\ pc[t] \in InTransaction => lock[ver[t]] = t /\ Exists(ver[t])
        /\ pc[t] \notin {"idxmark", "idxcommit"} => prior[t] = {} /\ marked[t] = {}
        /\ marked[t] \subseteq prior[t]
        /\ ver[t] \notin prior[t]
        /\ pc[t] \in {"idxsiblings", "idxmark", "idxcommit"} =>
              \/ rows[ver[t]] = t
              \/ chunks[ver[t]] = "indexed" /\ emb[ver[t]] = "indexed"

\* Whatever was in flight when the document was deleted leaves nothing behind:
\* no late status, chunk or embedding of a deleted document.
DeletedStaysEmpty ==
    deleted => \A v \in Versions : status[v] = "absent" /\ chunks[v] = "none" /\ emb[v] = "none"

\* A version leaves INDEXED only because it was deleted, because another
\* version is INDEXED in the same commit, or because of a request for that very
\* version: processing a new version that fails never takes the old one out of
\* search.
IndexedLeavesByOwnWork ==
    [][\A v \in Versions :
          status[v] = "indexed" /\ status'[v] # "indexed" =>
            \/ deleted'
            \/ status'[v] = "superseded" /\ \E w \in Versions \ {v} : status'[w] = "indexed"
            \/ \E t \in Tasks : ver[t] = v /\ pc[t] # "idle"]_vars

\* While nothing dies, a version is EXTRACTING only as long as some request is
\* extracting it or about to mark it FAILED, so it can always be processed again
\* (process_document refuses EXTRACTING).
ExtractingIsWorkedOn ==
    \A v \in Versions : status[v] = "extracting" =>
        \E t \in Tasks : ver[t] = v /\ pc[t] \in {"extracting", "failed"}

\* Every request is answered: retries end and every deadlock between indexers
\* and chunkers that lock each other's rows is resolved.
EveryRequestAnswered == \A t \in Tasks : pc[t] # "idle" ~> pc[t] = "idle"

\* A superseded version keeps no active embedding
\* (specs/004-embeddings/SPEC.md AC-04).
SupersededInert ==
    \A v \in Versions : status[v] = "superseded" => chunks[v] # "indexed" /\ emb[v] # "indexed"

\* What search can return (indexing/repositories/embedding.py:_filtered_join).
Searchable(v) == status[v] = "indexed" /\ chunks[v] = "indexed" /\ emb[v] = "indexed"

Index == INSTANCE DocIndex WITH
            served <- {v \in Versions : Searchable(v)}, removed <- deleted

\* Requests handled one after the other keep the promise of DocIndex, also when
\* databases fail and workers die in the middle.
ImplementsDocIndex == Index!Spec

-----------------------------------------------------------------------------
(* What the documentation says, and concurrent requests break. *)

\* "indexed -> superseded: Newer version indexed"
\* (specs/004-embeddings/SPEC.md:266).
SupersededByNewer ==
    [][\A v \in Versions :
          status[v] # "superseded" /\ status'[v] = "superseded" =>
            \E w \in Versions : w > v /\ status'[w] = "indexed"]_vars

\* "only B's chunks appear; A's chunks are never returned"
\* (specs/005-retrieval/SPEC.md:373): two versions are never searchable at once.
OneSearchableVersion ==
    \A v, w \in Versions : Searchable(v) /\ Searchable(w) => v = w

\* "status transitions only along approved lifecycle"
\* (specs/001-knowledge-management/DATABASE.md:128): INDEXED only becomes SUPERSEDED.
IndexedOnlySuperseded ==
    [][\A v \in Versions :
          status[v] = "indexed" => status'[v] \in {"indexed", "superseded", "absent"}]_vars
=============================================================================
