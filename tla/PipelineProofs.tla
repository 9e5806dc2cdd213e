--------------------------- MODULE PipelineProofs ---------------------------
(***************************************************************************)
(* For any number of versions, requests and retries: the variables of      *)
(* Pipeline keep their types, and an INDEXED version is complete.          *)
(***************************************************************************)
EXTENDS Pipeline, TLAPS

\* An answered request leaves a well-typed request record.
LEMMA AnswerType ==
    ASSUME TypeOK, NEW t \in Tasks, Answer(t)
    PROVE  /\ pc' \in [Tasks -> PCs]
           /\ op' \in [Tasks -> {"none", "process", "reindex", "resume"}]
           /\ ver' \in [Tasks -> Versions \cup {NoVersion}]
           /\ attempt' \in [Tasks -> 0 .. MaxAttempts]
BY ConstantsAssumption DEF ConstantsAssumption, TypeOK, Answer, Goto, PCs

\* A step of Next, by the action that takes it.
LEMMA StepTypeOK ==
    ASSUME TypeOK, [Next]_vars
    PROVE  TypeOK'
<1> USE ConstantsAssumption DEF ConstantsAssumption
<1> USE DEF Versions, NoVersion, Statuses, ChunkStates, EmbStates, PCs
<1>1. ASSUME NEW v \in Versions, UploadVersion(v) PROVE TypeOK'
  BY <1>1 DEF TypeOK, UploadVersion, SetStatus, locks, request, sweep
<1>2. CASE DeleteDocument
  BY <1>2 DEF TypeOK, DeleteDocument, locks, request, sweep
<1>3. ASSUME NEW t \in Tasks, StartProcess(t) PROVE TypeOK'
  BY <1>3 DEF TypeOK, StartProcess, Start, Goto, EntryPoint, store, locks, sweep
<1>4. ASSUME NEW t \in Tasks, NEW v \in Versions, StartReindex(t, v) PROVE TypeOK'
  BY <1>4 DEF TypeOK, StartReindex, Start, Goto, store, locks, sweep
<1>5. ASSUME NEW t \in Tasks, NEW v \in Versions, StartResume(t, v) PROVE TypeOK'
  BY <1>5 DEF TypeOK, StartResume, Start, Goto, SetStatus, locks, sweep
<1>6. ASSUME NEW t \in Tasks, AttemptFails(t) PROVE TypeOK'
  <2>1. attempt' \in [Tasks -> 0 .. MaxAttempts]
    <3>1. CASE attempt[t] < MaxAttempts /\ attempt' = [attempt EXCEPT ![t] = @ + 1]
      <4>1. attempt[t] + 1 \in 0 .. MaxAttempts
        BY <3>1 DEF TypeOK
      <4> QED
        BY <3>1, <4>1 DEF TypeOK
    <3>2. CASE UNCHANGED attempt
      BY <3>2 DEF TypeOK
    <3> QED
      BY <1>6, <3>1, <3>2 DEF AttemptFails
  <2>2. pc' \in [Tasks -> PCs]
    BY <1>6 DEF TypeOK, AttemptFails, Goto
  <2>3. lock' \in [Versions -> Tasks \cup {NoTask}] /\ rows' \in [Versions -> Tasks \cup {NoTask}]
    BY <1>6 DEF TypeOK, AttemptFails, Release
  <2>4. prior' \in [Tasks -> SUBSET Versions] /\ marked' \in [Tasks -> SUBSET Versions]
    BY <1>6 DEF TypeOK, AttemptFails, ForgetSweep
  <2> QED
    BY <1>6, <2>1, <2>2, <2>3, <2>4 DEF TypeOK, AttemptFails, store
<1>7. ASSUME NEW t \in Tasks, ChunkCommit(t) PROVE TypeOK'
  <2>1. marked' \in [Tasks -> SUBSET Versions]
    <3>1. PICK seen \in SUBSET {u \in Tasks : pc[u] = "idxmark" /\ ver[t] \in prior[u]} :
            marked' = [u \in Tasks |-> IF u \in seen THEN marked[u] \cup {ver[t]}
                                                   ELSE marked[u] \ {ver[t]}]
      BY <1>7 DEF ChunkCommit
    <3> QED
      BY <3>1 DEF TypeOK
  <2>2. lock' \in [Versions -> Tasks \cup {NoTask}] /\ rows' \in [Versions -> Tasks \cup {NoTask}]
    BY <1>7 DEF TypeOK, ChunkCommit, Release
  <2>3. /\ status' \in [Versions -> Statuses]
        /\ chunks' \in [Versions -> ChunkStates]
        /\ emb' \in [Versions -> EmbStates]
        /\ pc' \in [Tasks -> PCs]
    BY <1>7 DEF TypeOK, ChunkCommit, SetStatus, Goto
  <2> QED
    BY <1>7, <2>1, <2>2, <2>3 DEF TypeOK, ChunkCommit, request
<1>8. ASSUME NEW t \in Tasks, IndexCommit(t) PROVE TypeOK'
  BY <1>8 DEF TypeOK, IndexCommit, HasWritten, Release, ForgetSweep, Answer, Goto
<1>9. ASSUME NEW t \in Tasks, DatabaseError(t) PROVE TypeOK'
  <2>1. CASE AttemptFails(t)
    BY <1>6, <2>1
  <2>2. CASE Release(t) /\ Answer(t) /\ UNCHANGED <<store, sweep>>
    BY <2>2 DEF TypeOK, Release, Answer, Goto, store, sweep
  <2> QED
    BY <1>9, <2>1, <2>2 DEF DatabaseError
<1>10. ASSUME NEW t \in Tasks, WorkerDies(t) PROVE TypeOK'
  BY <1>10 DEF TypeOK, WorkerDies, Release, ForgetSweep, Answer, Goto, store
<1>11. ASSUME NEW t \in Tasks, Progress(t) PROVE TypeOK'
  <2>1. CASE BeginExtract(t)
    BY <2>1 DEF TypeOK, BeginExtract, SetStatus, Goto, locks, request, sweep
  <2>2. CASE ExtractDone(t)
    BY <2>2 DEF TypeOK, ExtractDone, SetStatus, Goto, locks, request, sweep
  <2>3. CASE VersionGone(t)
    BY <2>3 DEF TypeOK, VersionGone, Answer, Goto, store, locks, sweep
  <2>4. CASE ContentFails(t)
    BY <2>4 DEF TypeOK, ContentFails, Goto, store, locks, request, sweep
  <2>5. CASE ChunkLock(t)
    BY <2>5 DEF TypeOK, ChunkLock, Goto, store, request, sweep
  <2>6. CASE ChunkDelete(t)
    BY <2>6 DEF TypeOK, ChunkDelete, Goto, store, request, sweep
  <2>7. CASE IndexGet(t)
    <3>1. CASE Answer(t)
      BY <2>7, <3>1, AnswerType DEF TypeOK, IndexGet, store, locks, sweep
    <3>2. CASE Goto(t, "idxlock") /\ UNCHANGED request
      BY <2>7, <3>2 DEF TypeOK, IndexGet, Goto, store, locks, request, sweep
    <3> QED
      BY <2>7, <3>1, <3>2 DEF IndexGet
  <2>8. CASE IndexRefused(t) \/ EmbedFails(t)
    BY <1>6, <2>8 DEF IndexRefused, EmbedFails
  <2>9. CASE IndexLock(t)
    BY <2>9 DEF TypeOK, IndexLock, Goto, store, request, sweep
  <2>10. CASE IndexEmpty(t)
    BY <2>10 DEF TypeOK, IndexEmpty, SetStatus, Goto, locks, request, sweep
  <2>11. CASE IndexEmbed(t)
    BY <2>11 DEF TypeOK, IndexEmbed, Goto, store, locks, request, sweep
  <2>12. CASE IndexWrite(t)
    BY <2>12 DEF TypeOK, IndexWrite, Goto, store, request, sweep
  <2>13. CASE DimensionMismatch(t)
    BY <2>13 DEF TypeOK, DimensionMismatch, Release, Goto, store, request, sweep
  <2>14. CASE IndexSiblings(t)
    BY <2>14 DEF TypeOK, IndexSiblings, Siblings, Goto, store, locks, request
  <2>15. CASE IndexMark(t)
    BY <2>15 DEF TypeOK, IndexMark, Goto, store, request, sweep
  <2>16. CASE IndexMarkFailed(t)
    <3>1. CASE Answer(t)
      BY <2>16, <3>1, AnswerType
      DEF TypeOK, IndexMarkFailed, MarkFailed, SetStatus, locks, sweep
    <3>2. CASE Goto(t, "failed") /\ UNCHANGED request
      BY <2>16, <3>2
      DEF TypeOK, IndexMarkFailed, MarkFailed, SetStatus, Goto, locks, request, sweep
    <3> QED
      BY <2>16, <3>1, <3>2 DEF IndexMarkFailed
  <2>17. CASE PipelineMarkFailed(t)
    <3>1. CASE UNCHANGED store
      BY <2>17, <3>1, AnswerType DEF TypeOK, PipelineMarkFailed, store, locks, sweep
    <3>2. CASE MarkFailed(t, ver[t])
      BY <2>17, <3>2, AnswerType
      DEF TypeOK, PipelineMarkFailed, MarkFailed, SetStatus, locks, sweep
    <3> QED
      BY <2>17, <3>1, <3>2 DEF PipelineMarkFailed
  <2>18. CASE DeadlockVictim(t)
    BY <1>9, <2>18 DEF DeadlockVictim
  <2> QED
    BY <1>7, <1>8, <1>11, <2>1, <2>2, <2>3, <2>4, <2>5, <2>6, <2>7, <2>8, <2>9, <2>10,
       <2>11, <2>12, <2>13, <2>14, <2>15, <2>16, <2>17, <2>18
    DEF Progress
<1> QED
  BY <1>1, <1>2, <1>3, <1>4, <1>5, <1>9, <1>10, <1>11
  DEF Next, Arrival, DatabaseFails, TypeOK, vars, store, locks, request, sweep

LEMMA InitTypeOK == Init => TypeOK
<1>1. 0 \in 0 .. MaxAttempts
  BY ConstantsAssumption DEF ConstantsAssumption
<1>2. {} \in SUBSET Versions
  OBVIOUS
<1>3. ASSUME Init
      PROVE  /\ status \in [Versions -> Statuses]
             /\ chunks \in [Versions -> ChunkStates]
             /\ emb \in [Versions -> EmbStates]
             /\ current \in Versions \cup {NoVersion}
             /\ deleted \in BOOLEAN
  BY <1>3 DEF Init, Statuses, ChunkStates, EmbStates
<1>4. ASSUME Init
      PROVE  /\ lock \in [Versions -> Tasks \cup {NoTask}]
             /\ rows \in [Versions -> Tasks \cup {NoTask}]
  BY <1>4 DEF Init
<1>5. ASSUME Init
      PROVE  /\ pc \in [Tasks -> PCs]
             /\ op \in [Tasks -> {"none", "process", "reindex", "resume"}]
             /\ ver \in [Tasks -> Versions \cup {NoVersion}]
             /\ attempt \in [Tasks -> 0 .. MaxAttempts]
  BY <1>1, <1>5 DEF Init, PCs
<1>6. ASSUME Init
      PROVE  prior \in [Tasks -> SUBSET Versions] /\ marked \in [Tasks -> SUBSET Versions]
  BY <1>2, <1>6 DEF Init
<1> QED
  BY <1>3, <1>4, <1>5, <1>6 DEF TypeOK

\* The variables of Pipeline always hold values of their types.
THEOREM TypeCorrect == Spec => []TypeOK
<1>1. TypeOK /\ [Next]_vars => TypeOK'
  BY StepTypeOK
<1> QED
  BY <1>1, InitTypeOK, PTL DEF Spec

-----------------------------------------------------------------------------
\* The row order survives every step: a transaction meets the row of its version
\* locked by itself, hence nobody else replaces, supersedes or deletes what it
\* has found complete.
LEMMA StepRowOrder ==
    ASSUME TypeOK, RowOrder, [Next]_vars
    PROVE  RowOrder'
<1> USE ConstantsAssumption DEF ConstantsAssumption, NoVersion, InTransaction, Exists
<1>1. ASSUME NEW v \in Versions, UploadVersion(v) PROVE RowOrder'
  BY <1>1 DEF TypeOK, RowOrder, UploadVersion, SetStatus, locks, request, sweep
<1>2. CASE DeleteDocument
  BY <1>2 DEF TypeOK, RowOrder, DeleteDocument, locks, request, sweep
<1>3. ASSUME NEW t \in Tasks, StartProcess(t) PROVE RowOrder'
  BY <1>3 DEF TypeOK, RowOrder, StartProcess, Start, Goto, EntryPoint, store, locks, sweep
<1>4. ASSUME NEW t \in Tasks, NEW v \in Versions, StartReindex(t, v) PROVE RowOrder'
  BY <1>4 DEF TypeOK, RowOrder, StartReindex, Start, Goto, store, locks, sweep
<1>5. ASSUME NEW t \in Tasks, NEW v \in Versions, StartResume(t, v) PROVE RowOrder'
  BY <1>5 DEF TypeOK, RowOrder, StartResume, Start, Goto, SetStatus, locks, sweep
<1>6. ASSUME NEW t \in Tasks, AttemptFails(t), pc[t] # "idle" PROVE RowOrder'
  BY <1>6 DEF TypeOK, RowOrder, AttemptFails, Release, ForgetSweep, Goto, store
<1>7. ASSUME NEW t \in Tasks, ChunkCommit(t) PROVE RowOrder'
  BY <1>7 DEF TypeOK, RowOrder, ChunkCommit, SetStatus, Release, Goto, request
<1>8. ASSUME NEW t \in Tasks, IndexCommit(t) PROVE RowOrder'
  BY <1>8 DEF TypeOK, RowOrder, IndexCommit, HasWritten, Release, ForgetSweep, Answer, Goto,
              Writable
<1>9. ASSUME NEW t \in Tasks, DatabaseError(t) PROVE RowOrder'
  <2>1. CASE AttemptFails(t) /\ pc[t] # "idle"
    BY <1>6, <2>1
  <2>2. CASE /\ Release(t) /\ Answer(t) /\ UNCHANGED <<store, sweep>>
             /\ pc[t] \notin {"idxmark", "idxcommit"}
    BY <2>2 DEF TypeOK, RowOrder, Release, Answer, Goto, store, sweep
  <2> QED
    BY <1>9, <2>1, <2>2 DEF DatabaseError
<1>10. ASSUME NEW t \in Tasks, WorkerDies(t) PROVE RowOrder'
  BY <1>10 DEF TypeOK, RowOrder, WorkerDies, Release, ForgetSweep, Answer, Goto, store
<1>11. ASSUME NEW t \in Tasks, Progress(t) PROVE RowOrder'
  <2>1. CASE BeginExtract(t)
    BY <2>1 DEF TypeOK, RowOrder, BeginExtract, SetStatus, Goto, locks, request, sweep
  <2>2. CASE ExtractDone(t)
    BY <2>2 DEF TypeOK, RowOrder, ExtractDone, SetStatus, Goto, locks, request, sweep
  <2>3. CASE VersionGone(t)
    BY <2>3 DEF TypeOK, RowOrder, VersionGone, Answer, Goto, store, locks, sweep
  <2>4. CASE ContentFails(t)
    BY <2>4 DEF TypeOK, RowOrder, ContentFails, Goto, store, locks, request, sweep
  <2>5. CASE ChunkLock(t)
    BY <2>5 DEF TypeOK, RowOrder, ChunkLock, Goto, store, request, sweep
  <2>6. CASE ChunkDelete(t)
    BY <2>6 DEF TypeOK, RowOrder, ChunkDelete, Goto, store, request, sweep
  <2>7. CASE IndexGet(t)
    BY <2>7 DEF TypeOK, RowOrder, IndexGet, Answer, Goto, store, locks, request, sweep
  <2>8. CASE IndexRefused(t) \/ EmbedFails(t)
    BY <1>6, <2>8 DEF IndexRefused, EmbedFails
  <2>9. CASE IndexLock(t)
    BY <2>9 DEF TypeOK, RowOrder, IndexLock, Goto, store, request, sweep
  <2>10. CASE IndexEmpty(t)
    BY <2>10 DEF TypeOK, RowOrder, IndexEmpty, SetStatus, Goto, locks, request, sweep
  <2>11. CASE IndexEmbed(t)
    BY <2>11 DEF TypeOK, RowOrder, IndexEmbed, AllEmbedded, Goto, store, locks, request, sweep
  <2>12. CASE IndexWrite(t)
    BY <2>12 DEF TypeOK, RowOrder, IndexWrite, Goto, store, request, sweep
  <2>13. CASE DimensionMismatch(t)
    BY <2>13 DEF TypeOK, RowOrder, DimensionMismatch, Release, Goto, store, request, sweep
  <2>14. CASE IndexSiblings(t)
    BY <2>14 DEF TypeOK, RowOrder, IndexSiblings, Siblings, Goto, store, locks, request
  <2>15. CASE IndexMark(t)
    BY <2>15 DEF TypeOK, RowOrder, IndexMark, RowsWritable, Goto, store, request, sweep
  <2>16. CASE IndexMarkFailed(t)
    BY <2>16 DEF TypeOK, RowOrder, IndexMarkFailed, MarkFailed, SetStatus, Answer, Goto,
                 locks, request, sweep
  <2>17. CASE PipelineMarkFailed(t)
    BY <2>17 DEF TypeOK, RowOrder, PipelineMarkFailed, MarkFailed, SetStatus, Answer, Goto,
                 store, locks, sweep
  <2>18. CASE DeadlockVictim(t)
    BY <1>9, <2>18 DEF DeadlockVictim
  <2> QED
    BY <1>7, <1>8, <1>11, <2>1, <2>2, <2>3, <2>4, <2>5, <2>6, <2>7, <2>8, <2>9, <2>10,
       <2>11, <2>12, <2>13, <2>14, <2>15, <2>16, <2>17, <2>18
    DEF Progress
<1> QED
  BY <1>1, <1>2, <1>3, <1>4, <1>5, <1>9, <1>10, <1>11
  DEF Next, Arrival, DatabaseFails, RowOrder, vars, store, locks, request, sweep
-----------------------------------------------------------------------------
\* IndexCommit is the one step that can break completeness: the version it
\* makes INDEXED is complete by RowOrder, and the chunks it marks belong to
\* versions it supersedes.
LEMMA StepIndexedComplete ==
    ASSUME TypeOK, RowOrder, IndexedComplete, [Next]_vars
    PROVE  IndexedComplete'
<1> USE DEF Versions
<1>1. ASSUME NEW t \in Tasks, IndexCommit(t) PROVE IndexedComplete'
  <2> SUFFICES ASSUME NEW v \in Versions, status'[v] = "indexed"
               PROVE  chunks'[v] = "indexed" /\ emb'[v] = "indexed"
    BY DEF IndexedComplete
  <2>1. pc[t] = "idxcommit" /\ marked[t] \subseteq prior[t] /\ ver[t] \notin prior[t]
    BY <1>1 DEF RowOrder, IndexCommit
  <2>2. v \notin marked[t]
    BY <1>1, <2>1 DEF IndexCommit
  <2>3. CASE v = ver[t]
    BY <1>1, <2>1, <2>2, <2>3 DEF RowOrder, IndexCommit, HasWritten
  <2>4. CASE v # ver[t]
    BY <1>1, <2>1, <2>2, <2>4 DEF IndexedComplete, IndexCommit, HasWritten
  <2> QED
    BY <2>3, <2>4
<1>2. ASSUME NEW t \in Tasks, ChunkCommit(t) PROVE IndexedComplete'
  BY <1>2 DEF TypeOK, IndexedComplete, ChunkCommit, SetStatus
<1>3. CASE DeleteDocument
  BY <1>3 DEF IndexedComplete, DeleteDocument
<1>4. ASSUME UNCHANGED <<chunks, emb>>,
             \/ UNCHANGED status
             \/ \E v \in Versions, s \in {"absent", "uploaded", "extracting", "extracted",
                                         "chunked", "failed"} : SetStatus(v, s)
      PROVE  IndexedComplete'
  BY <1>4 DEF TypeOK, IndexedComplete, SetStatus
<1>5. ASSUME NEW v \in Versions, UploadVersion(v) PROVE IndexedComplete'
  BY <1>4, <1>5 DEF UploadVersion
<1>6. ASSUME NEW t \in Tasks, Arrival(t) PROVE IndexedComplete'
  BY <1>4, <1>6 DEF Arrival, StartProcess, StartReindex, StartResume, store
<1>7. ASSUME NEW t \in Tasks, AttemptFails(t) \/ DatabaseError(t) \/ WorkerDies(t)
      PROVE  IndexedComplete'
  BY <1>4, <1>7 DEF AttemptFails, DatabaseError, WorkerDies, store
<1>8. ASSUME NEW t \in Tasks, Progress(t) PROVE IndexedComplete'
  <2>1. CASE pc[t] = "idle"
    BY <1>7, <1>8, <2>1
    DEF Progress, BeginExtract, ExtractDone, VersionGone, ContentFails, ChunkLock, ChunkDelete,
        ChunkCommit, IndexGet, IndexRefused, IndexLock, IndexEmpty, IndexEmbed, IndexWrite,
        EmbedFails, DimensionMismatch, IndexSiblings, IndexMark, IndexCommit, IndexMarkFailed,
        PipelineMarkFailed, DeadlockVictim
  <2>2. CASE pc[t] # "idle"
    <3>1. ver[t] \in Versions
      BY <2>2 DEF RowOrder
    <3>2. CASE BeginExtract(t) \/ ExtractDone(t) \/ IndexEmpty(t)
      BY <1>4, <3>1, <3>2 DEF BeginExtract, ExtractDone, IndexEmpty
    <3>3. CASE IndexMarkFailed(t) \/ PipelineMarkFailed(t)
      BY <1>4, <3>1, <3>3 DEF IndexMarkFailed, PipelineMarkFailed, MarkFailed, store
    <3>4. CASE IndexRefused(t) \/ EmbedFails(t) \/ DeadlockVictim(t)
      BY <1>7, <3>4 DEF IndexRefused, EmbedFails, DeadlockVictim
    <3>5. CASE UNCHANGED store
      BY <1>4, <3>5 DEF store
    <3> QED
      BY <1>1, <1>2, <1>8, <3>2, <3>3, <3>4, <3>5
      DEF Progress, VersionGone, ContentFails, ChunkLock, ChunkDelete, IndexGet, IndexLock,
          IndexEmbed, IndexWrite, DimensionMismatch, IndexSiblings, IndexMark
  <2> QED
    BY <2>1, <2>2
<1> QED
  BY <1>3, <1>4, <1>5, <1>6, <1>7, <1>8 DEF Next, DatabaseFails, vars, store

\* The inductive invariant.
IInv == TypeOK /\ RowOrder /\ IndexedComplete

LEMMA InitIInv == Init => IInv
<1>1. Init => TypeOK
  BY InitTypeOK
<1>2. Init => RowOrder
  BY DEF Init, RowOrder, NoVersion, InTransaction
<1>3. Init => IndexedComplete
  BY DEF Init, IndexedComplete
<1> QED
  BY <1>1, <1>2, <1>3 DEF IInv

LEMMA StepIInv == IInv /\ [Next]_vars => IInv'
BY StepTypeOK, StepRowOrder, StepIndexedComplete DEF IInv

LEMMA Inductive == Spec => []IInv
BY InitIInv, StepIInv, PTL DEF Spec

\* The reason completeness holds: transactions on a version exclude each other
\* from its flush to its end.
THEOREM RowOrderHolds == Spec => []RowOrder
<1>1. IInv => RowOrder
  BY DEF IInv
<1> QED
  BY <1>1, Inductive, PTL

\* No interleaving of requests, failures and deletions makes a version INDEXED
\* whose chunks or embeddings are not.
THEOREM NeverIndexedInPart == Spec => []IndexedComplete
<1>1. IInv => IndexedComplete
  BY DEF IInv
<1> QED
  BY <1>1, Inductive, PTL
-----------------------------------------------------------------------------
\* After the deletion no transaction is running, and every later write first
\* finds the row missing.
LEMMA StepDeletedStaysEmpty ==
    ASSUME TypeOK, RowOrder, DeletedStaysEmpty, [Next]_vars
    PROVE  DeletedStaysEmpty'
<1> USE DEF DeletedStaysEmpty
<1>1. CASE DeleteDocument
  BY <1>1 DEF DeleteDocument
<1>2. ~DeleteDocument => UNCHANGED deleted
  <2>1. ASSUME NEW t \in Tasks, DatabaseError(t) \/ WorkerDies(t) \/ AttemptFails(t) \/ Arrival(t)
        PROVE  UNCHANGED deleted
    BY <2>1 DEF DatabaseError, WorkerDies, AttemptFails, Arrival, StartProcess, StartReindex,
                StartResume, store
  <2>2. ASSUME NEW t \in Tasks, Progress(t) PROVE UNCHANGED deleted
    BY <2>1, <2>2
    DEF Progress, BeginExtract, ExtractDone, VersionGone, ContentFails, ChunkLock, ChunkDelete,
        ChunkCommit, IndexGet, IndexRefused, IndexLock, IndexEmpty, IndexEmbed, IndexWrite,
        EmbedFails, DimensionMismatch, IndexSiblings, IndexMark, IndexCommit, IndexMarkFailed,
        PipelineMarkFailed, MarkFailed, DeadlockVictim, store
  <2> QED
    BY <2>1, <2>2 DEF Next, UploadVersion, DatabaseFails, vars, store
<1>3. CASE deleted /\ ~DeleteDocument
  <2>1. \A v \in Versions : ~Exists(v)
    BY <1>3 DEF Exists
  <2>2. \A t \in Tasks : pc[t] \notin InTransaction
    BY <2>1 DEF RowOrder, InTransaction
  <2>3. ASSUME NEW t \in Tasks, IndexMarkFailed(t) \/ PipelineMarkFailed(t)
        PROVE  UNCHANGED <<status, chunks, emb>>
    <3>1. ver[t] \in Versions
      BY <2>3 DEF RowOrder, IndexMarkFailed, PipelineMarkFailed
    <3>2. CASE UNCHANGED store
      BY <3>2 DEF store
    <3>3. CASE MarkFailed(t, ver[t])
      BY <1>3, <2>1, <3>1, <3>3 DEF TypeOK, MarkFailed, SetStatus, Exists
    <3> QED
      BY <2>3, <3>2, <3>3 DEF IndexMarkFailed, PipelineMarkFailed
  <2>4. ASSUME NEW t \in Tasks, DatabaseError(t) \/ WorkerDies(t) \/ AttemptFails(t)
        PROVE  UNCHANGED <<status, chunks, emb>>
    BY <2>4 DEF DatabaseError, WorkerDies, AttemptFails, store
  <2>5. ASSUME NEW t \in Tasks, Arrival(t) PROVE UNCHANGED <<status, chunks, emb>>
    BY <1>3, <2>1, <2>5 DEF TypeOK, Arrival, StartProcess, StartReindex, StartResume, store, Exists,
                            NoVersion
  <2>6. ASSUME NEW t \in Tasks, Progress(t) PROVE UNCHANGED <<status, chunks, emb>>
    <3>1. pc[t] \notin InTransaction
      BY <2>2
    <3>2. pc[t] # "idle" => ~Exists(ver[t])
      BY <2>1 DEF RowOrder
    <3>3. CASE DeadlockVictim(t) \/ IndexRefused(t) \/ EmbedFails(t)
      BY <2>4, <3>3 DEF DeadlockVictim, IndexRefused, EmbedFails
    <3> QED
      BY <2>3, <2>6, <3>1, <3>2, <3>3
      DEF Progress, BeginExtract, ExtractDone, VersionGone, ContentFails, ChunkLock, ChunkDelete,
          ChunkCommit, IndexGet, IndexLock, IndexEmpty, IndexEmbed, IndexWrite,
          DimensionMismatch, IndexSiblings, IndexMark, IndexCommit, InTransaction, store
  <2> QED
    BY <1>3, <2>4, <2>5, <2>6 DEF Next, UploadVersion, DatabaseFails, vars, store
<1> QED
  BY <1>1, <1>2, <1>3

\* A deleted document leaves nothing behind, whatever was in flight.
THEOREM DeletedLeavesNothing == Spec => []DeletedStaysEmpty
<1>1. Init => DeletedStaysEmpty
  BY DEF Init, DeletedStaysEmpty
<1>2. IInv /\ DeletedStaysEmpty /\ [Next]_vars => DeletedStaysEmpty'
  BY StepDeletedStaysEmpty DEF IInv
<1> QED
  BY <1>1, <1>2, Inductive, PTL DEF Spec
-----------------------------------------------------------------------------
\* The action of IndexedLeavesByOwnWork.
LeavesByOwnWork ==
    \A v \in Versions :
        status[v] = "indexed" /\ status'[v] # "indexed" =>
          \/ deleted'
          \/ status'[v] = "superseded" /\ \E w \in Versions \ {v} : status'[w] = "indexed"
          \/ \E t \in Tasks : ver[t] = v /\ pc[t] # "idle"

\* A version in service is not withdrawn by work on another version, unless
\* that one is INDEXED in the same commit.
THEOREM OldVersionStays == Spec => IndexedLeavesByOwnWork
<1>1. ASSUME TypeOK, RowOrder, [Next]_vars PROVE LeavesByOwnWork
  <2> SUFFICES ASSUME NEW v \in Versions, status[v] = "indexed", status'[v] # "indexed",
                      ~deleted', \A t \in Tasks : ver[t] = v => pc[t] = "idle"
               PROVE  status'[v] = "superseded"
                         /\ \E w \in Versions \ {v} : status'[w] = "indexed"
    BY DEF LeavesByOwnWork
  <2>1. ASSUME NEW t \in Tasks, IndexCommit(t)
        PROVE  status'[v] = "superseded" /\ \E w \in Versions \ {v} : status'[w] = "indexed"
    <3>1. ver[t] \in Versions /\ ver[t] # v
      BY <1>1, <2>1 DEF RowOrder, IndexCommit
    <3>2. status'[v] = "superseded" /\ status'[ver[t]] = "indexed"
      BY <2>1, <3>1 DEF IndexCommit
    <3> QED
      BY <3>1, <3>2
  <2>2. ASSUME NEW t \in Tasks, AttemptFails(t) \/ DatabaseError(t) \/ WorkerDies(t) \/ Arrival(t)
        PROVE  FALSE
    BY <1>1, <2>2 DEF AttemptFails, DatabaseError, WorkerDies, Arrival, StartProcess, StartReindex,
                      StartResume, SetStatus, TypeOK, store
  <2>3. ASSUME NEW t \in Tasks, Progress(t), ~IndexCommit(t) PROVE FALSE
    <3>1. pc[t] # "idle" => ver[t] # v
      OBVIOUS
    <3>2. CASE DeadlockVictim(t) \/ IndexRefused(t) \/ EmbedFails(t)
      BY <2>2, <3>2 DEF DeadlockVictim, IndexRefused, EmbedFails
    <3>3. CASE BeginExtract(t) \/ ExtractDone(t) \/ ChunkCommit(t) \/ IndexEmpty(t)
      BY <1>1, <3>1, <3>3 DEF BeginExtract, ExtractDone, ChunkCommit, IndexEmpty, SetStatus, TypeOK
    <3>4. CASE IndexMarkFailed(t) \/ PipelineMarkFailed(t)
      BY <1>1, <3>1, <3>4 DEF IndexMarkFailed, PipelineMarkFailed, MarkFailed, SetStatus, TypeOK, store
    <3>5. CASE UNCHANGED store
      BY <3>5 DEF store
    <3> QED
      BY <2>3, <3>2, <3>3, <3>4, <3>5
      DEF Progress, VersionGone, ContentFails, ChunkLock, ChunkDelete, IndexGet, IndexLock,
          IndexEmbed, IndexWrite, DimensionMismatch, IndexSiblings, IndexMark
  <2>4. ASSUME NEW w \in Versions, UploadVersion(w) PROVE FALSE
    BY <1>1, <2>4 DEF UploadVersion, SetStatus, Exists, TypeOK
  <2>5. ~DeleteDocument
    BY DEF DeleteDocument
  <2> QED
    BY <1>1, <2>1, <2>2, <2>3, <2>4, <2>5 DEF Next, DatabaseFails, vars, store
<1>2. IInv /\ [Next]_vars => [LeavesByOwnWork]_vars
  BY <1>1 DEF IInv
<1> QED
  BY <1>2, Inductive, PTL DEF Spec, IndexedLeavesByOwnWork, LeavesByOwnWork
-----------------------------------------------------------------------------
\* While nothing dies, whoever commits EXTRACTING stays with the version until
\* it commits another status: only its end, or that of another request for the
\* same version, takes it away.
LEMMA StepExtractingIsWorkedOn ==
    ASSUME ~Faults, TypeOK, RowOrder, ExtractingIsWorkedOn, [Next]_vars
    PROVE  ExtractingIsWorkedOn'
<1> USE DEF ExtractingIsWorkedOn, Exists
<1> DEFINE Working(t, v) == ver[t] = v /\ pc[t] \in {"extracting", "failed"}
<1>1. ASSUME \A v \in Versions : status'[v] = "extracting" => status[v] = "extracting",
             \A t \in Tasks : \A v \in Versions :
                 Working(t, v) => Working(t, v)' \/ status'[v] # "extracting"
      PROVE  ExtractingIsWorkedOn'
  BY <1>1
<1>2. ASSUME NEW v \in Versions, UploadVersion(v) PROVE ExtractingIsWorkedOn'
  BY <1>1, <1>2 DEF UploadVersion, SetStatus, TypeOK, request
<1>3. CASE DeleteDocument
  BY <1>1, <1>3 DEF DeleteDocument, TypeOK, request
<1>4. ASSUME NEW t \in Tasks, Arrival(t) PROVE ExtractingIsWorkedOn'
  BY <1>1, <1>4 DEF Arrival, StartProcess, StartReindex, StartResume, Start, Goto, SetStatus,
                    TypeOK, store
<1>5. ASSUME NEW t \in Tasks, AttemptFails(t), pc[t] \notin {"extracting", "failed"}
      PROVE  ExtractingIsWorkedOn'
  BY <1>1, <1>5 DEF AttemptFails, Goto, TypeOK, store
<1>6. ASSUME NEW t \in Tasks, Progress(t) PROVE ExtractingIsWorkedOn'
  <2>0. pc[t] # "idle" => ver[t] \in Versions
    BY DEF RowOrder
  <2>1. CASE BeginExtract(t)
    BY <2>0, <2>1 DEF BeginExtract, SetStatus, Goto, TypeOK, request
  <2>2. CASE ExtractDone(t)
    BY <1>1, <2>0, <2>2 DEF ExtractDone, SetStatus, Goto, TypeOK, request
  <2>3. CASE VersionGone(t)
    BY <1>1, <2>0, <2>3 DEF VersionGone, Answer, Goto, TypeOK, store
  <2>4. CASE ContentFails(t)
    BY <1>1, <2>4 DEF ContentFails, Goto, TypeOK, store, request
  <2>5. CASE ChunkCommit(t)
    BY <1>1, <2>5 DEF ChunkCommit, SetStatus, Goto, TypeOK, request
  <2>6. CASE IndexCommit(t)
    BY <1>1, <2>6 DEF IndexCommit, Answer, Goto, TypeOK
  <2>7. CASE IndexMarkFailed(t)
    BY <1>1, <2>0, <2>7 DEF IndexMarkFailed, MarkFailed, SetStatus, Answer, Goto, TypeOK, request
  <2>8. CASE PipelineMarkFailed(t)
    BY <1>1, <2>0, <2>8 DEF PipelineMarkFailed, MarkFailed, SetStatus, Answer, Goto, TypeOK, store
  <2>9. CASE IndexRefused(t) \/ EmbedFails(t)
    BY <1>5, <2>9 DEF IndexRefused, EmbedFails
  <2>10. CASE IndexEmpty(t)
    BY <1>1, <2>0, <2>10 DEF IndexEmpty, SetStatus, Goto, TypeOK, request
  <2>11. CASE IndexGet(t)
    BY <1>1, <2>11 DEF IndexGet, Answer, Goto, TypeOK, store, request
  <2>12. CASE \/ ChunkLock(t) \/ ChunkDelete(t) \/ IndexLock(t) \/ IndexEmbed(t) \/ IndexWrite(t)
              \/ DimensionMismatch(t) \/ IndexSiblings(t) \/ IndexMark(t)
    BY <1>1, <2>12 DEF ChunkLock, ChunkDelete, IndexLock, IndexEmbed, IndexWrite,
        DimensionMismatch, IndexSiblings, IndexMark, Goto, TypeOK, store, request
  <2>13. CASE DeadlockVictim(t)
    <3>1. pc[t] \notin {"extracting", "failed"}
      BY <2>13 DEF DeadlockVictim, InDeadlock, WaitsFor
    <3>2. CASE Answer(t) /\ UNCHANGED store
      BY <1>1, <3>1, <3>2 DEF Answer, Goto, TypeOK, store
    <3> QED
      BY <1>5, <2>13, <3>1, <3>2 DEF DeadlockVictim, DatabaseError
  <2> QED
    BY <1>6, <2>1, <2>2, <2>3, <2>4, <2>5, <2>6, <2>7, <2>8, <2>9, <2>10, <2>11, <2>12, <2>13
    DEF Progress
<1> QED
  BY <1>1, <1>2, <1>3, <1>4, <1>6 DEF Next, DatabaseFails, WorkerDies, vars, store, request

\* While nothing dies, no version is left EXTRACTING: some request is extracting
\* it or about to mark it FAILED.
THEOREM NoneLeftExtracting ==
    ASSUME ~Faults
    PROVE  Spec => []ExtractingIsWorkedOn
<1>1. Init => ExtractingIsWorkedOn
  BY DEF Init, ExtractingIsWorkedOn
<1>2. IInv /\ ExtractingIsWorkedOn /\ [Next]_vars => ExtractingIsWorkedOn'
  BY StepExtractingIsWorkedOn DEF IInv
<1> QED
  BY <1>1, <1>2, Inductive, PTL DEF Spec
-----------------------------------------------------------------------------
(* One request at a time. *)

Alone == \A t, u \in Tasks : t = u

\* Everything a request does.
Acts(t) == Arrival(t) \/ Progress(t) \/ DatabaseFails(t) \/ WorkerDies(t)

\* What the sweep has read and marked is what it would read and mark now.
SweepCurrent ==
    \A t \in Tasks : pc[t] \in {"idxmark", "idxcommit"} =>
        /\ prior[t] = Siblings(t)
        /\ marked[t] = {v \in Siblings(t) : chunks[v] # "none"}

EmbeddingsFollow == \A v \in Versions : emb[v] = "indexed" => chunks[v] = "indexed"

\* Only IndexSiblings and IndexMark lead to the states that hold a sweep.
LEMMA SweepStates ==
    ASSUME TypeOK, NEW t \in Tasks, Acts(t), ~IndexSiblings(t), ~IndexMark(t)
    PROVE  pc'[t] \notin {"idxmark", "idxcommit"}
<1>1. ASSUME AttemptFails(t) \/ DatabaseError(t) \/ WorkerDies(t) \/ Arrival(t)
      PROVE  pc'[t] \notin {"idxmark", "idxcommit"}
  BY <1>1 DEF TypeOK, AttemptFails, DatabaseError, WorkerDies, Arrival, StartProcess, StartReindex,
              StartResume, Start, EntryPoint, Answer, Goto
<1>2. ASSUME Progress(t) PROVE pc'[t] \notin {"idxmark", "idxcommit"}
  BY <1>1, <1>2
  DEF TypeOK, Progress, BeginExtract, ExtractDone, VersionGone, ContentFails, ChunkLock, ChunkDelete,
      ChunkCommit, IndexGet, IndexRefused, IndexLock, IndexEmpty, IndexEmbed, IndexWrite, EmbedFails,
      DimensionMismatch, IndexCommit, IndexMarkFailed, PipelineMarkFailed, DeadlockVictim, Answer, Goto
<1> QED
  BY <1>1, <1>2 DEF Acts, DatabaseFails

\* Nobody else commits between the reads of a sweep and its end; an upload adds
\* a version that is no sibling to supersede, and a deletion waits.
LEMMA StepSweepCurrent ==
    ASSUME Alone, TypeOK, RowOrder, SweepCurrent, [Next]_vars
    PROVE  SweepCurrent'
<1> USE DEF SweepCurrent, Siblings
<1>1. ASSUME NEW v \in Versions, UploadVersion(v) PROVE SweepCurrent'
  BY <1>1 DEF TypeOK, UploadVersion, SetStatus, Exists, request, sweep
<1>2. CASE DeleteDocument
  <2>1. \A t \in Tasks : pc[t] \notin {"idxmark", "idxcommit"}
    BY <1>2, ConstantsAssumption DEF RowOrder, InTransaction, DeleteDocument, ConstantsAssumption
  <2> QED
    BY <1>2, <2>1 DEF DeleteDocument
<1>3. ASSUME NEW t \in Tasks, Acts(t) PROVE SweepCurrent'
  <2>1. CASE IndexSiblings(t)
    BY <2>1 DEF Alone, TypeOK, IndexSiblings, Goto, store, request
  <2>2. CASE IndexMark(t)
    BY <2>2 DEF Alone, TypeOK, IndexMark, Goto, store, request, sweep
  <2> QED
    BY <1>3, <2>1, <2>2, SweepStates DEF Alone
<1> QED
  BY <1>1, <1>2, <1>3 DEF Next, Acts, vars, store, request, sweep

\* Embeddings are active only with their chunks.
LEMMA StepEmbeddingsFollow ==
    ASSUME TypeOK, RowOrder, EmbeddingsFollow, [Next]_vars
    PROVE  EmbeddingsFollow'
<1> USE DEF EmbeddingsFollow
<1>1. ASSUME NEW t \in Tasks, ChunkCommit(t) PROVE EmbeddingsFollow'
  BY <1>1 DEF TypeOK, ChunkCommit
<1>2. ASSUME NEW t \in Tasks, IndexCommit(t) PROVE EmbeddingsFollow'
  BY <1>2 DEF TypeOK, IndexCommit
<1>3. CASE DeleteDocument
  BY <1>3 DEF DeleteDocument
<1>4. ASSUME NEW t \in Tasks, Acts(t), ~ChunkCommit(t), ~IndexCommit(t) PROVE UNCHANGED <<chunks, emb>>
  BY <1>4 DEF Acts, Arrival, DatabaseFails, DatabaseError, WorkerDies, AttemptFails, StartProcess,
      StartReindex, StartResume, Progress, BeginExtract, ExtractDone, VersionGone, ContentFails,
      ChunkLock, ChunkDelete, IndexGet, IndexRefused, IndexLock, IndexEmpty, IndexEmbed, IndexWrite,
      EmbedFails, DimensionMismatch, IndexSiblings, IndexMark, IndexMarkFailed, PipelineMarkFailed,
      MarkFailed, DeadlockVictim, store
<1> QED
  BY <1>1, <1>2, <1>3, <1>4 DEF Next, Acts, UploadVersion, vars, store

\* What a request commits, apart from its chunks and its index: one status of an
\* existing version, its own version unless it resumes a failed one.
LEMMA StatusStep ==
    ASSUME TypeOK, RowOrder, NEW t \in Tasks, Acts(t), ~ChunkCommit(t), ~IndexCommit(t)
    PROVE  /\ UNCHANGED <<chunks, emb, current, deleted>>
           /\ \/ UNCHANGED status
              \/ \E v \in Versions : Exists(v) /\ SetStatus(v, "chunked") /\ "resume" \in DirectOps
              \/ \E s \in {"extracting", "extracted", "failed"} :
                    pc[t] # "idle" /\ Exists(ver[t]) /\ SetStatus(ver[t], s)
<1> DEFINE Own == \E s \in {"extracting", "extracted", "failed"} :
                    pc[t] # "idle" /\ Exists(ver[t]) /\ SetStatus(ver[t], s)
<1>1. ASSUME AttemptFails(t) \/ DatabaseError(t) \/ WorkerDies(t) PROVE UNCHANGED store
  BY <1>1 DEF AttemptFails, DatabaseError, WorkerDies, store
<1>2. CASE Arrival(t)
  BY <1>2 DEF Arrival, StartProcess, StartReindex, StartResume, Exists, store
<1>3. CASE BeginExtract(t) \/ ExtractDone(t) \/ IndexEmpty(t)
  BY <1>3 DEF BeginExtract, ExtractDone, IndexEmpty
<1>4. CASE IndexMarkFailed(t) \/ PipelineMarkFailed(t)
  <2>1. pc[t] # "idle" /\ ver[t] \in Versions
    BY <1>4 DEF IndexMarkFailed, PipelineMarkFailed, RowOrder
  <2>2. CASE UNCHANGED store
    BY <2>2 DEF store
  <2>3. CASE MarkFailed(t, ver[t])
    <3>1. CASE Exists(ver[t])
      BY <2>1, <2>3, <3>1 DEF MarkFailed
    <3>2. CASE ~Exists(ver[t])
      BY <2>1, <2>3, <3>2 DEF TypeOK, MarkFailed, SetStatus, Exists
    <3> QED
      BY <3>1, <3>2
  <2> QED
    BY <1>4, <2>2, <2>3 DEF IndexMarkFailed, PipelineMarkFailed
<1>5. CASE UNCHANGED store
  BY <1>5 DEF store
<1> QED
  BY <1>1, <1>2, <1>3, <1>4, <1>5
  DEF Acts, DatabaseFails, Progress, VersionGone, ContentFails, ChunkLock, ChunkDelete, IndexGet,
      IndexRefused, IndexLock, IndexEmbed, IndexWrite, EmbedFails, DimensionMismatch, IndexSiblings,
      IndexMark, DeadlockVictim

\* IndexCommit marks the chunks of every version it supersedes that has any, and
\* a version without chunks has no active embedding.
LEMMA StepSupersededInert ==
    ASSUME TypeOK, RowOrder, SweepCurrent, EmbeddingsFollow, SupersededInert, [Next]_vars
    PROVE  SupersededInert'
<1> USE DEF SupersededInert
<1>1. ASSUME NEW t \in Tasks, IndexCommit(t) PROVE SupersededInert'
  <2> SUFFICES ASSUME NEW v \in Versions, status'[v] = "superseded"
               PROVE  chunks'[v] # "indexed" /\ emb'[v] # "indexed"
    OBVIOUS
  <2>1. v # ver[t] /\ ~HasWritten(t, v)
    BY <1>1 DEF IndexCommit, HasWritten
  <2>2. CASE v \in marked[t]
    BY <1>1, <2>1, <2>2 DEF IndexCommit
  <2>3. CASE v \in prior[t] /\ v \notin marked[t]
    <3>1. chunks[v] = "none" /\ emb[v] # "indexed"
      BY <1>1, <2>3 DEF IndexCommit, SweepCurrent, EmbeddingsFollow
    <3> QED
      BY <1>1, <2>1, <2>3, <3>1 DEF IndexCommit
  <2>4. CASE v \notin prior[t] /\ v \notin marked[t]
    BY <1>1, <2>1, <2>4 DEF IndexCommit
  <2> QED
    BY <2>2, <2>3, <2>4
<1>2. ASSUME NEW t \in Tasks, ChunkCommit(t) PROVE SupersededInert'
  BY <1>2 DEF TypeOK, ChunkCommit, SetStatus
<1>3. CASE DeleteDocument
  BY <1>3 DEF DeleteDocument
<1>4. ASSUME NEW v \in Versions, UploadVersion(v) PROVE SupersededInert'
  BY <1>4 DEF TypeOK, UploadVersion, SetStatus
<1>5. ASSUME NEW t \in Tasks, Acts(t), ~ChunkCommit(t), ~IndexCommit(t) PROVE SupersededInert'
  BY <1>5, StatusStep DEF TypeOK, SetStatus
<1> QED
  BY <1>1, <1>2, <1>3, <1>4, <1>5 DEF Next, Acts, vars, store

AloneInv == IInv /\ DeletedStaysEmpty /\ SweepCurrent /\ EmbeddingsFollow /\ SupersededInert

LEMMA AloneInductive ==
    ASSUME Alone
    PROVE  Spec => []AloneInv
<1>1. Init => AloneInv
  <2>1. Init => DeletedStaysEmpty /\ SweepCurrent /\ EmbeddingsFollow /\ SupersededInert
    BY DEF Init, DeletedStaysEmpty, SweepCurrent, EmbeddingsFollow, SupersededInert
  <2> QED
    BY <2>1, InitIInv DEF AloneInv
<1>2. AloneInv /\ [Next]_vars => AloneInv'
  BY StepIInv, StepDeletedStaysEmpty, StepSweepCurrent, StepEmbeddingsFollow, StepSupersededInert
  DEF AloneInv, IInv
<1> QED
  BY <1>1, <1>2, PTL DEF Spec

\* With requests one after the other, reindexing and resuming included, a
\* superseded version keeps no active chunk or embedding, whatever fails.
THEOREM SupersededStaysInert ==
    ASSUME Alone
    PROVE  Spec => []SupersededInert
<1>1. AloneInv => SupersededInert
  BY DEF AloneInv
<1> QED
  BY <1>1, AloneInductive, PTL
-----------------------------------------------------------------------------
(* Documents processed one after the other implement DocIndex. *)

\* The versions that exist are those up to the current one.
Numbered == \A v \in Versions : Exists(v) <=> v <= current

\* A request is about a version that is not INDEXED yet, and nobody has worked on
\* a newer one.
InTurn ==
    \A t \in Tasks : pc[t] # "idle" =>
        /\ op[t] = "process"
        /\ status[ver[t]] # "indexed"
        /\ \A v \in Versions : v > ver[t] => status[v] \in {"absent", "uploaded"}

LEMMA StepNumbered ==
    ASSUME TypeOK, RowOrder, SweepCurrent, Numbered, [Next]_vars
    PROVE  Numbered'
<1> USE DEF Numbered, Exists
<1>1. ASSUME NEW v \in Versions, UploadVersion(v) PROVE Numbered'
  <2>1. current < v /\ current \in Nat /\ v \in Nat
    BY <1>1 DEF TypeOK, UploadVersion, Versions, NoVersion
  <2> SUFFICES ASSUME NEW w \in Versions PROVE status'[w] # "absent" <=> w <= v
    BY <1>1 DEF UploadVersion
  <2>2. w \in Nat
    BY DEF Versions
  <2>3. CASE w = v
    BY <1>1, <2>2, <2>3 DEF TypeOK, UploadVersion, SetStatus
  <2>4. CASE w # v
    BY <1>1, <2>1, <2>2, <2>4 DEF TypeOK, UploadVersion, SetStatus
  <2> QED
    BY <2>3, <2>4
<1>2. CASE DeleteDocument
  BY <1>2 DEF DeleteDocument, Versions, NoVersion
<1>3. ASSUME NEW t \in Tasks, ChunkCommit(t) PROVE Numbered'
  BY <1>3 DEF TypeOK, RowOrder, InTransaction, ChunkCommit, SetStatus
<1>4. ASSUME NEW t \in Tasks, IndexCommit(t) PROVE Numbered'
  <2>1. Exists(ver[t]) /\ \A v \in prior[t] : Exists(v)
    BY <1>4 DEF RowOrder, InTransaction, IndexCommit, SweepCurrent, Siblings
  <2> QED
    BY <1>4, <2>1 DEF IndexCommit
<1>5. ASSUME NEW t \in Tasks, Acts(t), ~ChunkCommit(t), ~IndexCommit(t) PROVE Numbered'
  BY <1>5, StatusStep DEF TypeOK, SetStatus
<1> QED
  BY <1>1, <1>2, <1>3, <1>4, <1>5 DEF Next, Acts, vars, store

\* A request that is not answered goes on with the same version.
LEMMA SameRequest ==
    ASSUME TypeOK, NEW t \in Tasks, Acts(t), ~Arrival(t), pc'[t] # "idle"
    PROVE  pc[t] # "idle" /\ UNCHANGED <<op, ver>>
<1>1. ASSUME AttemptFails(t), pc[t] # "idle" PROVE UNCHANGED <<op, ver>>
  BY <1>1 DEF AttemptFails
<1>2. ASSUME Answer(t) PROVE FALSE
  BY <1>2 DEF TypeOK, Answer, Goto
<1>3. ASSUME DatabaseError(t) PROVE pc[t] # "idle" /\ UNCHANGED <<op, ver>>
  BY <1>1, <1>2, <1>3 DEF DatabaseError
<1> QED
  BY <1>1, <1>2, <1>3
  DEF Acts, DatabaseFails, WorkerDies, Progress, BeginExtract, ExtractDone, VersionGone, ContentFails,
      ChunkLock, ChunkDelete, ChunkCommit, IndexGet, IndexRefused, IndexLock, IndexEmpty, IndexEmbed,
      IndexWrite, EmbedFails, DimensionMismatch, IndexSiblings, IndexMark, IndexCommit,
      IndexMarkFailed, PipelineMarkFailed, DeadlockVictim, request

LEMMA StepInTurn ==
    ASSUME Alone, DirectOps = {}, TypeOK, RowOrder, Numbered, InTurn, [Next]_vars
    PROVE  InTurn'
<1> USE DEF InTurn
<1>1. ASSUME NEW v \in Versions, UploadVersion(v) PROVE InTurn'
  BY <1>1 DEF TypeOK, RowOrder, UploadVersion, SetStatus, request
<1>2. CASE DeleteDocument
  BY <1>2 DEF RowOrder, DeleteDocument, request
<1>3. ASSUME NEW t \in Tasks, Acts(t), pc'[t] # "idle" PROVE InTurn'
  <2>1. CASE StartProcess(t)
    <3>1. current \in Versions /\ \A v \in Versions : v > current => status[v] = "absent"
      <4>1. current \in Versions
        BY <2>1 DEF TypeOK, StartProcess
      <4>2. ASSUME NEW v \in Versions, v > current PROVE ~(v <= current)
        BY <4>1, <4>2 DEF Versions
      <4> QED
        BY <4>1, <4>2 DEF Numbered, Exists
    <3> QED
      BY <2>1, <3>1 DEF Alone, TypeOK, StartProcess, Start, Goto, store
  <2>2. CASE ~StartProcess(t)
    <3>1. ~Arrival(t)
      BY <2>2 DEF Arrival, StartReindex, StartResume
    <3>2. pc[t] # "idle" /\ UNCHANGED <<op, ver>> /\ ver[t] \in Versions
      BY <1>3, <3>1, SameRequest DEF RowOrder
    <3>3. ~IndexCommit(t)
      BY <1>3 DEF TypeOK, IndexCommit, Answer, Goto
    <3>4. UNCHANGED status \/ \E s \in Statuses \ {"indexed"} : SetStatus(ver[t], s)
      <4>1. CASE ChunkCommit(t)
        BY <4>1 DEF ChunkCommit, Statuses
      <4>2. CASE ~ChunkCommit(t)
        BY <1>3, <3>3, <4>2, StatusStep DEF Statuses
      <4> QED
        BY <4>1, <4>2
    <3>5. \A v \in Versions : v > ver[t] => v # ver[t]
      BY <3>2 DEF Versions
    <3> QED
      BY <3>2, <3>4, <3>5 DEF Alone, TypeOK, SetStatus
  <2> QED
    BY <2>1, <2>2
<1>4. ASSUME NEW t \in Tasks, pc'[t] = "idle" PROVE InTurn'
  BY <1>4 DEF Alone
<1> QED
  BY <1>1, <1>2, <1>3, <1>4 DEF Next, Acts, vars, store, request

InTurnInv == AloneInv /\ Numbered /\ InTurn

\* The step that makes a version INDEXED publishes it, the deletion removes the
\* document, and no other step changes what search finds.
LEMMA StepIndex ==
    ASSUME Alone, DirectOps = {}, InTurnInv, InTurnInv', [Next]_vars
    PROVE  [Index!Next]_<<{v \in Versions : Searchable(v)}, deleted>>
<1> DEFINE Served == {v \in Versions : Searchable(v)}
<1>1. /\ TypeOK /\ RowOrder /\ DeletedStaysEmpty /\ SweepCurrent /\ Numbered /\ InTurn
      /\ Served = {v \in Versions : status[v] = "indexed"}
      /\ Served' = {v \in Versions : status'[v] = "indexed"}
  BY DEF InTurnInv, AloneInv, IInv, IndexedComplete, Searchable
<1> HIDE DEF Served
<1>2. ASSUME NEW t \in Tasks, IndexCommit(t) PROVE Index!Publish(ver[t]) /\ ver[t] \in Versions
  <2>1. ver[t] \in Versions /\ Exists(ver[t]) /\ ver[t] \notin prior[t]
    BY <1>1, <1>2 DEF RowOrder, InTransaction, IndexCommit
  <2>2. ~deleted /\ UNCHANGED deleted
    BY <1>1, <1>2, <2>1 DEF DeletedStaysEmpty, Exists, IndexCommit
  <2>3. \A w \in Served : w < ver[t]
    BY <1>1, <1>2, <2>1 DEF InTurn, IndexCommit, Versions
  <2>4. \A w \in Served : w \in prior[t]
    BY <1>1, <1>2 DEF InTurn, SweepCurrent, Siblings, IndexCommit
  <2>5. Served' = {ver[t]}
    BY <1>1, <1>2, <2>1, <2>4 DEF IndexCommit
  <2> QED
    BY <2>1, <2>2, <2>3, <2>5 DEF Index!Publish, Served
<1>3. CASE DeleteDocument
  <2>1. Served' = {}
    BY <1>1, <1>3 DEF DeleteDocument
  <2> QED
    BY <1>3, <2>1 DEF DeleteDocument, Index!Next, Index!Remove, Served
<1>4. ASSUME NEW v \in Versions, UploadVersion(v) PROVE UNCHANGED <<Served, deleted>>
  BY <1>1, <1>4 DEF TypeOK, UploadVersion, SetStatus, Exists
<1>5. ASSUME NEW t \in Tasks, ChunkCommit(t) PROVE UNCHANGED <<Served, deleted>>
  <2>1. ver[t] \in Versions /\ status[ver[t]] # "indexed"
    BY <1>1, <1>5 DEF RowOrder, InTurn, ChunkCommit
  <2> QED
    BY <1>1, <1>5, <2>1 DEF TypeOK, ChunkCommit, SetStatus
<1>6. ASSUME NEW t \in Tasks, Acts(t), ~ChunkCommit(t), ~IndexCommit(t)
      PROVE  UNCHANGED <<Served, deleted>>
  <2>1. pc[t] # "idle" => ver[t] \in Versions /\ status[ver[t]] # "indexed"
    BY <1>1 DEF RowOrder, InTurn
  <2> QED
    BY <1>1, <1>6, <2>1, StatusStep DEF TypeOK, SetStatus
<1>7. UNCHANGED vars => UNCHANGED <<Served, deleted>>
  BY <1>1 DEF vars, store
<1> QED
  BY <1>2, <1>3, <1>4, <1>5, <1>6, <1>7 DEF Next, Acts, Index!Next, Served

\* Requests handled one after the other, whatever fails in the middle: search
\* finds at most one version of a document, a newer version replaces it in one
\* step, it never falls back to an older one, and a deleted document is gone.
THEOREM ImplementsDocIndexHolds ==
    ASSUME Alone, DirectOps = {}
    PROVE  Spec => ImplementsDocIndex
<1>1. Init => InTurn /\ Numbered
  BY DEF Init, InTurn, Numbered, Exists, NoVersion, Versions
<1>2. AloneInv /\ Numbered /\ InTurn /\ [Next]_vars => Numbered' /\ InTurn'
  BY StepNumbered, StepInTurn DEF AloneInv, IInv
<1>3. Init => Index!Init
  BY DEF Init, Index!Init, Searchable
<1>4. InTurnInv /\ InTurnInv' /\ [Next]_vars
          => [Index!Next]_<<{v \in Versions : Searchable(v)}, deleted>>
  BY StepIndex
<1> QED
  BY <1>1, <1>2, <1>3, <1>4, AloneInductive, PTL DEF Spec, ImplementsDocIndex, Index!Spec, InTurnInv
=============================================================================
