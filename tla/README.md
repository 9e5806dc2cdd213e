# RAG-Enterprise in TLA+

A formal model of RAG-Enterprise: its back end, its developer launcher and, of its front end, the upload drawer. TLA+
modules model what these parts do, TLC configurations check them on small instances, and proofs, checked by TLAPS, show
that the most important properties hold for every size. Paths below are relative to `backend/src/rag_enterprise/`
unless they begin with `specs/`, `docs/`, `tools/` or `frontend/`. `PROJECT.json` maps every definition to the lines it
models, lists the runs, the hazards and the theorems, and for every checked property a *mutant*: the bug in the code
that the property would find.

1. [The system](#1-the-system) 2. [How the code is modelled](#2-how-the-code-is-modelled) 3. [Modules](#3-modules)
4. [Runs](#4-runs) 5. [Fairness](#5-fairness) 6. [Theorems](#6-theorems) 7. [Findings](#7-findings)
8. [Known counterexamples](#8-known-counterexamples) 9. [Not modelled](#9-not-modelled) 10. [Plan](#10-plan)

## 1. The system

Users keep documents in *knowledge bases*; each upload makes a *version* of a document; a version is extracted,
split into chunks, embedded and indexed; a question is answered by a language model from the chunks that a hybrid
(vector and BM25) search finds. The back end is one asyncio process, or several, over PostgreSQL (READ COMMITTED) and
a directory of files. A launcher starts it with its services and the front end on a developer's machine.

| Component | State it keeps | Operations | Correct when |
| --- | --- | --- | --- |
| Knowledge bases, documents (`knowledge/handlers`) | rows with status, `document_count` | create, publish, archive, restore, delete, list | the counter counts; deletion leaves no row behind; listings miss nothing |
| Folder tree (`knowledge/handlers`, `repositories/folder.py`) | parent, materialized path and depth of each folder | create, move, delete | paths follow parents, no cycle, a move or deletion takes along exactly the subtree |
| Uploads, versions, files (`knowledge/handlers`, `infrastructure`) | upload sessions, version numbers, current version, staged and permanent files | initiate, complete, bind to a version, delete | no gap in the numbers, every version keeps its file with the content of its hash |
| Document pipeline (`pipeline/service.py`) | `processing_status` of a version | process and index: extract, chunk, index, mark failed | every request ends and leaves a status it can go on from |
| Extraction, normalization (`processing`) | none | read a PDF page in order, make text uniform | nothing printed is lost, no word changes |
| Chunking (`chunking/service.py`, `splitter.py`) | chunks of a version | split; replace all chunks in one transaction | all or nothing; spans cover the text |
| Indexing (`indexing/service.py`) | chunk states, embeddings, status | index, reindex, resume, supersede older versions, retry | INDEXED only with all embeddings; one version of a document is searchable |
| Lexical index (`retrieval/lexical_index.py`) | process-wide cache, side file | load for a search, persist after indexing, expire | the index used is that of what the search matches |
| Retrieval (`retrieval`) | none | vector and lexical search, fusion, ranking | both channels count, bonuses only reorder near ties |
| Generation, conversations (`generation`) | conversations and messages | select evidence, build the prompt, call with retries, check citations, persist the turn | each turn is kept once and in order; answers cite what the prompt showed |
| Configuration (`core/config`) | none | settings, validation, choice of providers | what is valid starts |
| Container, readiness, providers (`core`, `generation/providers`) | engine, clients, selected model, cached alignment | start, stop, probe | a probe says ready only of a server that works; it recovers |
| Evaluation (`evaluation`) | four files per experiment | run, list, show, measure, gate | what is shown is one whole run |
| Launcher (`tools/dev_launcher`) | processes, services, a stop file | check, start, watch, shut down | it ends, and leaves no server running that it holds and no services |
| Front end (`frontend`) | rows of the upload drawer, the open conversation | upload, cancel, chat, show | what a row says is true |

How they interact. The HTTP routes build one command or service call each. The pipeline calls extraction, chunking
and indexing, each of which opens transactions of its own; so several transactions, of several requests, meet on the
rows of one version. Indexing writes the BM25 side file and empties the process cache after its commit; searches fill
the same two while they run. A turn reads its conversation, searches, calls the model, and only then opens the
transaction that persists it. Deleting a document or a knowledge base removes rows that the pipeline or a turn may be
working on. Files are stored before the transaction that names them commits, and deleted after the one that forgets
them.

What is hard about it. No handler locks a row explicitly or checks a row version at its commit: what is read at the
start is written back later. What protects the data are the row locks that early flushes take, foreign keys and unique
constraints, sometimes by accident. Requests are retried (indexing: four tries; the model: three), die with the worker,
and fail half way between a file and a row. Readers meet files and pages in the middle of writing; signals meet the
launcher in the middle of its shutdown. And the algorithms between them (splitting, ranking, trimming, normalizing)
work at boundaries that examples seldom hit. `PROJECT.json` lists each such place as a hazard, with the properties that
watch it.

## 2. How the code is modelled

* **Steps.** A coroutine gives up control only at `await`, but every database statement is one, and another process
  may run too; so the unit of a step is what the database makes atomic. A commit, or a read that a later write
  depends on, is a step of its own. Where other transactions can only wait (a flushed row), the lock is state.
* **Transactions.** READ COMMITTED: a statement sees what is committed. A flush takes row locks that are kept to the
  end; the unit of work rolls back on any exception. SQLAlchemy writes only the columns that changed, and flushes
  explicitly (`autoflush=False`).
* **PostgreSQL, Ollama, Docker, processes** are external. Row locks, foreign keys, unique constraints and deadlock
  detection, the models that are installed, services and servers that end, are modelled from how the code relies on
  them.
* **Failures.** Where the constant `Faults` is TRUE, a worker may die and the database may refuse at any step. What
  then happens is what the code's exception handling makes of it.
* **Data** is abstracted to what properties tell apart: in the modules of state a version's chunks are all there or
  not, a folder's name is an atom that may begin with another, a file's content is one of two. In the algorithms a
  text is a sequence of classes of characters or of words, scores are whole numbers of thousandths, boxes have
  small coordinates.
* Permission checks come first in every handler and are taken to have succeeded. A refused request changes nothing
  and is no step.

## 3. Modules

| Module | What it is | Lines of the code |
| --- | --- | --- |
| `Pipeline` | the versions of one document and the requests that extract, chunk and index them | `pipeline/service.py`, `chunking/service.py`, `indexing/service.py`, parts of `command_handlers.py` |
| `DocIndex` | abstract: what indexing promises to search about one document | |
| `LexicalCache` | the two caches of the BM25 index, searches and indexing runs | `retrieval/lexical_index.py`, parts of `retrieval/service.py`, `indexing/service.py` |
| `FolderTree` | folders of a knowledge base, with the documents in them | `command_handlers.py` 257-429 and 762-790, `repositories/folder.py` |
| `Forest` | abstract: a forest whose subtrees are moved and deleted as a whole | |
| `Catalog` | knowledge base, documents, uploads, versions, stored files | the rest of `command_handlers.py`, its repositories, `infrastructure/` |
| `Generation` | turns, conversations, and the deletion of knowledge bases | `generation/service.py`, `generation/repositories.py`, parts of `command_handlers.py` |
| `Readiness` | startup, shutdown, probes, Ollama and the model in use | `core/health.py`, `core/dependencies/providers.py`, `lifespan.py`, `generation/providers/ollama.py` |
| `Launcher` | the developer launcher and its signals | `tools/dev_launcher/` |
| `Evaluation` | runs of experiments, their files and a reader | `evaluation/runner`, `evaluation/storage`, `evaluation/service.py` |
| `Listings` | a reader of pages, of the tree and of a search, with writers | `query_handlers.py`, its routes and repositories |
| `UploadDrawer` | the loops that upload files from the browser | `frontend/.../upload-drawer.tsx` |
| `Splitter` | the chunk splitter | `chunking/splitter.py` |
| `Words`, `Evidence` | words and phrases; the selection of evidence | `generation/evidence_selection.py`, `retrieval/ranking.py` |
| `Retrieval` | BM25, fusion, calibration | `retrieval/bm25.py`, `hybrid.py`, `ranking.py`, `service.py` |
| `Answering` | context, prompt, abstention, citations | `generation/context_assembly.py`, `prompt_builder.py`, `citations.py`, `service.py` |
| `Metrics` | the numbers of an experiment and its gates | `evaluation/metrics`, `evaluation/runner` |
| `Configuration` | from the environment to the server that starts | `core/config`, the factories |
| `Normalization` | Persian text made uniform | `processing/normalization.py` |
| `Pdf` | pages put into reading order | `processing/parsers/pdf.py` |
| `...MC`, `...Proofs` | values for TLC; theorems | |
| `PartsMC`, `OperationsMC` | the algorithms over all their small inputs; with them `Launcher`, `Evaluation`, `Listings` and `UploadDrawer`, each on its own | |
| `TextParts` | `Pdf`, `Normalization`, `Splitter` and `Answering` as one, for `PartsMC` | |

### Pipeline

State: per version `status` (`processing_status`), `chunks`, `emb` (states of its chunk and embedding rows, all
alike), the holders of the row locks on the version row (`lock`) and on its chunk and embedding rows (`rows`); per
request its position `pc`, kind, version and try; and, between reading and updating them, the siblings to supersede
(`prior`, `marked`). CHUNKING and INDEXING are flushed but never committed, so they are locks here and no status.

| Actions | Code |
| --- | --- |
| `StartProcess` | `process_document`: enters where the status read says (`_load_version` 152-178) |
| `BeginExtract`, `ExtractDone` | the two short transactions of `_run_processing`; neither looks at the status again |
| `ChunkLock`, `ChunkDelete`, `ChunkCommit` | `chunk_document_version`: flush CHUNKING, delete, insert and commit |
| `IndexGet` ... `IndexCommit` | `_index_once`: the status check, the flush of INDEXING, embedding and writing, `_supersede_prior_versions` (read siblings, update their rows), commit |
| `AttemptFails`, `IndexMarkFailed`, `PipelineMarkFailed` | `_run_with_retries`, both `_mark_failed` |
| `StartReindex`, `StartResume` | the service calls that bypass the pipeline |
| `UploadVersion`, `DeleteDocument` | what other handlers do to these rows |
| `DeadlockVictim`, `DatabaseFails`, `WorkerDies` | a transaction aborted, an exception, a dead process |

`DocIndex` has one variable of interest, the set of versions that search can find: it is empty or one version, a newer
one replaces it in one step, and after removal it stays empty. `Pipeline!Index` instantiates it with the versions that
`_filtered_join` of the embedding repository would return.

### LexicalCache

State: per document the versions that are INDEXED and whether it is ACTIVE (the *corpus*); the process cache, a
function from a number of chunks to an index, because that number is all its key says of what was searched; the side
file; per search the rows it has read and the index it uses; per indexing run its step and rows. `SearchRead`, then
`CacheHit`, `FileHit` or `Build` are `load_bm25_index`: the rows are read before an `await`, everything after it is one
step. `CommitIndexed`, `PersistRead`, `PersistWrite` are the end of `_index_once` and `persist_kb_lexical_index`. Which
versions of a document are INDEXED is the matter of `Pipeline`, where two may be and an older one may replace a newer
(section 7); here a commit indexes any version, perhaps again, and leaves any set of the others INDEXED. Versions also
leave when a document is archived or deleted or when a late failure marks them (`Withdrawals`). A file that was cut
short is no JSON, which counts as no file (`NoIndex`); but one cut inside a character is not even text (`CutFile`), and
the search that meets it fails (`FileFails`).

### FolderTree

State: parent, path (a sequence of names) and depth of each folder, the place of each document, whether it has
versions, and per request the command and the rows it read. `Begin...` reads and checks, `Commit...` writes what was
computed from these reads, subject to the foreign keys and the unique constraint. `Like` is `LIKE 'prefix%'` on the
path, with which the code looks for a subtree. `Forest` knows only parents; `Below` is defined by closure, not by path.

### Catalog

State: the status of the knowledge base (DRAFT and ACTIVE are *open*, so publishing is no step) and its counter; per
document status, current version and folder; the folders; per upload session status, checksum and the version made of
it; the staging files and the files of versions; per request what it has read. Creating documents, completing uploads,
making versions and deleting are several steps each: read, store, commit, delete files. The status handlers are one
step, which loses no outcome: each sets a status whatever the row has become since, and does no more than the same
handler would if it read it at its commit (a late publish acts as a restore). The reads of a handler are one step,
although they are several statements.

A folder is deleted as `DeleteFolderHandler` does it: versions and uploads of the documents it listed go, then the rows
of the documents that are in the folder *now* (`Leaving`), and the counter falls by the number listed. `strays` remembers
the documents that `MoveDocument` took out of such a folder, or into one, between the listing and the commit; for these
the code promises nothing, and `CurrentIsLatest`, `CountExact` and `VersionsKept` say so.

### Generation

State: the knowledge bases that are there; the rows of conversations; the committed messages; per turn its stage, what
was asked, the history it has read, its try; per deletion the rows it has listed.

| Actions | Code |
| --- | --- |
| `Begin` | `generate`: reads the conversation named in the request, if any, and its last messages |
| `Refuse`, `NoPrompt`, `Prompt` | the knowledge base is not there and nothing is kept; retrieval fails or nothing is selected, which is kept as a failure or an abstention; or a prompt is built |
| `ModelReplies`, `CallFails` | the call with its retries; a reply, or the last failure, goes on to be persisted |
| `FindConversation`, `InsertConversation` | `_persist_turn`: the conversation is there, or the row is inserted, which locks its knowledge base; the next sequence number is read |
| `CommitTurn` | two messages are flushed and committed, if the rows they refer to are still there |
| `DeleteMessages`, `DeleteConversations`, `DeleteKnowledgeBase` | the statements of `DeleteKnowledgeBaseHandler` that reach these rows |

The sequence number has no constraint in the database: nothing but the arithmetic of pairs keeps two turns that read
the same number in order, and `AnswerFollowsQuestion` and `AfterItsHistory` say what is left of the order then.

### Readiness

State: the world (Ollama and its models, the parts that work, the vectors stored), the server's phase, the selected
model and the client; per probe the check it is at and whether it has failed; the one probe file that probes share; per
chat the model it asked. A probe of the storage that is given up leaves the file as it is; in the code the thread that
writes or deletes it goes on, and may do so during a later probe. Each `await` of a probe ends a step: `CheckDatabase`, `CheckEvaluation`, `WriteProbeFile`,
`GetProbeFile`, `DeleteProbeFile`, `ListModels`, `Ping`, `CheckEmbedding`, `CheckIndex`. `Change` changes the world,
`Settle` calms it. `held` collects what a probe has lived to see work, so that a report can be compared with the world.

### Launcher

State: the step of the program, the services, each server's process and whether the program has taken hold of it,
`shutting_down`, the stop file. One action per function of the start; `AskToStop`, `ReapServer` and `ComposeDown` are
the shutdown. A server is the process that is started (`uv`, `npm`), not what that starts. `Signal` may fall into any
step, including those of the shutdown and the gap between the start of a process and its assignment; it shuts down and
raises `SystemExit`. `docker compose up` is a child that takes its time: services appear while it runs
(`ServicesAppear`), a signal interrupts only the waiting for it, and it may then outlast the shutdown (`upLeft`).

### Evaluation, Listings, UploadDrawer

`Evaluation`: a run writes its configuration, outcomes, metrics and summary, each file opened (`Torn`) and then
written, and may end anywhere; one reader lists or opens experiments with a read per step. `Listings`: each statement
of a request is a step (count, page, folders), with documents and folders written in between; the flags `left`, `grown`
and `tied` record what such a write did to the pages. `UploadDrawer`: rows, the flag `running`, the abort controller,
and per loop the call it waits for and the rows it has captured; a call is answered, fails, or is carried out with its
answer lost.

### The algorithms

`Splitter`, `Evidence`, `Retrieval`, `Answering`, `Metrics`, `Configuration`, `Normalization` and `Pdf` have no
variables: they are operators, in the order of the code's functions, and end with the properties of their results.
A few readings of theirs: `Configuration!Settings` leaves the variables as they are, because what
`_normalize_llm_settings` writes for blank ones (`Normalized`) goes under names that are not read; `Pdf!LinesRead` are
the lines of a page after both passes that join lines, within a block and between blocks; in `Splitter` a heading is a
section label, another title, or one that is a list item as well, and the limits are the defaults that the program uses.
`Words` holds the reading of words that `Evidence` and `Retrieval` share, `TextParts` joins the four that work on texts.
`PartsMC` has one variable for an input, one for the result, and one action per algorithm. The properties are not the
algorithms again: that chunks cover the text, that the prompt shows what it refers to, that a better run still passes.

The modules of state do not share variables: they meet in the code at single rows, and each models what the others do
to those rows as actions of its own (`Pipeline!DeleteDocument`, `LexicalCache!ArchiveDocument`,
`FolderTree!UploadVersion`, `Generation!DeleteMessages`).

## 4. Runs

`tlc -config <cfg>.cfg <module>` runs one, with the module `...MC` of its name. All configurations but those of
`LexicalCache` say `CHECK_DEADLOCK FALSE`: documents, versions, folders, uploads and turns are used up, programs exit,
algorithms end, and then nothing is left to do.

| Run | Configuration | Properties | What it shows |
| --- | --- | --- | --- |
| `pipeline_concurrent` | `PipelineConcurrent` | `TypeOK` `IndexedComplete` `DeletedStaysEmpty` `IndexedLeavesByOwnWork` | two requests of any kind on two versions, with deletion, failing databases and dying workers: no version is INDEXED in part; a deletion is final; work on one version never takes another out of search unless it replaces it in the same commit |
| `pipeline_live` | `PipelineLive` | `EveryRequestAnswered` `ExtractingIsWorkedOn` | without faults every request is answered (retries end, deadlocks between indexers and chunkers are resolved), and no version stays EXTRACTING |
| `pipeline_one_at_a_time` | `PipelineOneAtATime` | `ImplementsDocIndex` `SupersededInert` | requests handled one after the other, with faults, implement `DocIndex` |
| `lexical_any` | `LexicalAny` | `AnswerHasLiveSize` | whatever happens (filters, archived, restored and deleted documents, late failures, restarts, torn files), the index a search uses has as many chunks as it matched |
| `lexical_quiet` | `LexicalQuiet` | `FreshWhenQuiet` | with one search without filter and one indexing run at a time, nothing archived, restored, deleted or marked failed, and no fault: no cache that can be used is stale once indexing is over, although a search that read older rows keeps filling the caches, and whichever versions a run leaves INDEXED |
| `folder_one_at_a_time` | `FolderOneAtATime` | `PathsDerived` `SiblingNamesUnique` `ImplementsForest` | one request at a time and no name that begins with another: everything the tree promises |
| `folder_concurrent` | `FolderConcurrent` | `NoOrphans` | two requests that overwrite each other's work: still nothing is left in a folder that is gone |
| `catalog_concurrent` | `CatalogConcurrent` | `CurrentIsLatest` `FilesIntact` `CountExact` `DeletedKbEmpty` `VersionsKept` | two requests of any kind that may die at any step, and one move of a document out of a folder under deletion or into one: numbers without gaps, the last one current, and an exact counter when one request at a time changes it, but for such a move; files with the content of their hash, and clean deletions |
| `generation` | `Generation` | `TurnKeptWhole` `AnswerFollowsQuestion` `AfterItsHistory` `WorkspacesApart` `EveryTurnEnds` | two turns and the deletion of knowledge bases at once: a turn is kept whole or not at all, questions, answers and history stay in order although numbers collide, workspaces stay apart, and every turn ends |
| `readiness` | `Readiness` | `ReadyIsTrue` `AnswersNameTheirModel` `Recovers` | two probes and a chat while the world changes: a probe says ready only after it has seen each part work, an answer names the model that gave it, and a server that started in a bad moment becomes ready |
| `operations` | `Operations` | `SplitCovers` `EvidenceSound` `PromptFaithful` `MetricsSound` `ConfigurationSound` `TextNormal` `PdfRead` `CleanExit` `LauncherEnds` `ShownWhole` `ListingsComplete` `RowsTrue` | every algorithm over all its small inputs; and, each on its own, the launcher, experiments, listings and the upload drawer |
| `folder_delete_sibling` | `FolderDeleteSibling` | `ImplementsForest` | a violation, section 7 |

The properties of `operations`, each a conjunction of those that the module of the algorithm states:

| Property | States |
| --- | --- |
| `SplitCovers` | every word is in a chunk, no chunk is empty, begins or ends blank, or is longer than the maximum |
| `EvidenceSound` | a chunk that shares a word with the question is found; fusion lets neither channel hide the other; bonuses reorder near ties only; what is selected is relevant, and the best hit is enough to answer from |
| `PromptFaithful` | every chunk selected stands whole in one block of neighbours, unless another selected chunk says the same (which may itself have been dropped) or it had to be dropped, which begins with the history and the least score; the numbers in the prompt are those of its chunks; an answer is complete exactly when it has citations, all of them shown |
| `MetricsSound` | the numbers agree with one another, and a run does not fail because a question that raised an error is answered perfectly instead |
| `ConfigurationSound` | a valid configuration starts, unless it names a synchronous database driver; `echo` and `http` mean `mock` and `api`, and a variable with an old name stands in for one that is absent or empty; vectors have the size configured, or none is made |
| `TextNormal` | the surface is uniform, no letter is lost, no half-space between two letters with a tatweel, a vowel mark or a format character beside it is lost (with a control character it is: section 8), and the second application is final |
| `PdfRead` | everything printed is read in the order of its columns; nothing is joined to the line of a question or of an ended sentence, so an answer never shares its question's line (a question may be joined to what stands before it: section 8); margins take away only what pages share |
| `CleanExit`, `LauncherEnds` | at the exit the servers that the launcher holds have ended and the services are down, unless a second signal cut the shutdown short, `docker compose down` failed, or an interrupted `docker compose up` still goes on; startup ends unless a foreground command never does, and shutdown ends |
| `ShownWhole` | what is shown of an experiment is one run that answered every question, whatever crashes left behind |
| `ListingsComplete` | pages show what nobody wrote, once; the tree shows every folder that nobody moved, in its place |
| `RowsTrue` | a completed row has its version, a failed one has none, an uploading one is worked on |

### Bounds

| Bound | Value | Why it is enough |
| --- | --- | --- |
| `Tasks`, `Requests`, `Searchers`, `Indexers`, `Turns`, `Probers` | 1 or 2 | every race listed is between two; a third only repeats one of the roles (the proofs need no bound) |
| `MaxVersion` of `Pipeline` | 2, and 3 where a third version matters | one version superseding another; a third made obsolete while the second is replaced |
| `MaxAttempts`, `Attempts` | 2 (code: 4 and 3) | a first try that fails and a last one; the tries between repeat the first |
| `Docs` of `LexicalCache`, its `Versions` | 3, and 1 (`lexical_any`) or 2 (`lexical_quiet`) | a change of the corpus that keeps its size, and one that does not; two INDEXED versions of one document, an older one in place of a newer; with filters and withdrawals one version is enough, for the sizes are those of sets of documents |
| `Folders`, `MaxDepth`, `MaxPath` | 4, 3, 8 (concurrently 2, 2, 4) | a subtree of three levels moved under a fourth folder, and one that does not fit; `MaxPath` exceeds what the handlers build one at a time, and bounds what two at once may add up to |
| `Names` | `a`, `ab` (concurrently `a`) | names that differ, collide, or of which one begins with the other (`Extends`) |
| `Docs`, `Uploads`, `Contents` of `Catalog` | 2 each | two documents whose uploads and versions are confused; two versions of one document; an upload stored twice with different content |
| `Folders`, `Entries`, `FreeMoves`, `Explored` of `Catalog` | one folder, all documents created in it, one move, explored until the deletions under way are over | a document in the folder when a deletion lists it and elsewhere when it is deleted; how folders are nested is the matter of `FolderTree` |
| `KnowledgeBases`, `Workspaces`, `HistoryLimit` | 3, 2, 2 | two knowledge bases of one workspace whose conversations are confused, and one of another; one earlier turn as history |
| `MaxChanges` of `Readiness` | 1 | a change at any point of a probe, before or after the start; then calm |
| `MaxSignals` | 2 | a signal during the shutdown that another began |
| `Runs`, `Experiments`, `Questions`, `Limit` | 2, 2, 1, 1 | a listing that must choose; a run torn beside one that is whole |
| `Documents`, `Folders`, `PageSize`, `MaxWrites` of `Listings` | 3, 3, 1, 2 | a document that moves to another page between two pages; a chain of three folders |
| `Rows`, `Loops` | 3, 3 | a cancelled loop that ends while a second runs and lets a third begin |
| texts of `Splitter` | up to 6 characters of 4 classes, 8 of 3, and 5 or 4 with marks of lines; chunks of at most 4 | several chunks, with an overlap of 2 that a break undercuts |
| other inputs of `PartsMC` | see its comments | cases on both sides of each threshold, two or three items that compete, and one in a different state |

Constants that restrict callers, each of them relaxed in another run or in section 8: `CountersAlone` (documents are
not created and deleted concurrently), `OneCompletion` (a client does not complete one upload twice at once),
`Distinct` (no two runs get the name of one experiment), `MayBeEmpty` (Ollama may run without any model), `DirectOps`
(reindexing and resuming), `Unrelated` names, `OneJobPerVersion`.

Symmetry is used for requests, documents, uploads and folders where a run checks only safety; the runs that check
liveness use none.

## 5. Fairness

* `pipeline_live`: strong fairness of `Progress(t)`, the next step of a request that has been accepted, for every
  request. The event loop runs each coroutine that can go on. A step may be disabled again and again while it waits
  for a row lock that others take in turn, hence *strong* fairness: PostgreSQL queues the waiters of a row and serves
  them in order, so none is passed over for ever; and its deadlock detector makes `DeadlockVictim` happen. The
  timeouts of embedding calls are what makes an embedding step end.
* `generation`: weak fairness of the next step of each turn and of each deletion that has begun. Retrieval and the
  calls of the model have timeouts, and transactions that are waited for end.
* `readiness`: weak fairness of the start, of the steps of a probe, each of which has a timeout, and of one monitor
  that goes on asking. The claim is made only once the world is calm (`Settle`).
* `operations`: weak fairness of the steps of the launcher's program that have a timeout or wait for nothing. `uv sync`,
  `npm install` and `alembic upgrade` have none (`run_foreground`, `processes.py:141`); they are `Foreground`, of which
  nothing is assumed, and `LauncherEnds` allows the program to stay in one of them for ever. Nothing is assumed of
  signals, of servers, of services or of the stop file.

Nothing is assumed anywhere of arrivals, uploads, deletions or faults.

## 6. Theorems

All are proved by TLAPS for every value of the constants that satisfies the named assumption of the module
(`ConstantsAssumption`, `LexicalAssumption`, `FolderAssumption`, `CatalogAssumption`, `GenerationAssumption`,
`ReadinessAssumption`, `SplitAssumption`, `MetricsAssumption` and `RetrievalAssumption` in `PartsMC`, and `UploadAssumption`,
`EvaluationAssumption` and `ListingAssumption` in `OperationsMC`), which asks no more than that the constants have their
types and that there are finitely many of what the code counts or numbers. In particular they
hold for any number of concurrent requests. A theorem that needs more says so as a hypothesis of its own; each such
hypothesis is one that TLC shows to be needed, and that the configuration of a run satisfies.

### PipelineProofs

| Theorem | States |
| --- | --- |
| `TypeCorrect` | `Spec => []TypeOK` |
| `RowOrderHolds` | `Spec => []RowOrder` |
| `NeverIndexedInPart` | `Spec => []IndexedComplete` |
| `DeletedLeavesNothing` | `Spec => []DeletedStaysEmpty` |
| `OldVersionStays` | `Spec => IndexedLeavesByOwnWork` |
| `NoneLeftExtracting` | `~Faults` implies `Spec => []ExtractingIsWorkedOn` |
| `SupersededStaysInert` | `Alone` implies `Spec => []SupersededInert` |
| `ImplementsDocIndexHolds` | `Alone` and `DirectOps = {}` imply `Spec => ImplementsDocIndex` |

`IndexedComplete` is not inductive: an indexer that found all embeddings complete writes none and commits INDEXED
later, so one must know that they still are. The inductive invariant is `TypeOK /\ RowOrder /\ IndexedComplete`.
`RowOrder` says that from its first flush to its end a transaction holds the row of its version, that it never counts
its own version among the siblings to supersede, and that once past the embeddings either it holds the chunk rows or
they are complete. Whoever commits a change to the chunks of a version must be able to write the row of that version,
so `RowOrder` is preserved by all other transactions. That lock is taken because INDEXING is flushed before the
embeddings are looked up; the mutant `IndexLock_NoFlush` is the code without that flush, and it breaks.

`Alone` says that there is one request at a time. A superseded version is then inert: what a sweep has read to
supersede is what the statuses still are (`SweepCurrent`), and embeddings that belong to an indexed corpus have its
chunks (`EmbeddingsFollow`). With two requests the property is false: TLC finds a request that resumes what the other
supersedes, even when no two requests process one version. For the refinement, the abstract index must see a step of
the program exactly when search does. `Numbered` says that the versions there are are those up to the current one,
`InTurn` that the request processes a version that is not indexed, with nothing newer begun; then the commit that
indexes a version is the one step that replaces what is searchable (`StepIndex`). Reindexing and
resuming are left out because they make an old version searchable by intention.

### LexicalCacheProofs

| Theorem | States |
| --- | --- |
| `LexicalTypeCorrect` | `Spec => []TypeOK` |
| `LiveSizeHolds` | `Spec => []AnswerHasLiveSize` |
| `FreshnessHolds` | one searcher, one indexer, no filter, no withdrawal and no fault imply `Spec => []FreshWhenQuiet` |

For the size: each cache entry has the number of chunks that is its key (`Sized`), and the number of rows a search
holds is a key (`RowsSize`). For freshness the invariant adds what a search in flight may still write
(`Guarded`): when no indexing run is under way and a search holds rows that are as many as the live ones but others,
the file holds the live corpus and stops it from caching them; and that an indexing run that has read its rows has
read the live ones (`PersistFresh`).

### FolderTreeProofs

| Theorem | States |
| --- | --- |
| `NoOrphansHolds` | `Spec => []NoOrphans`, whatever requests meet |
| `PathsDerivedHolds` | `Alone` and `Separate` imply `Spec => []PathsDerived` |
| `SiblingNamesUniqueHolds` | `Alone` and `Separate` imply `Spec => []SiblingNamesUnique` |
| `NoCycleHolds` | `Alone` and `Separate` imply `Spec => []NoCycle` |
| `ImplementsForestHolds` | `Alone` and `Separate` imply `Spec => ImplementsForest` |

`Alone` says that there is one request, `Separate` that no name begins with another (section 8 shows what happens
without either). No orphans: the foreign keys are enough. For the rest the invariant is `InOrder`: the path of each
folder is that of its place and one name more, and its depth one less than the length (`Tree`); no two folders have one
path (`OnePath`); and what a request has read is what is there (`InSync`). The handlers search by path, `Forest` speaks
of parents, so the heart of the proof is that the two agree: the folders whose path begins with that of `f` are those
below `f` (`Sub(f) = Below(f)`). One direction follows a path down to its place, by induction on its length
(`LeastLength`: of any set of paths there is a shortest); the other needs that every beginning of a path is the path of a folder. That a moved subtree
collides with nothing follows from the name check at its new place alone.

### CatalogProofs

| Theorem | States |
| --- | --- |
| `TypeCorrect` | `Spec => []TypeOK` |
| `LatestIsCurrent` | `Spec => []CurrentIsLatest` |
| `NothingLeft` | `Spec => []DeletedKbEmpty` |
| `VersionsStay` | `Spec => VersionsKept` |
| `FilesStay` | `OneCompletion` implies `Spec => []FilesIntact` |
| `CountCorrect` | `CountersAlone` implies `Spec => []CountExact` |

All of them hold for any folders, creations in them and moves. What is not claimed of documents that were moved across
the edge of a folder under deletion is said in the properties themselves (`strays`). One bound is part of the model and
so of the theorems: an upload is not bound anew to a document while a request is about to delete the file of its former
version (`Unlisted`; the code's file keys name the version, the model's the upload).

`Base` is the inductive invariant of the first four (`AlwaysBase`). That the current version is the latest needs
`NumberBounded`: the number a request has read is at most one more than the versions there are by now. The unique
constraint leaves only that one, so numbers get no gap. It also needs that versions and current versions are of
documents that are there, so that a new document starts without any. Even the types rest on it: the next number is
the maximum of the numbers plus one.

For the files, `Kept` says what the requests under way have stored or will delete. `Completers`: whoever completes an
upload is the only one, its upload is not complete, and what it has stored stays. `Binders`: a request for a version
holds the content its hash was computed of. `Cleaners`: the files a deletion will delete belong to uploads and versions
that its own commit makes go, or that are gone, and nothing comes back (`GoneForGood`). For the counter, `Counters`
says that the one request that changes it has read it as it still is. The two assumptions are needed: TLC refutes both
invariants without them (section 8).

### GenerationProofs

| Theorem | States |
| --- | --- |
| `TurnsAreKept` | `Spec => []TurnKeptWhole` |
| `AnswersFollow` | `Spec => []AnswerFollowsQuestion` |
| `TurnsAfterTheirHistory` | `Spec => []AfterItsHistory` |
| `WorkspacesStayApart` | `Spec => []WorkspacesApart` |

The inductive invariant `IInv` adds to the properties: `Odd`, the number a turn has read is odd, which holds because
messages come in pairs and deletions take conversations whole; `Bounded`, there is a last number at all; `HistoryEarlier`
and `NumberAfter`, the history was there before the number was read, and messages do not come back; `OwnConversation`,
a conversation is inserted once, and one that was found keeps its workspace; `DeletionsOwn`, a deletion has listed
messages of its own knowledge base. That the maximum of the numbers is even is where pairs, numbers and deletions
meet: the last message of a conversation is an answer, because an answer stays with its question.

### ReadinessProofs

| Theorem | States |
| --- | --- |
| `ReadinessTypes` | `Spec => []Types` |
| `AnswersNameTheirModelHolds` | `Spec => []AnswersNameTheirModel` |
| `ReadyIsTrueHolds` | `~MayBeEmpty` implies `Spec => []ReadyIsTrue` |

`Answering` says that while a chat waits, the server serves and the model asked is the one selected; the heart is that
a probe selects a model only where none was (`MoveKeepsSelected`), so no probe takes it from under a chat. For
`ReadyIsTrue` the invariant `Seen` follows a probe that has not failed: what it has checked, and what works now, is in
`held`, where the model collects what was seen at work since the probe began (`CheckSees`). Probes share the probe file
and the selection, so this is per probe and in any interleaving of them with changes of the world. The hypothesis is
needed: without a model the listing passes while the language model is not at work (section 8).

### OperationsProofs

| Theorem | States |
| --- | --- |
| `CleanExitHolds` | `Spec => []CleanExit` |
| `RowsTrueHolds` | `Spec => []RowsTrue` |
| `ShownWholeHolds` | `Distinct` implies `Spec => []ShownWhole` |
| `PagesCompleteHolds` | `Spec => []Listings!PagesComplete`, for input of that part |
| `TreeCompleteHolds` | `Spec => []Listings!TreeComplete`, for input of that part |
| `ListingsCompleteHolds` | `Spec => []ListingsComplete` |
| `ConfigurationSoundHolds` | `Spec => []ConfigurationSound` |
| `MetricsSoundHolds` | `Spec => []MetricsSound` |
| `EvidenceSoundHolds` | `Spec => []EvidenceSound` |
| `SplitCoversHolds` | `Spec => []SplitCovers` |

`Spec` here is that of `OperationsMC`, whose parts do not touch one another (`Apart`), so each part has an invariant of
its own.

* Launcher: `ShutdownInOrder`. A shutdown that no signal has cut short has dealt with the servers it has passed, the
  frontend before the backend, and with docker compose before the exit; unless a `docker compose up` still goes on, no
  service appears after that. The mode it was started in, the step a signal
  meets it at and the order in which servers die by themselves are all arbitrary.
* Upload drawer: `LoopsInOrder` (a loop is at a row it has taken, and comes to no row twice), `VersionsShown` (what a
  loop has made and heard of is complete, about to be, or another's as well) and `RowsBacked`. Loops overlap, as many as
  there are; that a row may be shared by two of them is what the code allows and why the property speaks of a version
  that is the loop's alone.
* Evaluation: `RunsApart`, `SummaryLast` and `ReaderHolds`. The summary is the last file of a run, so where it stands the
  others are whole; a reader keeps from each directory one run's items although it reads them one by one. `Distinct`
  says that two runs have two experiments, and without it the property is false (section 8).
* Listings: `Ranked`. A document that nobody wrote and that is not shown yet has as many newer ones in the folder as
  were on the pages before, because whoever is newer stays newer while nobody leaves and no times tie; and the place of a
  document in the order is one more than the number of those (`PlaceInListing`, a bijection). So it is on the next page or
  a later one, and the count says that there is one. `Undisturbed` says that without writes the pages are the beginning of
  the listing.
* Listings, the tree: the ancestors of a folder are a chain that satisfies a fixpoint equation (`ChainOf`, in place of
  a recursive definition), and ranks that fall along it show that no move closes a cycle (`ForestKeeps`). The reader
  keeps a list of visits still to make. `VisitRight`: a visit knows its folder's parent and level; `OnItsWay`: a folder
  that nobody moved, nor any above it, is shown once, or exactly one visit will come to it; `Untouched`: what nobody
  wrote is where it was when the reader began. A folder moved while it is read may be missed or shown twice, and the
  property does not speak of it.
* The algorithms: their theorems in `PartsProofs` are about every input; here they are applied to those the run tries
  (`Tried...`).

### PartsProofs

These theorems are about operators, not behaviours, and hold of every input of the kind they name, of any size. They
rest on lemmas about sums over finite sets, sorting, chains and folds, which come first in the module.

| Theorem | States |
| --- | --- |
| `ValidStartsHolds` | what validation accepts starts, in every environment, unless it names a synchronous database driver |
| `AliasesAgreeHolds` | `echo` and `http` mean `mock` and `api`, and a variable with an old name stands in for one that is absent or empty, in every environment |
| `MetricsAgreeHolds` | `MetricsAgree`, for any list of outcomes over a finite set of chunks |
| `BetterStillPassesHolds` | `BetterStillPasses`, for any list of outcomes over a finite set of chunks and any thresholds of at most one |
| `SelectionSoundHolds` | `SelectionSound`, for any query and any hits |
| `FirstHitSufficesHolds` | `FirstHitSuffices`, if no hit scores above the first |
| `FusionFairHolds` | `FusionFair`, for any two channels of at most 900 chunks each |
| `NoLeapfrogHolds` | `NoLeapfrog`, for any blended scores |
| `RetrieveSoundHolds` | all that is claimed of a search, for any query of one line and any chunks indexed as at most twelve pieces |
| `SplitCoversText` | `ChunksCover`, for every text and any lengths, with a chunk of at least one character |

* `BetterStillPasses`: an error leaves every denominator, so a question answered instead of raising one enters the
  means with a one (`MeanMore`); above a threshold of one the claim is false. The model counts precision in
  sixths of a chunk, which is exact for up to three chunks.
* `SelectionSound`: an anchor (the best chunk) is relevant or nothing is selected, and support is taken only next to
  an anchor (`SelectionParts`). `FirstHitSuffices` needs its hypothesis: a retrieval score counts as a share of the best
  one, and a first hit that is not the best may fall below the threshold.
* `FusionFair`: a vote is a quotient that falls strictly with the rank as long as millionths can tell (`VotesFall`, up
  to rank 900; the code's pool is far smaller), so a higher sum needs a better rank in one of the channels.
* `NoLeapfrog`: bonuses add up to at most 180 and penalties to at most 100 thousandths.
* `RetrieveSound`: the weight of a word that is in some piece is positive (`IdfBounds`), so is the BM25 score of a
  chunk that has it (`OkapiTells`), so the chunk is in the lexical channel. The bound of twelve pieces is that of the
  model's table of logarithms; the corpora tried stay below it (`IndexSmall`).
* `SplitCovers`: what each pass of the splitter hands to the next is said once, for any text. The units of the blocks,
  and still what coalescing leaves of them, follow one another and hold all the ink (`AreUnits`, `CoalesceAre`). A break
  is behind the cursor and within reach (`BreakIs`), wherever sentences end and however large the overlap, so cutting a
  long span ends and leaves nothing out (`Cuts`, `SplitSpanCuts`). While units are merged, the ink before the end of the
  buffer is in a span or in the buffer (`Buffer`), and joining a short tail keeps that because the last span is behind
  all others (`TailJoined`). A consequence: the fallback at the end of `split_persian_document` (`if not pieces`,
  `splitter.py:139`), which would return the whole text as one chunk, is never needed.
* Configuration: no state, but a statement about every environment there can be rather than the ones the run tries;
  `TriedEnvironments` says that those are among them.

### Only model-checked

Liveness (`EveryRequestAnswered`, `EveryTurnEnds`, `LauncherEnds`, `Recovers`), which is beyond the prover. Of the
algorithms, `PromptFaithful`, `TextNormal` and `PdfRead`: each is a chain of passes over a text that hold for the texts
tried, and what each pass leaves of every text has not been stated.

## 7. Findings

The code does something else than its documentation says. One is a run:

* **Deleting a folder deletes its sibling** (`folder_delete_sibling`). `LIKE '/a%'` (`repositories/folder.py:105`)
  finds `/ab` too, with the documents in it. `specs/001-knowledge-management/DATABASE.md:230` promises the subtree.

Three more are as deep; how to reproduce them is in the first rows of section 8.

* **An older version replaces a newer one** (`SupersededByNewer`). Versions 1 and 2 are processed at the same time
  and 1 ends last. `_supersede_prior_versions` (`indexing/service.py:435`) takes every sibling that is INDEXED or
  CHUNKED, whatever its number, so 2 becomes SUPERSEDED, and `process_document` refuses it from then on.
  `specs/004-embeddings/SPEC.md:266` says `indexed -> superseded` on "Newer version indexed".
* **Two versions are searchable** (`OneSearchableVersion`). A request for version 2 has read CHUNKED; version 1,
  indexed meanwhile, makes 2 SUPERSEDED. Version 3 then lists the siblings to supersede
  (`indexing/service.py:428`): 1 is one, 2 is not. The request for 2 still commits INDEXED, and 3, which waited for the
  rows of 1, commits too and leaves 2 INDEXED. `specs/005-retrieval/SPEC.md:372` says "only B's chunks appear; A's
  chunks are never returned".
* **A search limited to a document is given the index of another one** (`FilterRespected`). The process cache is keyed
  by the number of chunks the filters matched (`retrieval/lexical_index.py:86`), and `retrieve` takes its lexical hits
  from the index found without filtering them again. `specs/005-retrieval/SPEC.md:360`: "all results reference D1
  only".

## 8. Known counterexamples

Stated in the modules and false of the code. To reproduce one, put it in place of the properties of the configuration
named and change it as said.

| Property | Configuration | Change | What happens |
| --- | --- | --- | --- |
| `Pipeline!SupersededByNewer` | `PipelineConcurrent` | `Faults = FALSE`, `DirectOps = {}` | section 7 |
| `Pipeline!OneSearchableVersion` | `PipelineConcurrent` | the same, `MaxVersion = 3`, `OneJobPerVersion = TRUE` | section 7, although no two requests process one version |
| `LexicalCache!FilterRespected` | `LexicalAny` | none | section 7 |
| `Pipeline!IndexedOnlySuperseded` | `PipelineConcurrent` | `MaxVersion = 1`, `Faults = FALSE`, `DirectOps = {}` | of two requests for one version, the one that read the status first un-indexes what the other has indexed |
| `LexicalCache!NeverSuperseded` | `LexicalQuiet` | none | between the commit of a new version and the refresh, the cache of the same size answers with the old version |
| `LexicalCache!FreshWhenQuiet` | `LexicalQuiet` | two indexers, or two searchers | the older of two corpora is written last and stays |
| `LexicalCache!FreshWhenQuiet` | `LexicalAny` | none | the cache of a filtered search has the size of the corpus and other chunks; or a document is archived and another restored, and no cache is told |
| `LexicalCache!FileNeverFails` | `LexicalAny`, as `PROPERTY` | none | a side file cut inside a character is no text: `UnicodeDecodeError` is not among what `_load_side_file` expects (`lexical_index.py:224`), and unfiltered searches fail until the next indexing run replaces the file; `lexical_index.py:99` promises the live chunks |
| `FolderTree!PathsDerived` | `FolderOneAtATime` | `Extends <- OneExtends` | moving `/a` rewrites the path of its sibling `/ab` |
| `FolderTree!NoCycle`, `SiblingNamesUnique`, `PathsDerived` | `FolderConcurrent` | `Names = {a, ab}` | two moves put folders into each other; two folders of one name are created in the root, whose NULL parent the unique constraint does not compare; a subtree is moved from under another move |
| `FolderTree!ContentKept` | `FolderConcurrent` | one request suffices | a document loses its versions to the deletion of a folder it has left since the deletion listed its documents |
| `Catalog!NoNumberConflict` | `CatalogConcurrent` | none | of two concurrent versions of a document one is refused by the unique constraint; `ACCEPTANCE.md:241` promises both |
| `Catalog!Deletable` | `CatalogConcurrent` | one request | a version of one document is made of an upload started for another, which then can never be deleted |
| `Catalog!ActiveHasVersion` | `CatalogConcurrent` | one request | a DRAFT without version is archived and restored, and is ACTIVE |
| `Catalog!VersionsOfOthersKept` | `CatalogConcurrent` | one move | a folder deletion deletes the versions of a document that has left the folder since it was listed; the document stays, and its current version is one that is gone |
| `Catalog!CountExact` | `CatalogConcurrent` | `CountersAlone = FALSE` | concurrent creations lose an increment |
| `Catalog!FilesIntact` | `CatalogConcurrent` | `OneCompletion = FALSE` | two completions of an upload with different content of the same length: the file of one, the checksum of the other |
| `Readiness!ReadyIsTrue` | `Readiness` | `MayBeEmpty = TRUE` | a server reports ready although Ollama has no model that could answer |
| `Launcher!CtrlCStopsServers` | `Operations` | none | a Ctrl+C between the start of a server and its assignment leaves it running; `docs/FIRST_RUN.md:26` says otherwise |
| `Launcher!CtrlCStopsServices` | `Operations` | none | a Ctrl+C during `docker compose up`: the command goes on while the handler runs `docker compose down`, and brings services up after it |
| `Evaluation!NewestListed` | `Operations` | none | a listing takes the first directories in the order of their names and sorts these by date (`evaluation/service.py:190`) |
| `Evaluation!ShownWhole` | `Operations` | `Distinct = FALSE` | two runs given the name of one experiment mix their files; `specs/007-evaluation-framework/EXPERIMENTS.md:61` calls a configuration immutable |
| `Listings!PagesCompleteAlways` | `Operations` | none | a document is missed when another leaves an earlier page, when the folder has grown after its count, or when times tie |
| `Listings!SearchComplete` | `Operations` | none | a search reports the length of its page as the total (`query_handlers.py:238`), so no second page is asked for |
| `Listings!DepthIsLevels` | `Operations` | none | the tree shows one level more than the depth asked for |
| `PartsMC!AnswerNoEcho` | `Operations` | none | a reply that is the question and nothing else is long enough to be returned as the answer (`citations.py:101`), against `service.py:255` and `docs/backend/RAG_GENERATION.md:109` |
| `PartsMC!SplitInOrder` | `Operations` | none | a chunk with overlap may begin before the one it follows in number (`splitter.py:432`); `specs/003-chunking/SPEC.md:246` excludes it |
| `PartsMC!ValidWorks` | `Operations` | none | valid, and fails later: a database URL with a synchronous driver, an evaluation directory that is not writable, `EMBEDDING_DIMENSIONS` other than 1024, a default top-k above 50 |
| `PartsMC!NormalizationCounts` | `Operations` | none | a blank `OPENAI_BASE_URL` beside `LLM_BASE_URL`, or a blank `LLM_MODEL_KEY`, is refused: what `_normalize_llm_settings` writes for them goes under the names of fields that are read by their alias (`settings.py:105`); `settings.py:211` and `docs/backend/OLLAMA.md:47` say that an empty key means auto |
| `PartsMC!HalfSpacesAmongControls` | `Operations` | none | a half-space between two letters with a control character beside it is lost, because it is judged before that is removed; `normalization.py:69` says that none is dropped |
| `PartsMC!QuestionsApart` | `Operations` | none | a block that begins with a question and goes on with its answer is joined to a sentence that has not ended in the block before (`pdf.py:452` looks at the last line of the block only); `pdf.py:428` promises to preserve questions |
| `PartsMC!Idempotent` | `Operations` | none | normalizing once may expose what a second time removes; `normalization.py:3` says otherwise |
| `PartsMC!BlocksOnce` | `Operations` | none | a narrow block in the centre of a page of two columns is in both, and read twice |
| `UploadDrawer!UploadedOnce` | `Operations` | none | a cancelled loop ends late, resets `running` while a second loop is at work, and a third takes the rows the second has captured |
| `UploadDrawer!CancelStops` | its own `Spec`, `Rows` and `Loops` 1 to 3 | | for the same reason "Cancel all" leaves a loop at work |
| `Answering!ShownInFull`, `MarkersKnown` | `Operations`, of `result[1]` as `AnswerNoEcho` | none | excerpts are cut in the prompt; an answer keeps markers for which there is no citation |

Smaller things seen on the way, of which no property speaks: a metric without denominator skips its gate; a question
without expected chunks lowers groundedness; on pages of four lines or fewer all lines are margin, and page numbers all
have the key `#`. Archiving a knowledge base archives every folder, and no handler restores them
(`command_handlers.py:687`). A run that ended late marks as failed what another request has set since
(`indexing/service.py:461`, part of `IndexMarkFailed`). Names with `/`, `%` or `_` are not escaped.

## 9. Not modelled

`PROJECT.json` lists every part with its reason. The error mapping, middleware, logging, CQRS protocols and migrations
have no state that other parts depend on; the constraints of the schema are used where a module needs them. The Persian
RAG benchmark measures the services and is no part of the program. Parsers other than PDF hand the file to a library.
Vectors are given as cosines.

Of the front end, the chat and the processing panel are left out. What could go wrong there (the browser's Back keeps
the pane with the messages of another conversation; a late mutation of the panel writes to the document selected since)
depends on the order in which React and its router commit updates, which the code here does not determine, and on
their `lib` directories, which are not in the repository.

Within the modules: names and metadata of documents and knowledge bases, optimistic version checks
(`expected_version`, compared with what was read and not at the commit), legal holds (no code sets one), several
knowledge bases at once in `Catalog`, archived folders in `FolderTree`, the batches of one indexing run, files that no
row has ever named, how a storage key becomes a path, and of `Answering` the headings.

## 10. Plan

Done: every part with state of its own on the server, the launcher, the upload drawer, and the algorithms between them;
proofs of the safety properties of `Pipeline`, `LexicalCache`, `FolderTree`, `Catalog`, `Generation`, `Readiness`,
`Launcher`, `Evaluation`, `UploadDrawer`, `Listings`, `Configuration`, `Metrics`, `Evidence`, `Retrieval` and
`Splitter`. What could follow:

1. `IndexRun`: the batches of one indexing run, their splitting, retries and the skipping of embedded chunks
   (`indexing/service.py` 300-417), shown to implement the all-or-nothing step of `Pipeline`.
2. The composition of `Pipeline` and `LexicalCache`: several versions, the window between commit and refresh, and the
   statuses a search sees.
3. Proofs about the remaining algorithms (`Answering`, `Normalization`, `Pdf`).
4. The chat and the processing panel, once their library code is in the repository.
