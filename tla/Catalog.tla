------------------------------ MODULE Catalog ------------------------------
(***************************************************************************)
(* One knowledge base, its documents, the uploads and versions of these,   *)
(* and the stored files, as the handlers of                                *)
(* knowledge/handlers/command_handlers.py change them.                     *)
(*                                                                         *)
(* A handler that stores files, or writes what it computed from rows read  *)
(* earlier, is under way for several steps: it reads, it stores, it        *)
(* commits, it deletes files.  The checks at its commit are those of the   *)
(* database (foreign keys, unique constraints, rows that are gone), which  *)
(* let it fail as a whole.  The other handlers only set a status that does *)
(* not depend on one read before, and are one step.                        *)
(*                                                                         *)
(* How folders are nested belongs to FolderTree: here a folder is deleted   *)
(* with any others that are there, and neither archived nor created.       *)
(* An upload makes one version at a time, so a version is named by its     *)
(* upload, and its file by upload and document.                            *)
(***************************************************************************)
EXTENDS Integers, FiniteSets, FiniteSetsExt

CONSTANTS
    Docs, Uploads, Contents,
    Folders, Entries,  \* folders, and those that documents are created in
    Requests,
    NoDoc, NoUpload, NoContent, NoVersion, NoFolder,
    CountersAlone,   \* document_count is changed by one request at a time
    FreeMoves,       \* documents are moved at any time, not one of them once
    OneCompletion,   \* an upload is completed by one request at a time
    Faults           \* requests die, and stored files cannot be deleted

ASSUME CatalogAssumption ==
    /\ IsFiniteSet(Docs) /\ IsFiniteSet(Uploads)
    /\ NoVersion \notin [doc : Docs, number : Nat, hash : Contents]
    /\ NoFolder \notin Folders /\ Entries \subseteq Folders \cup {NoFolder}
    /\ NoDoc \notin Docs /\ NoUpload \notin Uploads /\ NoContent \notin Contents
    /\ CountersAlone \in BOOLEAN /\ FreeMoves \in BOOLEAN
    /\ OneCompletion \in BOOLEAN /\ Faults \in BOOLEAN

VARIABLES
    kb,                \* status of the knowledge base: DRAFT and ACTIVE are open
    count,             \* its document_count
    status, current,   \* per document: status, version that is current
    folder,            \* per document: the folder it is in
    folders,           \* the folders that are there
    strays,            \* documents moved across the edge of a folder under deletion
    session, about,    \* per upload: status, document it was started for
    digest,            \* per upload: checksum_sha256
    version,           \* per upload: the version made of it
    staged,            \* per upload: content of its staging file
    stored,            \* files of versions: <<upload, document, content>>
    todo               \* per request: what it has read and will do

places == <<folder, folders, strays>>
documents == <<status, current, places>>
uploads == <<session, about, digest>>
files == <<staged, stored>>
vars == <<kb, count, documents, uploads, version, files, todo>>

Idle == [kind |-> "idle"]

Init ==
    /\ kb = "open"
    /\ count = 0
    /\ status = [d \in Docs |-> "unborn"]
    /\ current = [d \in Docs |-> NoUpload]
    /\ folder = [d \in Docs |-> NoFolder]
    /\ folders = Folders
    /\ strays = {}
    /\ session = [u \in Uploads |-> "none"]
    /\ about = [u \in Uploads |-> NoDoc]
    /\ digest = [u \in Uploads |-> NoContent]
    /\ version = [u \in Uploads |-> NoVersion]
    /\ staged = [u \in Uploads |-> NoContent]
    /\ stored = {}
    /\ todo = [r \in Requests |-> Idle]

Open == {"draft", "active"}
Here(d) == status[d] \in {"draft", "active", "archived"}
Present == {d \in Docs : Here(d)}
InFolders(fs) == {d \in Present : folder[d] \in fs}
Known(u) == session[u] \in {"pending", "completed", "expired"}
Versions(ds) == {u \in Uploads : version[u] # NoVersion /\ version[u].doc \in ds}

Begin(r, command) ==
    /\ todo[r] = Idle
    /\ todo' = [todo EXCEPT ![r] = command]

Continue(r, command) == todo' = [todo EXCEPT ![r] = command]
End(r) == Continue(r, Idle)

\* Nothing is committed.
Fails(r) == End(r) /\ UNCHANGED <<kb, count, documents, uploads, version, files>>

-----------------------------------------------------------------------------
(* Statuses *)

ArchiveKnowledgeBase ==
    /\ kb = "open"
    /\ kb' = "archived"
    /\ status' = [d \in Docs |-> IF status[d] \in Open THEN "archived" ELSE status[d]]
    /\ UNCHANGED <<count, current, places, uploads, version, files, todo>>

RestoreKnowledgeBase ==
    /\ kb = "archived"
    /\ kb' = "open"
    /\ UNCHANGED <<count, documents, uploads, version, files, todo>>

ArchiveDocument(d) ==
    /\ status[d] \in Open
    /\ status' = [status EXCEPT ![d] = "archived"]
    /\ UNCHANGED <<kb, count, current, places, uploads, version, files, todo>>

\* The folder of a document, which the handler asks for, is there.
RestoreDocument(d) ==
    /\ status[d] = "archived"
    /\ status' = [status EXCEPT ![d] = "active"]
    /\ UNCHANGED <<kb, count, current, places, uploads, version, files, todo>>

\* d leaves, or enters, a folder that a request has begun to delete.
Strays(d, f) ==
    \E r \in Requests : /\ todo[r].kind = "delete"
                        /\ (folder[d] \in todo[r].folders) # (f \in todo[r].folders)

\* MoveDocumentHandler.
MoveDocument(d, f) ==
    /\ status[d] \in Open
    /\ f \in folders \cup {NoFolder}
    /\ FreeMoves \/ (Strays(d, f) /\ strays = {})
    /\ folder' = [folder EXCEPT ![d] = f]
    /\ strays' = IF Strays(d, f) THEN strays \cup {d} ELSE strays
    /\ UNCHANGED <<kb, count, status, current, folders, uploads, version, files, todo>>

-----------------------------------------------------------------------------
(* CreateDocumentHandler *)

MayCount == CountersAlone => \A r \in Requests : todo[r].kind \notin {"create", "delete"}

BeginCreate(r, f) ==
    /\ kb = "open"
    /\ f \in Entries \cap (folders \cup {NoFolder})
    /\ \E d \in Docs : status[d] = "unborn"
    /\ MayCount
    /\ Begin(r, [kind |-> "create", count |-> count, folder |-> f])
    /\ UNCHANGED <<kb, count, documents, uploads, version, files>>

Create(d, f) ==
    /\ status[d] = "unborn"
    /\ status' = [status EXCEPT ![d] = "draft"]
    /\ folder' = [folder EXCEPT ![d] = f]

\* Mutant: no foreign key to the knowledge base.
CommitCreate_Unchecked(r) ==
    /\ todo[r].kind = "create"
    /\ \E d \in Docs : Create(d, todo[r].folder)
    /\ count' = todo[r].count + 1
    /\ End(r)
    /\ UNCHANGED <<kb, current, folders, strays, uploads, version, files>>

\* Foreign keys to the knowledge base and the folder.
CommitCreate(r) ==
    LET allowed == kb # "gone" /\ todo[r].folder \in folders \cup {NoFolder} IN
    /\ todo[r].kind = "create"
    /\ \/ /\ allowed
          /\ \E d \in Docs : Create(d, todo[r].folder)
          /\ count' = todo[r].count + 1
          /\ End(r)
          /\ UNCHANGED <<kb, current, folders, strays, uploads, version, files>>
       \/ ~allowed /\ Fails(r)

-----------------------------------------------------------------------------
(* Uploads *)

\* InitiateUploadHandler: that the document exists is left to its foreign key.
InitiateUpload(u, d) ==
    /\ session[u] = "none"
    /\ kb = "open"
    /\ d = NoDoc \/ (d \in Docs /\ Here(d))
    /\ session' = [session EXCEPT ![u] = "pending"]
    /\ about' = [about EXCEPT ![u] = d]
    /\ UNCHANGED <<kb, count, documents, digest, version, files, todo>>

\* CompleteUploadHandler, too late; it may have found the upload pending and another
\* request have completed it since.
ExpireUpload(u) ==
    /\ session[u] = "pending" \/ (session[u] = "completed" /\ ~OneCompletion)
    /\ session' = [session EXCEPT ![u] = "expired"]
    /\ UNCHANGED <<kb, count, documents, about, digest, version, files, todo>>

Completing(u) == {r \in Requests : todo[r].kind \in {"complete", "completed"} /\ todo[r].upload = u}

BeginComplete(r, u, c) ==
    /\ session[u] = "pending"
    /\ OneCompletion => Completing(u) = {}
    /\ Begin(r, [kind |-> "complete", upload |-> u, content |-> c])
    /\ UNCHANGED <<kb, count, documents, uploads, version, files>>

StoreStaged(r) ==
    /\ todo[r].kind = "complete"
    /\ staged' = [staged EXCEPT ![todo[r].upload] = todo[r].content]
    /\ Continue(r, [kind |-> "completed", upload |-> todo[r].upload, content |-> todo[r].content])
    /\ UNCHANGED <<kb, count, documents, uploads, version, stored>>

\* A session that has expired meanwhile is completed all the same.
CommitComplete(r) ==
    LET u == todo[r].upload IN
    /\ todo[r].kind = "completed"
    /\ \/ /\ Known(u)
          /\ session' = [session EXCEPT ![u] = "completed"]
          /\ digest' = [digest EXCEPT ![u] = todo[r].content]
          /\ End(r)
          /\ UNCHANGED <<kb, count, documents, about, version, files>>
       \/ ~Known(u) /\ Fails(r)

-----------------------------------------------------------------------------
(* UploadDocumentVersionHandler *)

Numbers(d) == {version[u].number : u \in Versions({d})}

\* next_version_number
NextNumber(d) == Max(Numbers(d) \cup {0}) + 1

\* The upload may have been started for another document.
BeginBind(r, u, d) ==
    /\ status[d] \in Open
    /\ session[u] = "completed"
    /\ version[u] = NoVersion
    /\ staged[u] # NoContent
    /\ Begin(r, [kind |-> "bind", upload |-> u, doc |-> d, content |-> staged[u],
                 hash |-> digest[u], number |-> NextNumber(d), draft |-> status[d] = "draft"])
    /\ UNCHANGED <<kb, count, documents, uploads, version, files>>

\* Mutant: no unique constraint on document and number.
NumberFree_Always(d, n) == TRUE

\* uq_document_version_number.
NumberFree(d, n) == n \notin Numbers(d)

\* No request is about to delete files of a version of d made of u.  (A bound: an
\* upload may be bound again to a document that has lost its versions, and the
\* file would have another key.)
Unlisted(u, d) ==
    \A q \in Requests :
        todo[q].kind \in {"delete", "deletekb", "clean"} => <<u, d>> \notin todo[q].stored

\* The file, under a key of its own, was stored before, and stays if this fails.
CommitBind(r) ==
    LET t == todo[r]
        allowed == /\ Here(t.doc) /\ Known(t.upload)
                   /\ version[t.upload] = NoVersion /\ NumberFree(t.doc, t.number)
    IN
    /\ t.kind = "bind"
    /\ \/ /\ allowed /\ Unlisted(t.upload, t.doc)
          /\ version' = [version EXCEPT ![t.upload] =
                            [doc |-> t.doc, number |-> t.number, hash |-> t.hash]]
          /\ stored' = stored \cup {<<t.upload, t.doc, t.content>>}
          /\ current' = [current EXCEPT ![t.doc] = t.upload]
          /\ status' = [status EXCEPT ![t.doc] = IF t.draft THEN "active" ELSE @]
          /\ End(r)
          /\ UNCHANGED <<kb, count, places, uploads, staged>>
       \/ ~allowed /\ Fails(r)

-----------------------------------------------------------------------------
(* DeleteDocumentHandler, DeleteFolderHandler, DeleteKnowledgeBaseHandler *)

StagedKeys(ds) == {u \in Uploads : Known(u) /\ about[u] \in ds}
StoredKeys(ds) == {<<u, version[u].doc>> : u \in Versions(ds)}

BeginDelete(r, ds, fs) ==
    /\ MayCount
    /\ Begin(r, [kind |-> "delete", docs |-> ds, folders |-> fs, count |-> count,
                 staged |-> StagedKeys(ds), stored |-> StoredKeys(ds)])
    /\ UNCHANGED <<kb, count, documents, uploads, version, files>>

BeginDeleteDocument(r, d) == Here(d) /\ BeginDelete(r, {d}, {})

\* A folder and its descendants, with the documents that are in these now.
BeginDeleteFolder(r, fs) == fs # {} /\ fs \subseteq folders /\ BeginDelete(r, InFolders(fs), fs)

\* Mutant: a folder counts as one document.
CountWithout_One(n, ds) == IF n > 0 THEN n - 1 ELSE 0

CountWithout(n, ds) == IF n > Cardinality(ds) THEN n - Cardinality(ds) ELSE 0

\* Mutant: versions go with the uploads of the documents.
Doomed_WithUploads(ds) == Versions(ds) \cup {u \in Uploads : about[u] \in ds}

\* The versions that are deleted with the documents ds.
Doomed(ds) == Versions(ds)

Clean(r) == [kind |-> "clean", staged |-> todo[r].staged, stored |-> todo[r].stored]

\* The documents whose rows a deletion removes: those that are in the folders now,
\* whichever were listed, unless none was.
Leaving(t) ==
    {d \in Present : \/ t.folders = {} /\ d \in t.docs
                     \/ t.docs # {} /\ folder[d] \in t.folders}

\* The versions of the documents that were listed and the uploads started for these,
\* and the documents and folders.
RemoveDocuments(t) ==
    /\ version' = [u \in Uploads |-> IF u \in Doomed(t.docs) THEN NoVersion ELSE version[u]]
    /\ session' = [u \in Uploads |-> IF about[u] \in t.docs THEN "gone" ELSE session[u]]
    /\ about' = [u \in Uploads |-> IF about[u] \in t.docs THEN NoDoc ELSE about[u]]
    /\ digest' = [u \in Uploads |-> IF about[u] \in t.docs THEN NoContent ELSE digest[u]]
    /\ status' = [d \in Docs |-> IF d \in Leaving(t) THEN "gone" ELSE status[d]]
    /\ current' = [d \in Docs |-> IF d \in Leaving(t) THEN NoUpload ELSE current[d]]
    /\ folder' = [d \in Docs |-> IF d \in Leaving(t) THEN NoFolder ELSE folder[d]]
    /\ folders' = folders \ t.folders

\* Foreign key: no version made of an upload that goes may be left.
UploadsFree(ds) ==
    \A u \in Uploads : about[u] \in ds => version[u] = NoVersion \/ u \in Doomed(ds)

\* Foreign keys: a document goes only with its versions and uploads, a folder only
\* with its documents.
Removable(t) ==
    /\ UploadsFree(t.docs)
    /\ Versions(Leaving(t)) \subseteq Doomed(t.docs)
    /\ \A u \in Uploads : about[u] \in Leaving(t) => about[u] \in t.docs
    /\ InFolders(t.folders) \subseteq Leaving(t)

\* Mutant: the files are deleted in a finally block.
CommitDelete_CleansAnyway(r) ==
    LET t == todo[r] IN
    /\ t.kind = "delete"
    /\ \/ /\ Removable(t)
          /\ RemoveDocuments(t)
          /\ count' = IF kb = "gone" THEN count ELSE CountWithout(t.count, t.docs)
       \/ ~Removable(t) /\ UNCHANGED <<count, status, current, folder, folders, uploads, version>>
    /\ Continue(r, Clean(r))
    /\ UNCHANGED <<kb, strays, files>>

\* A knowledge base that is gone meanwhile leaves nothing to delete but files.
CommitDelete(r) ==
    LET t == todo[r] IN
    /\ t.kind = "delete"
    /\ \/ /\ Removable(t)
          /\ RemoveDocuments(t)
          /\ count' = IF kb = "gone" THEN count ELSE CountWithout(t.count, t.docs)
          /\ Continue(r, Clean(r))
          /\ UNCHANGED <<kb, strays, files>>
       \/ ~Removable(t) /\ Fails(r)

BeginDeleteKnowledgeBase(r) ==
    /\ kb # "gone"
    /\ Begin(r, [kind |-> "deletekb", staged |-> {u \in Uploads : Known(u)},
                 stored |-> StoredKeys(Docs)])
    /\ UNCHANGED <<kb, count, documents, uploads, version, files>>

\* Every row that belongs to the knowledge base when it is committed.
CommitDeleteKnowledgeBase(r) ==
    /\ todo[r].kind = "deletekb"
    /\ kb' = "gone"
    /\ count' = 0
    /\ version' = [u \in Uploads |-> NoVersion]
    /\ session' = [u \in Uploads |-> IF Known(u) THEN "gone" ELSE session[u]]
    /\ about' = [u \in Uploads |-> NoDoc]
    /\ digest' = [u \in Uploads |-> NoContent]
    /\ status' = [d \in Docs |-> IF Here(d) THEN "gone" ELSE status[d]]
    /\ current' = [d \in Docs |-> NoUpload]
    /\ folder' = [d \in Docs |-> NoFolder]
    /\ folders' = {}
    /\ Continue(r, Clean(r))
    /\ UNCHANGED <<strays, files>>

\* _best_effort_delete_files: a file that cannot be deleted stays.
DeleteFiles(r) ==
    /\ todo[r].kind = "clean"
    /\ staged' = [u \in Uploads |-> IF u \in todo[r].staged THEN NoContent ELSE staged[u]]
    /\ stored' = {f \in stored : <<f[1], f[2]>> \notin todo[r].stored}
    /\ End(r)
    /\ UNCHANGED <<kb, count, documents, uploads, version>>

-----------------------------------------------------------------------------
\* The worker dies, the database refuses, a file cannot be stored or deleted:
\* nothing else of the request happens.
RequestDies(r) ==
    /\ Faults
    /\ todo[r] # Idle
    /\ Fails(r)

Next ==
    \/ ArchiveKnowledgeBase \/ RestoreKnowledgeBase
    \/ \E d \in Docs : \/ ArchiveDocument(d) \/ RestoreDocument(d)
                      \/ \E f \in Folders \cup {NoFolder} : MoveDocument(d, f)
    \/ \E u \in Uploads :
          ExpireUpload(u) \/ \E d \in Docs \cup {NoDoc} : InitiateUpload(u, d)
    \/ \E r \in Requests :
          \/ \E f \in Entries : BeginCreate(r, f)
          \/ CommitCreate(r)
          \/ \E u \in Uploads, c \in Contents : BeginComplete(r, u, c)
          \/ StoreStaged(r) \/ CommitComplete(r)
          \/ \E u \in Uploads, d \in Docs : BeginBind(r, u, d)
          \/ CommitBind(r)
          \/ \E d \in Docs : BeginDeleteDocument(r, d)
          \/ \E fs \in SUBSET Folders : BeginDeleteFolder(r, fs)
          \/ CommitDelete(r)
          \/ BeginDeleteKnowledgeBase(r) \/ CommitDeleteKnowledgeBase(r)
          \/ DeleteFiles(r)
          \/ RequestDies(r)

Spec == Init /\ [][Next]_vars

-----------------------------------------------------------------------------
\* What a request may have read and will do.
Commands ==
    {Idle}
    \cup [kind : {"create"}, count : Nat, folder : Folders \cup {NoFolder}]
    \cup [kind : {"complete", "completed"}, upload : Uploads, content : Contents]
    \cup [kind : {"bind"}, upload : Uploads, doc : Docs, content : Contents,
          hash : Contents, number : Nat \ {0}, draft : BOOLEAN]
    \cup [kind : {"delete"}, docs : SUBSET Docs, folders : SUBSET Folders, count : Nat,
          staged : SUBSET Uploads, stored : SUBSET (Uploads \X Docs)]
    \cup [kind : {"deletekb", "clean"},
          staged : SUBSET Uploads, stored : SUBSET (Uploads \X Docs)]

\* The type invariant.
TypeOK ==
    /\ kb \in {"open", "archived", "gone"}
    /\ count \in Nat
    /\ status \in [Docs -> {"unborn", "draft", "active", "archived", "gone"}]
    /\ current \in [Docs -> Uploads \cup {NoUpload}]
    /\ folder \in [Docs -> Folders \cup {NoFolder}]
    /\ folders \subseteq Folders
    /\ strays \subseteq Docs
    /\ session \in [Uploads -> {"none", "pending", "completed", "expired", "gone"}]
    /\ about \in [Uploads -> Docs \cup {NoDoc}]
    /\ digest \in [Uploads -> Contents \cup {NoContent}]
    /\ version \in [Uploads -> [doc : Docs, number : Nat \ {0}, hash : Contents] \cup {NoVersion}]
    /\ staged \in [Uploads -> Contents \cup {NoContent}]
    /\ stored \subseteq Uploads \X Docs \X Contents
    /\ todo \in [Requests -> Commands]

\* "`version_number` increments by 1 with no gaps per document"
\* (specs/001-knowledge-management/DATABASE.md:265), and the current version is
\* the latest one, although requests read the next number before they store a
\* file of any size; not of a document that has left a folder under deletion.
CurrentIsLatest ==
    \A d \in Present \ strays :
        /\ Numbers(d) = 1 .. Cardinality(Versions({d}))
        /\ IF Versions({d}) = {} THEN current[d] = NoUpload
           ELSE /\ current[d] \in Versions({d})
                /\ version[current[d]].number = Cardinality(Versions({d}))

\* Every version has its file, with the content its hash was computed of, however
\* requests fail between storing, committing and deleting ("Content hash (SHA-256)
\* is stored per version", specs/001-knowledge-management/README.md:124), and so
\* has every completed upload.
FilesIntact ==
    \A u \in Uploads :
        /\ version[u] # NoVersion => <<u, version[u].doc, version[u].hash>> \in stored
        /\ session[u] = "completed" => staged[u] = digest[u]

\* document_count counts the documents, whatever else happens while a request
\* that changes it is under way, until a document is moved into a folder under
\* deletion or out of it.
CountExact == kb # "gone" /\ strays = {} => count = Cardinality(Present)

\* A deleted knowledge base leaves no row, also of requests that were under way.
DeletedKbEmpty ==
    kb = "gone" => /\ Present = {}
                   /\ \A u \in Uploads : ~Known(u) /\ version[u] = NoVersion

\* A version is never changed ("immutable", DATABASE.md:270), and goes only with
\* its own document, or is lost by one that was moved out of a folder while the
\* folder was being deleted: no other deletion takes it along.
VersionsKept ==
    [][\A u \in Uploads : version[u] # NoVersion /\ version'[u] # version[u] =>
          /\ version'[u] = NoVersion
          /\ status'[version[u].doc] = "gone" \/ version[u].doc \in strays]_vars

-----------------------------------------------------------------------------
(* What does not hold. *)

\* "exactly one receives version N and the other version N+1" (ACCEPTANCE.md:241):
\* no request for a version is refused because of another one's.
NoNumberConflict ==
    \A r \in Requests : todo[r].kind = "bind" => NumberFree(todo[r].doc, todo[r].number)

\* A document without legal hold can be deleted: nothing of another document
\* depends on its uploads.
Deletable == \A d \in Present : UploadsFree({d})

\* A document that is there keeps its versions.
VersionsOfOthersKept ==
    [][\A u \in Uploads : version[u] # NoVersion /\ version'[u] # version[u] =>
          status'[version[u].doc] = "gone"]_vars

\* A document becomes ACTIVE with its first version ("`draft` until first
\* successful index (or immediately `active` per policy)", WORKFLOWS.md:117).
ActiveHasVersion == \A d \in Docs : status[d] = "active" => Versions({d}) # {}
=============================================================================
