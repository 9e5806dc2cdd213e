----------------------------- MODULE FolderTree -----------------------------
(***************************************************************************)
(* The folders of one knowledge base and the documents in them, as the     *)
(* handlers of knowledge/handlers/command_handlers.py create, move and     *)
(* delete them.  A folder row holds its parent, and a path and a depth     *)
(* derived from it; the handlers find what is below a folder by its path.  *)
(*                                                                         *)
(* Each folder handler is a transaction at READ COMMITTED: it reads, in    *)
(* one step here, and commits in another what it computed from its reads.  *)
(* The handlers of documents are one step: what happens between their read *)
(* and their commit can only make the commit fail.                         *)
(*                                                                         *)
(* A path is the sequence of its names; LIKE 'prefix%' compares the last   *)
(* name of the prefix as text, for which Extends says which names begin    *)
(* with which.  Names hold no slash and no wildcard of LIKE, and all       *)
(* folders are ACTIVE: no handler archives one without its knowledge base. *)
(***************************************************************************)
EXTENDS Integers, Sequences, FiniteSets, SequencesExt

CONSTANTS
    Folders, Docs,
    Names,
    Extends,    \* <<n, m>>: the text of m begins with that of n
    MaxDepth,   \* MAX_FOLDER_DEPTH
    MaxPath,    \* names that fit in the column of the path
    Requests,   \* requests that may be under way at once
    Root,       \* parent_folder_id or folder_id is NULL
    Unborn, Gone

ASSUME FolderAssumption ==
    /\ Extends \subseteq Names \X Names
    /\ MaxDepth \in Nat \ {0} /\ MaxPath \in Nat
    /\ {Root, Unborn, Gone} \cap Folders = {}
    /\ Root # Unborn /\ Root # Gone /\ Unborn # Gone

VARIABLES
    parent, path, depth,   \* the folder rows
    place,                 \* per document: its folder_id
    content,               \* per document: it has versions
    todo,                  \* per request: its command, and Idle if none
    seen                   \* per request: the rows it has read

folders == <<parent, path, depth>>
documents == <<place, content>>
vars == <<folders, documents, todo, seen>>

Idle == [kind |-> "idle", folder |-> Root, to |-> Root, name |-> <<>>]
Now == [parent |-> parent, path |-> path, depth |-> depth, place |-> place]
Nothing == [parent |-> <<>>, path |-> <<>>, depth |-> <<>>, place |-> <<>>]

Here(f) == parent[f] \notin {Unborn, Gone}
IsPlace(p) == p = Root \/ (p \in Folders /\ Here(p))
Children(p) == {f \in Folders : parent[f] = p}

Init ==
    /\ parent = [f \in Folders |-> Unborn]
    /\ path = [f \in Folders |-> <<>>]
    /\ depth = [f \in Folders |-> 0]
    /\ place = [d \in Docs |-> Unborn]
    /\ content = [d \in Docs |-> FALSE]
    /\ todo = [r \in Requests |-> Idle]
    /\ seen = [r \in Requests |-> Nothing]

-----------------------------------------------------------------------------
(* What the handlers compute from the rows s they have read.               *)

PathOf(s, p) == IF p = Root THEN <<>> ELSE s.path[p]

DepthUnder(s, p) == IF p = Root THEN 0 ELSE s.depth[p] + 1

\* Mutant: LIKE 'prefix/%' without the folder itself.
Like_Below(prefix, q) == IsStrictPrefix(prefix, q)

\* q LIKE 'prefix%'.
Like(prefix, q) ==
    LET n == Len(prefix) IN
    /\ Len(q) >= n
    /\ IsPrefix(Front(prefix), q)
    /\ prefix[n] = q[n] \/ <<prefix[n], q[n]>> \in Extends

\* list_subtree_ids: found by path, f included.
Subtree(s, f) ==
    {g \in Folders : s.parent[g] \notin {Unborn, Gone} /\ Like(s.path[f], s.path[g])}

FitsUnder(s, f, p) ==
    \A g \in Subtree(s, f) : DepthUnder(s, p) + s.depth[g] - s.depth[f] < MaxDepth

\* The path of g when f, which it is found under, moves to p.
NewPath(s, f, p, g) ==
    PathOf(s, p) \o SubSeq(s.path[g], Len(s.path[f]), Len(s.path[g]))

\* Mutant: NULL parents are not compared.
NameTaken_NotAtRoot(p, n, except) ==
    p # Root /\ \E f \in Children(p) \ except : Last(path[f]) = n

\* sibling_name_exists.
NameTaken(p, n, except) == \E f \in Children(p) \ except : Last(path[f]) = n

\* The database's unique constraint on (parent_folder_id, name): NULLs differ.
UniqueBelow(p, n, except) == p # Root => ~NameTaken(p, n, except)

-----------------------------------------------------------------------------
Begin(r, kind, f, p, n) ==
    /\ todo[r] = Idle
    /\ todo' = [todo EXCEPT ![r] = [kind |-> kind, folder |-> f, to |-> p, name |-> n]]
    /\ seen' = [seen EXCEPT ![r] = Now]
    /\ UNCHANGED <<folders, documents>>

End(r) ==
    /\ todo' = [todo EXCEPT ![r] = Idle]
    /\ seen' = [seen EXCEPT ![r] = Nothing]

BeginCreate(r, p, n) ==
    /\ IsPlace(p)
    /\ DepthUnder(Now, p) < MaxDepth
    /\ ~NameTaken(p, n, {})
    /\ Begin(r, "create", Root, p, n)

BeginMove(r, f, p) ==
    /\ Here(f)
    /\ IsPlace(p) /\ p # f
    /\ ~IsStrictPrefix(path[f], PathOf(Now, p))
    /\ FitsUnder(Now, f, p)
    /\ ~NameTaken(p, Last(path[f]), {f})
    /\ Begin(r, "move", f, p, Last(path[f]))

BeginDelete(r, f) ==
    /\ Here(f)
    /\ Begin(r, "delete", f, Root, Last(path[f]))

\* The transaction fails at its commit and is rolled back.
Fails(r) == End(r) /\ UNCHANGED <<folders, documents>>

CommitCreate(r) ==
    LET p == todo[r].to
        n == todo[r].name
        allowed == /\ IsPlace(p) /\ UniqueBelow(p, n, {})
                   /\ Len(PathOf(seen[r], p)) < MaxPath
    IN
    /\ todo[r].kind = "create"
    /\ \/ /\ allowed
          /\ \E f \in Folders :
                /\ parent[f] = Unborn
                /\ parent' = [parent EXCEPT ![f] = p]
                /\ path' = [path EXCEPT ![f] = Append(PathOf(seen[r], p), n)]
                /\ depth' = [depth EXCEPT ![f] = DepthUnder(seen[r], p)]
          /\ End(r)
          /\ UNCHANGED documents
       \/ ~allowed /\ Fails(r)

\* Mutant: the folders below keep their paths.
CommitMove_FolderOnly(r) ==
    LET s == seen[r]
        f == todo[r].folder
        p == todo[r].to
    IN
    /\ todo[r].kind = "move"
    /\ parent' = [parent EXCEPT ![f] = p]
    /\ path' = [path EXCEPT ![f] = NewPath(s, f, p, f)]
    /\ depth' = [depth EXCEPT ![f] = DepthUnder(s, p)]
    /\ End(r)
    /\ UNCHANGED documents

\* Only columns that change are written, and no row may be gone.
CommitMove(r) ==
    LET s == seen[r]
        f == todo[r].folder
        p == todo[r].to
        ids == Subtree(s, f)
        new(g) == NewPath(s, f, p, g)
        newdepth(g) == IF g = f THEN DepthUnder(s, p) ELSE Len(new(g)) - 1
        allowed == /\ \A g \in ids : Here(g) /\ Len(new(g)) <= MaxPath
                   /\ p # s.parent[f] => IsPlace(p) /\ UniqueBelow(p, todo[r].name, {f})
    IN
    /\ todo[r].kind = "move"
    /\ \/ /\ allowed
          /\ parent' = [parent EXCEPT ![f] = IF p # s.parent[f] THEN p ELSE @]
          /\ path' = [g \in Folders |-> IF g \in ids /\ new(g) # s.path[g]
                                        THEN new(g) ELSE path[g]]
          /\ depth' = [g \in Folders |-> IF g \in ids /\ newdepth(g) # s.depth[g]
                                         THEN newdepth(g) ELSE depth[g]]
          /\ End(r)
          /\ UNCHANGED documents
       \/ ~allowed /\ Fails(r)

\* Mutant: rows are only marked as deleted, so no foreign key holds the commit up.
CommitDelete_Soft(r) ==
    LET ids == Subtree(seen[r], todo[r].folder) IN
    /\ todo[r].kind = "delete"
    /\ parent' = [f \in Folders |-> IF f \in ids THEN Gone ELSE parent[f]]
    /\ place' = [d \in Docs |-> IF seen[r].place[d] \in ids THEN Gone ELSE place[d]]
    /\ End(r)
    /\ UNCHANGED <<path, depth, content>>

\* The versions of the documents listed are deleted, then the documents that are
\* in the folders, if any was listed, then the folders.
CommitDelete(r) ==
    LET ids == Subtree(seen[r], todo[r].folder)
        listed == {d \in Docs : seen[r].place[d] \in ids}
        inside == {d \in Docs : place[d] \in ids}
        allowed == /\ listed = {} => inside = {}
                   /\ \A d \in inside \ listed : ~content[d]
                   /\ \A f \in ids : Children(f) \subseteq ids
    IN
    /\ todo[r].kind = "delete"
    /\ \/ /\ allowed
          /\ parent' = [f \in Folders |-> IF f \in ids THEN Gone ELSE parent[f]]
          /\ path' = [f \in Folders |-> IF f \in ids THEN <<>> ELSE path[f]]
          /\ depth' = [f \in Folders |-> IF f \in ids THEN 0 ELSE depth[f]]
          /\ place' = [d \in Docs |-> IF d \in inside THEN Gone ELSE place[d]]
          /\ content' = [d \in Docs |-> content[d] /\ d \notin listed]
          /\ End(r)
       \/ ~allowed /\ Fails(r)

-----------------------------------------------------------------------------
\* CreateDocumentHandler and MoveDocumentHandler.
PutDocument(d, p) ==
    /\ place[d] \notin {Gone, p}
    /\ IsPlace(p)
    /\ place' = [place EXCEPT ![d] = p]
    /\ UNCHANGED <<folders, content, todo, seen>>

UploadVersion(d) ==
    /\ place[d] \notin {Unborn, Gone}
    /\ ~content[d]
    /\ content' = [content EXCEPT ![d] = TRUE]
    /\ UNCHANGED <<folders, place, todo, seen>>

DeleteDocument(d) ==
    /\ place[d] \notin {Unborn, Gone}
    /\ place' = [place EXCEPT ![d] = Gone]
    /\ content' = [content EXCEPT ![d] = FALSE]
    /\ UNCHANGED <<folders, todo, seen>>

Next ==
    \/ \E r \in Requests, p \in Folders \cup {Root} :
          \/ \E n \in Names : BeginCreate(r, p, n)
          \/ \E f \in Folders : BeginMove(r, f, p)
    \/ \E r \in Requests, f \in Folders : BeginDelete(r, f)
    \/ \E r \in Requests : CommitCreate(r) \/ CommitMove(r) \/ CommitDelete(r)
    \/ \E d \in Docs :
          \/ \E p \in Folders \cup {Root} : PutDocument(d, p)
          \/ UploadVersion(d) \/ DeleteDocument(d)

Spec == Init /\ [][Next]_vars

-----------------------------------------------------------------------------
\* The type invariant.
TypeOK ==
    /\ parent \in [Folders -> Folders \cup {Root, Unborn, Gone}]
    /\ path \in [Folders -> Seq(Names)]
    /\ depth \in [Folders -> Nat]
    /\ place \in [Docs -> Folders \cup {Root, Unborn, Gone}]
    /\ content \in [Docs -> BOOLEAN]
    /\ \A r \in Requests : seen[r] = Nothing <=> todo[r] = Idle

\* "`path` is consistent with parent chain after every folder move"
\* (specs/001-knowledge-management/DATABASE.md:267), and depth with path.
PathsDerived ==
    \A f \in Folders : Here(f) =>
        /\ path[f] = Append(PathOf(Now, parent[f]), Last(path[f]))
        /\ depth[f] = Len(path[f]) - 1 /\ Len(path[f]) <= MaxDepth

\* Folder names are unique within a folder or the root
\* (specs/001-knowledge-management/README.md:81).
SiblingNamesUnique ==
    \A f, g \in Folders :
        Here(f) /\ parent[f] = parent[g] /\ Last(path[f]) = Last(path[g]) => f = g

\* "no cycle is created" (specs/001-knowledge-management/ACCEPTANCE.md:50); PathsDerived
\* implies it, two moves at once break both.
NoCycle ==
    \A S \in SUBSET {f \in Folders : Here(f)} : S # {} => \E f \in S : parent[f] \notin S

\* Creations, moves and deletions at once never leave a folder or a document in a
\* folder that is gone (specs/001-knowledge-management/DATABASE.md:255-256): who
\* commits last deletes what is there by then, or fails.
NoOrphans ==
    /\ \A f \in Folders : Here(f) => IsPlace(parent[f])
    /\ \A d \in Docs : place[d] \notin {Unborn, Gone} => IsPlace(place[d])

\* A document loses its versions only with itself: "Versions and storage keys
\* unchanged" by a move (specs/001-knowledge-management/WORKFLOWS.md:190).
ContentKept ==
    [][\A d \in Docs : content[d] /\ ~content'[d] => place'[d] = Gone]_vars

\* A move or a deletion takes along what is below the folder, and nothing else.
Abstract == INSTANCE Forest
ImplementsForest == Abstract!Spec
=============================================================================
