------------------------------- MODULE Listings -------------------------------
(***************************************************************************)
(* What a reader is shown page after page, or as a tree, while others      *)
(* write (knowledge/handlers/query_handlers.py).  Every statement of a     *)
(* request sees what is committed when it starts (READ COMMITTED), so each *)
(* is an action; the client asks for pages for as long as one follows.     *)
(*                                                                         *)
(* A document is in a folder and was updated at some time; the listing of  *)
(* knowledge bases is that of a folder that is always there.  Names of     *)
(* folders are numbers.  The folders that a page repeats are left out.     *)
(***************************************************************************)
EXTENDS Integers, Sequences, FiniteSets, SequencesExt

CONSTANTS
    Documents, Folders,
    Present,        \* the documents that are there at first
    Root,           \* no folder
    Opened,         \* the folder the reader lists
    PageSize,
    Depth,          \* that the tree is asked for
    MaxWrites       \* bound

VARIABLES
    documents,      \* of each document there is, its folder and when it was updated
    parent,         \* of each folder there is, its parent
    clock,          \* the number of writes
    reader,         \* what is asked for, which statement is next, and what was shown
    written,        \* the documents and folders written since
    left, grown, tied   \* see Writes

vars == <<documents, parent, clock, reader, written, left, grown, tied>>

Chain ==
    LET up[f \in Folders \cup {Root}] ==
            IF f \in DOMAIN parent THEN {f} \cup up[parent[f]] ELSE {}
    IN  up

InFolder(docs, f) == {d \in DOMAIN docs : docs[d].folder = f}

\* What the listing is about: a search is not about one folder.
Matching(docs) == IF reader.kind = "search" THEN DOMAIN docs ELSE InFolder(docs, Opened)

-----------------------------------------------------------------------------
(* Pages *)

\* Mutant: the last updated is last.
Orders_OldestFirst(S) ==
    {s \in SetToSeqs(S) :
        \A i, j \in DOMAIN s : i < j => documents[s[i]].at <= documents[s[j]].at}

\* ORDER BY updated_at DESC says nothing of those updated at the same time.
Orders(S) ==
    {s \in SetToSeqs(S) :
        \A i, j \in DOMAIN s : i < j => documents[s[i]].at >= documents[s[j]].at}

Limited(s, page) ==
    SubSeq(s, (page - 1) * PageSize + 1, Min({page * PageSize, Len(s)}))

TotalPages(total) == (total + PageSize - 1) \div PageSize
HasNext(page, total) == page < TotalPages(total)

\* FolderContentsHandler: the folder, the count and the documents are read one by one.
Open ==
    /\ reader.at = "open"
    /\ reader' = [reader EXCEPT !.at =
                    IF reader.kind = "search" THEN "list"
                    ELSE IF Opened \in DOMAIN parent THEN "count" ELSE "gone"]

Count ==
    /\ reader.at = "count"
    /\ reader' = [reader EXCEPT !.at = "list", !.total = Cardinality(Matching(documents))]

\* SearchMetadataHandler counts what is on the page.
List ==
    /\ reader.at = "list"
    /\ \E order \in Orders(Matching(documents)) :
        LET items == Limited(order, reader.page)
            total == IF reader.kind = "search" THEN Len(items) ELSE reader.total
            hasNext == HasNext(reader.page, total)
        IN  reader' = [reader EXCEPT !.seen = @ \o items,
                                     !.at = IF hasNext THEN "open" ELSE "end",
                                     !.page = IF hasNext THEN @ + 1 ELSE @]

-----------------------------------------------------------------------------
(* The tree, folder after folder *)

\* What of a folder is read next, the folder it was found under, and its level.
Visit(ask, f, under, depth) == [ask |-> ask, folder |-> f, under |-> under, depth |-> depth]

Children(f) == {g \in DOMAIN parent : parent[g] = f}

\* ORDER BY name.
ByName(S) == CHOOSE s \in SetToSeqs(S) : \A i, j \in DOMAIN s : i < j => s[i] < s[j]

\* build_node: of each child, its documents are counted and then its children read.
ReadChildren ==
    /\ reader.at = "tree" /\ reader.todo # <<>> /\ reader.todo[1].ask = "children"
    /\ LET node == reader.todo[1]
           children == IF node.depth > Depth THEN <<>> ELSE ByName(Children(node.folder))
           Ask(g) == Visit("count", g, node.folder, node.depth)
       IN  reader' = [reader EXCEPT
               !.todo = [i \in DOMAIN children |-> Ask(children[i])] \o Tail(@)]

CountDocuments ==
    /\ reader.at = "tree" /\ reader.todo # <<>> /\ reader.todo[1].ask = "count"
    /\ LET node == reader.todo[1]
       IN  reader' = [reader EXCEPT
               !.todo = <<Visit("children", node.folder, node.under, node.depth + 1)>>
                            \o Tail(reader.todo),
               !.shown = Append(reader.shown,
                            [folder |-> node.folder, under |-> node.under, depth |-> node.depth,
                             count |-> Cardinality(InFolder(documents, node.folder))])]

TreeEnds ==
    /\ reader.at = "tree" /\ reader.todo = <<>>
    /\ reader' = [reader EXCEPT !.at = "end"]

Reads ==
    /\ Open \/ Count \/ List \/ ReadChildren \/ CountDocuments \/ TreeEnds
    /\ UNCHANGED <<documents, parent, clock, written, left, grown, tied>>

-----------------------------------------------------------------------------
(* Writers, each in a transaction of its own *)

Put(d, f) == documents' = [e \in (DOMAIN documents) \cup {d} |->
                            IF e = d THEN [folder |-> f, at |-> clock'] ELSE documents[e]]

Touch(d) == d \in DOMAIN documents /\ Put(d, documents[d].folder) /\ UNCHANGED parent

\* A document is created in a folder, or moved to it.
Place(d, f) == f \in DOMAIN parent /\ Put(d, f) /\ UNCHANGED parent

Delete(d) ==
    /\ d \in DOMAIN documents
    /\ documents' = [e \in (DOMAIN documents) \ {d} |-> documents[e]]
    /\ UNCHANGED parent

MoveFolder(f, p) ==
    /\ f \in DOMAIN parent /\ p \in (DOMAIN parent) \cup {Root} /\ f \notin Chain[p]
    /\ parent' = [parent EXCEPT ![f] = p] /\ UNCHANGED documents

DeleteFolder(f) ==
    LET gone == {g \in DOMAIN parent : f \in Chain[g]}
    IN  /\ f \in DOMAIN parent
        /\ parent' = [g \in (DOMAIN parent) \ gone |-> parent[g]]
        /\ documents' = [d \in {d \in DOMAIN documents : documents[d].folder \notin gone} |->
                            documents[d]]

CreateFolder(f) ==
    /\ f \notin DOMAIN parent
    /\ \E p \in (DOMAIN parent) \cup {Root} :
        parent' = [g \in (DOMAIN parent) \cup {f} |-> IF g = f THEN p ELSE parent[g]]
    /\ UNCHANGED documents

\* ArchiveKnowledgeBaseHandler updates all documents in one statement.
ArchiveAll ==
    /\ documents' = [d \in DOMAIN documents |-> [documents[d] EXCEPT !.at = clock']]
    /\ UNCHANGED parent

\* What the write changes for a reader: a document has left the listing (left), was added
\* to it after it was counted (grown), or is as new as another (tied).
Writes ==
    /\ clock < MaxWrites /\ clock' = clock + 1
    /\ \/ \E d \in Documents : Touch(d) \/ Delete(d) \/ \E f \in Folders : Place(d, f)
       \/ \E f \in Folders : DeleteFolder(f) \/ CreateFolder(f)
                              \/ \E p \in Folders \cup {Root} : MoveFolder(f, p)
       \/ ArchiveAll
    /\ LET Same(old, new, x) == x \in (DOMAIN old) \cap (DOMAIN new) /\ old[x] = new[x]
       IN  written' = written
            \cup {d \in Documents : d \in DOMAIN documents' /\ ~Same(documents, documents', d)}
            \cup {f \in (DOMAIN parent) \cup (DOMAIN parent') : ~Same(parent, parent', f)}
    /\ left' = (left \/ ~(Matching(documents) \subseteq Matching(documents')))
    /\ grown' = (grown \/ (reader.at = "list" /\ ~(Matching(documents') \subseteq Matching(documents))))
    /\ tied' = (tied \/ \E d, e \in DOMAIN documents' : d # e /\ documents'[d].at = documents'[e].at)
    /\ UNCHANGED reader

Next == Reads \/ Writes

Kinds == {"contents", "search", "tree"}

Reader(kind) ==
    [kind |-> kind, at |-> IF kind = "tree" THEN "tree" ELSE "open", page |-> 1, total |-> 0,
     seen |-> <<>>, shown |-> <<>>,
     todo |-> <<Visit("children", Root, Root, 0)>>]

\* Folders are numbered so that a parent is above its children; no two documents tie.  A
\* reader of pages has folders side by side.
Init ==
    /\ reader \in {Reader(kind) : kind \in Kinds}
    /\ parent \in {p \in [Folders -> Folders \cup {Root}] : \A f \in Folders : p[f] = Root \/ p[f] < f}
    /\ reader.kind = "tree" \/ \A f \in Folders : parent[f] = Root
    /\ documents = [d \in Present |-> [folder |-> Opened, at |-> -d]]
    /\ clock = 0 /\ written = {} /\ left = FALSE /\ grown = FALSE /\ tied = FALSE

Spec == Init /\ [][Next]_vars

-----------------------------------------------------------------------------
(* Properties *)

\* Every document that nobody wrote was shown.
Shows == (DOMAIN documents) \ written \subseteq ToSet(reader.seen)

\* The pages of a folder show every document that nobody wrote meanwhile, whatever was
\* created or updated between two pages; and when nothing was written, they show each once.
PagesComplete ==
    reader.kind = "contents" /\ reader.at = "end" =>
        /\ ~left /\ ~grown /\ ~tied => Shows
        /\ clock = 0 => IsInjective(reader.seen) /\ reader.total = Len(reader.seen)

\* The tree shows every folder that was not moved, nor any above it, once and in its
\* place, down to one level more than asked for; and how many documents it has, if none
\* changed.
TreeComplete ==
    reader.kind = "tree" /\ reader.at = "end" =>
        \A f \in DOMAIN parent :
            Chain[f] \cap written = {} /\ Cardinality(Chain[f]) <= Depth + 1 =>
                \E i \in DOMAIN reader.shown :
                    LET node == reader.shown[i]
                    IN  /\ \A j \in DOMAIN reader.shown : reader.shown[j].folder = f <=> j = i
                        /\ node.under = parent[f] /\ node.depth = Cardinality(Chain[f]) - 1
                        /\ written \subseteq Folders /\ DOMAIN documents = Present =>
                            node.count = Cardinality(InFolder(documents, f))

\* The same of pages that a document left, that grew after the count, or that have ties.
PagesCompleteAlways == reader.kind = "contents" /\ reader.at = "end" => Shows

\* The same of a search, of which no second page is announced.
SearchComplete == reader.kind = "search" /\ reader.at = "end" /\ clock = 0 => Shows

\* The depth asked for is the number of levels shown.
DepthIsLevels == \A i \in DOMAIN reader.shown : reader.shown[i].depth < Depth
=============================================================================
