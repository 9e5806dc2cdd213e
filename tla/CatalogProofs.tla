--------------------------- MODULE CatalogProofs ---------------------------
(***************************************************************************)
(* For any number of documents, uploads and requests.                      *)
(***************************************************************************)
EXTENDS Catalog, FiniteSetTheorems, WellFoundedInduction, TLAPS

\* The steps that set something of a document, and the beginnings of requests.
Touches(d) ==
    ArchiveDocument(d) \/ RestoreDocument(d) \/ \E f \in Folders \cup {NoFolder} : MoveDocument(d, f)
Creates(r) == \E f \in Entries : BeginCreate(r, f)
Deletes(r) ==
    \/ \E d \in Docs : BeginDeleteDocument(r, d)
    \/ \E fs \in SUBSET Folders : BeginDeleteFolder(r, fs)

\* A version belongs to a document that is there.
VersionsOfPresent == \A u \in Uploads : version[u] # NoVersion => Here(version[u].doc)

\* A completed upload has a checksum.
Digested == \A u \in Uploads : session[u] = "completed" => digest[u] \in Contents

\* Only a document that is there has a current version.
CurrentOfPresent == \A d \in Docs : ~Here(d) => current[d] = NoUpload

\* A request for a version has read a number that was free, for a document that
\* was there; numbers only grow while it is under way.
NumberBounded ==
    \A r \in Requests : todo[r].kind = "bind" =>
        /\ status[todo[r].doc] # "unborn"
        /\ Here(todo[r].doc) /\ todo[r].doc \notin strays =>
              todo[r].number \in 1 .. Cardinality(Versions({todo[r].doc})) + 1

\* What was listed for the deletion of a folder is still in it, unless it strayed.
Listed ==
    \A r \in Requests : todo[r].kind = "delete" =>
        \A d \in todo[r].docs :
            /\ status[d] # "unborn"
            /\ Here(d) /\ d \notin strays /\ todo[r].folders # {} => folder[d] \in todo[r].folders

\* The inductive invariant.
Base ==
    /\ TypeOK /\ VersionsOfPresent /\ CurrentOfPresent /\ Digested
    /\ DeletedKbEmpty /\ CurrentIsLatest /\ NumberBounded /\ Listed

\* A set of natural numbers that is not empty has a least member.
LEMMA LeastNumber ==
    ASSUME NEW S \in SUBSET Nat, S # {}
    PROVE  \E m \in S : \A n \in S : m <= n
<1>1. PICK R : IsWellFoundedOn(R, Nat) /\ \A x, y \in Nat : y < x => <<y, x>> \in R
  <2> DEFINE R == OpToRel(<, Nat)
  <2>1. IsWellFoundedOn(R, Nat)
    BY NatLessThanWellFounded
  <2>2. \A x, y \in Nat : y < x => <<y, x>> \in R
    BY DEF OpToRel
  <2> HIDE DEF R
  <2> QED
    BY <2>1, <2>2
<1>2. PICK m \in S : \A y \in S : ~ (<<y, m>> \in R)
  BY <1>1, WFMin
<1>3. \A n \in S : ~ (n < m)
  BY <1>1, <1>2
<1> QED
  BY <1>3

\* So has one that is finite.
LEMMA GreatestOfFinite ==
    ASSUME NEW S \in SUBSET Nat, IsFiniteSet(S), S # {}
    PROVE  \E m \in S : \A n \in S : n <= m
<1> DEFINE Above(x) == {y \in S : y > x}
           Sizes == {Cardinality(Above(x)) : x \in S}
<1>1. \A x \in S : IsFiniteSet(Above(x)) /\ Cardinality(Above(x)) \in Nat
  BY FS_Subset, FS_CardinalityType
<1>2. PICK c \in Sizes : \A d \in Sizes : c <= d
  <2>1. Sizes \in SUBSET Nat /\ Sizes # {}
    BY <1>1
  <2> HIDE DEF Sizes
  <2> QED
    BY <2>1, LeastNumber
<1>3. PICK x \in S : c = Cardinality(Above(x))
  BY <1>2
<1>4. ASSUME NEW y \in S, y > x
      PROVE  FALSE
  <2>1. Above(y) \in SUBSET Above(x) /\ y \in Above(x) /\ y \notin Above(y)
    BY <1>3, <1>4
  <2>2. Cardinality(Above(x)) <= Cardinality(Above(y))
    BY <1>2, <1>3
  <2>3. IsFiniteSet(Above(x)) /\ Cardinality(Above(x)) \in Nat /\ Cardinality(Above(y)) \in Nat
    BY <1>1, <1>3
  <2> HIDE DEF Above
  <2> QED
    BY <2>1, <2>2, <2>3, FS_Subset
<1>5. \A y \in S : y <= x
  BY <1>3, <1>4
<1> QED
  BY <1>3, <1>5

\* max + 1 of any numbers.
LEMMA NextNumberType ==
    ASSUME TypeOK, NEW d \in Docs
    PROVE  NextNumber(d) \in Nat \ {0}
<1> DEFINE S == Numbers(d) \cup {0}
<1>1. IsFiniteSet(Versions({d}))
  BY FS_Subset, CatalogAssumption DEF CatalogAssumption, Versions
<1>2. S \in SUBSET Nat /\ S # {}
  BY DEF Numbers, Versions, TypeOK
<1>3. IsFiniteSet(S)
  <2> DEFINE T == {version[u].number : u \in Versions({d})}
             g == [u \in Versions({d}) |-> version[u].number]
  <2>1. g \in [Versions({d}) -> T] /\ \A t \in T : \E u \in Versions({d}) : g[u] = t
    OBVIOUS
  <2> HIDE DEF T, g
  <2>2. g \in Surjection(Versions({d}), T)
    BY <2>1 DEF Surjection
  <2>3. IsFiniteSet(T)
    BY <1>1, <2>2, FS_Surjection
  <2>4. IsFiniteSet(Numbers(d))
    BY <2>3 DEF T, Numbers
  <2> QED BY <2>4, FS_AddElement
<1>4. PICK m \in S : \A n \in S : n <= m
  <2> HIDE DEF S
  <2> QED BY <1>2, <1>3, GreatestOfFinite
<1>5. \A y \in S : m >= y
  BY <1>2, <1>4
<1>6. Max(S) \in S
  BY <1>4, <1>5, Zenon DEF Max
<1>7. Max(S) \in Nat
  BY <1>2, <1>6
<1> QED
  BY <1>7 DEF NextNumber

\* max + 1 of numbers without gaps.
LEMMA NextNumberIs ==
    ASSUME Base, NEW d \in Docs, Here(d), d \notin strays
    PROVE  NextNumber(d) = Cardinality(Versions({d})) + 1 /\ NextNumber(d) \in Nat \ {0}
<1> DEFINE k == Cardinality(Versions({d}))
           S == Numbers(d) \cup {0}
<1>1. IsFiniteSet(Versions({d}))
  BY FS_Subset, CatalogAssumption DEF CatalogAssumption, Versions
<1>2. k \in Nat
  BY <1>1, FS_CardinalityType
<1>3. Numbers(d) = 1 .. k
  BY DEF Base, CurrentIsLatest, Present
<1>4. k \in S /\ \A y \in S : y \in Int /\ k >= y
  <2> HIDE DEF k
  <2>1. S = (1 .. k) \cup {0}
    BY <1>3
  <2> QED BY <1>2, <2>1
<1>5. Max(S) \in S /\ \A y \in S : Max(S) >= y
  BY <1>4, Zenon DEF Max
<1>6. Max(S) = k
  <2> HIDE DEF k, S
  <2> QED BY <1>4, <1>5
<1> QED
  BY <1>2, <1>6 DEF NextNumber

\* What a request lists when it begins to delete.
LEMMA DeletionsBegin ==
    ASSUME NEW r \in Requests, Deletes(r)
    PROVE  \E ds \in SUBSET Docs, fs \in SUBSET Folders :
              /\ BeginDelete(r, ds, fs) /\ ds \subseteq Present
              /\ fs # {} => ds = InFolders(fs)
<1>1. ASSUME NEW d \in Docs, BeginDeleteDocument(r, d)
      PROVE  /\ {d} \in SUBSET Docs /\ {} \in SUBSET Folders
             /\ BeginDelete(r, {d}, {}) /\ {d} \subseteq Present
  BY <1>1 DEF BeginDeleteDocument, Present
<1>2. ASSUME NEW fs \in SUBSET Folders, BeginDeleteFolder(r, fs)
      PROVE  /\ InFolders(fs) \in SUBSET Docs
             /\ BeginDelete(r, InFolders(fs), fs) /\ InFolders(fs) \subseteq Present
  BY <1>2 DEF BeginDeleteFolder, InFolders, Present
<1> QED
  BY <1>1, <1>2 DEF Deletes

-----------------------------------------------------------------------------
(* TypeOK *)

\* Every step keeps the types.
LEMMA StepTypeOK ==
    ASSUME Base, [Next]_vars
    PROVE  TypeOK'
<1> USE DEF Base, TypeOK, documents, places, uploads, files
<1>1. ASSUME NEW r \in Requests, NEW c \in Commands, Begin(r, c) PROVE todo' \in [Requests -> Commands]
  BY <1>1 DEF Begin
<1>2. ASSUME NEW r \in Requests, NEW c \in Commands, Continue(r, c) PROVE todo' \in [Requests -> Commands]
  BY <1>2 DEF Continue
<1>3. Idle \in Commands
  BY DEF Commands
<1>4. ASSUME NEW r \in Requests, Fails(r) PROVE TypeOK'
  <2>1. todo' \in [Requests -> Commands]
    BY <1>4, <1>2, <1>3 DEF Fails, End
  <2> QED BY <1>4, <2>1 DEF Fails
<1>5. ASSUME NEW r \in Requests, End(r) PROVE todo' \in [Requests -> Commands]
  BY <1>5, <1>2, <1>3 DEF End
<1>6. CASE ArchiveKnowledgeBase \/ RestoreKnowledgeBase
  BY <1>6 DEF ArchiveKnowledgeBase, RestoreKnowledgeBase
<1>7. ASSUME NEW d \in Docs, Touches(d) PROVE TypeOK'
  BY <1>7 DEF Touches, ArchiveDocument, RestoreDocument, MoveDocument
<1>8. ASSUME NEW u \in Uploads, ExpireUpload(u) PROVE TypeOK'
  BY <1>8 DEF ExpireUpload
<1>9. ASSUME NEW u \in Uploads, NEW d \in Docs \cup {NoDoc}, InitiateUpload(u, d) PROVE TypeOK'
  BY <1>9 DEF InitiateUpload
<1>10. ASSUME NEW r \in Requests, Creates(r) PROVE TypeOK'
  <2>1. PICK f \in Entries : BeginCreate(r, f)
    BY <1>10 DEF Creates
  <2>2. [kind |-> "create", count |-> count, folder |-> f] \in Commands
    BY CatalogAssumption DEF CatalogAssumption, Commands
  <2> QED BY <2>1, <2>2, <1>1 DEF BeginCreate
<1>11. ASSUME NEW r \in Requests, CommitCreate(r) PROVE TypeOK'
  <2>1. CASE Fails(r)
    BY <2>1, <1>4
  <2>2. CASE ~Fails(r)
    <3>1. todo[r].count \in Nat /\ todo[r].folder \in Folders \cup {NoFolder}
      BY <1>11 DEF CommitCreate, Commands, Idle
    <3> QED BY <1>11, <2>2, <3>1, <1>5 DEF CommitCreate, Create
  <2> QED BY <2>1, <2>2
<1>12. ASSUME NEW r \in Requests, NEW u \in Uploads, NEW c \in Contents, BeginComplete(r, u, c) PROVE TypeOK'
  <2>1. [kind |-> "complete", upload |-> u, content |-> c] \in Commands
    BY DEF Commands
  <2> QED BY <1>12, <2>1, <1>1 DEF BeginComplete
<1>13. ASSUME NEW r \in Requests, StoreStaged(r) PROVE TypeOK'
  <2>1. todo[r] \in [kind : {"complete", "completed"}, upload : Uploads, content : Contents]
    BY <1>13 DEF StoreStaged, Commands, Idle
  <2>2. [kind |-> "completed", upload |-> todo[r].upload, content |-> todo[r].content] \in Commands
    BY <2>1 DEF Commands
  <2> QED BY <1>13, <2>1, <2>2, <1>2 DEF StoreStaged
<1>14. ASSUME NEW r \in Requests, CommitComplete(r) PROVE TypeOK'
  <2>1. todo[r] \in [kind : {"complete", "completed"}, upload : Uploads, content : Contents]
    BY <1>14 DEF CommitComplete, Commands, Idle
  <2>2. CASE Known(todo[r].upload)
    BY <1>14, <2>1, <2>2, <1>5 DEF CommitComplete
  <2>3. CASE ~Known(todo[r].upload)
    BY <1>14, <2>3, <1>4 DEF CommitComplete
  <2> QED BY <2>2, <2>3
<1>15. ASSUME NEW r \in Requests, NEW u \in Uploads, NEW d \in Docs, BeginBind(r, u, d) PROVE TypeOK'
  <2>1. staged[u] \in Contents /\ digest[u] \in Contents
    BY <1>15 DEF BeginBind, Digested
  <2>2. NextNumber(d) \in Nat \ {0}
    BY NextNumberType
  <2>3. [kind |-> "bind", upload |-> u, doc |-> d, content |-> staged[u], hash |-> digest[u],
         number |-> NextNumber(d), draft |-> status[d] = "draft"] \in Commands
    BY <2>1, <2>2 DEF Commands
  <2> QED BY <1>15, <2>3, <1>1 DEF BeginBind
<1>16. ASSUME NEW r \in Requests, CommitBind(r) PROVE TypeOK'
  <2>1. todo[r] \in [kind : {"bind"}, upload : Uploads, doc : Docs, content : Contents,
                     hash : Contents, number : Nat \ {0}, draft : BOOLEAN]
    BY <1>16 DEF CommitBind, Commands, Idle
  <2>2. CASE Fails(r)
    BY <2>2, <1>4
  <2>3. CASE ~Fails(r)
    BY <1>16, <2>1, <2>3, <1>5 DEF CommitBind
  <2> QED BY <2>2, <2>3
<1>17. ASSUME NEW r \in Requests, Deletes(r) PROVE TypeOK'
  <2>1. PICK ds \in SUBSET Docs, fs \in SUBSET Folders : BeginDelete(r, ds, fs)
    BY <1>17, DeletionsBegin
  <2>2. StagedKeys(ds) \in SUBSET Uploads /\ StoredKeys(ds) \in SUBSET (Uploads \X Docs)
    BY DEF StagedKeys, StoredKeys, Versions
  <2>3. [kind |-> "delete", docs |-> ds, folders |-> fs, count |-> count,
         staged |-> StagedKeys(ds), stored |-> StoredKeys(ds)] \in Commands
    BY <2>2 DEF Commands
  <2> QED BY <2>1, <2>3, <1>1 DEF BeginDelete
<1>18. ASSUME NEW r \in Requests, CommitDelete(r) PROVE TypeOK'
  <2>1. todo[r] \in [kind : {"delete"}, docs : SUBSET Docs, folders : SUBSET Folders, count : Nat,
                     staged : SUBSET Uploads, stored : SUBSET (Uploads \X Docs)]
    BY <1>18 DEF CommitDelete, Commands, Idle
  <2>2. Clean(r) \in Commands
    BY <2>1 DEF Clean, Commands
  <2>3. CountWithout(todo[r].count, todo[r].docs) \in Nat
    <3>1. Cardinality(todo[r].docs) \in Nat
      BY <2>1, FS_Subset, FS_CardinalityType, CatalogAssumption DEF CatalogAssumption
    <3> QED BY <2>1, <3>1 DEF CountWithout
  <2>4. CASE Fails(r)
    BY <2>4, <1>4
  <2>5. CASE ~Fails(r)
    <3>1. RemoveDocuments(todo[r]) /\ count' \in Nat /\ todo' \in [Requests -> Commands]
          /\ UNCHANGED <<kb, strays, files>>
      BY <1>18, <2>2, <2>3, <2>5, <1>2 DEF CommitDelete
    <3> QED BY <3>1 DEF RemoveDocuments
  <2> QED BY <2>4, <2>5
<1>19. ASSUME NEW r \in Requests, BeginDeleteKnowledgeBase(r) PROVE TypeOK'
  <2>1. StoredKeys(Docs) \in SUBSET (Uploads \X Docs)
    BY DEF StoredKeys, Versions
  <2>2. [kind |-> "deletekb", staged |-> {u \in Uploads : Known(u)}, stored |-> StoredKeys(Docs)]
           \in Commands
    BY <2>1 DEF Commands
  <2> QED BY <1>19, <2>2, <1>1 DEF BeginDeleteKnowledgeBase
<1>20. ASSUME NEW r \in Requests, CommitDeleteKnowledgeBase(r) PROVE TypeOK'
  <2>1. todo[r] \in [kind : {"deletekb", "clean"},
                     staged : SUBSET Uploads, stored : SUBSET (Uploads \X Docs)]
    BY <1>20 DEF CommitDeleteKnowledgeBase, Commands, Idle
  <2>2. Clean(r) \in Commands
    BY <2>1 DEF Clean, Commands
  <2> QED BY <1>20, <2>2, <1>2 DEF CommitDeleteKnowledgeBase
<1>21. ASSUME NEW r \in Requests, DeleteFiles(r) PROVE TypeOK'
  BY <1>21, <1>5 DEF DeleteFiles
<1>22. ASSUME NEW r \in Requests, RequestDies(r) PROVE TypeOK'
  BY <1>22, <1>4 DEF RequestDies
<1>23. CASE UNCHANGED vars
  BY <1>23 DEF vars
<1> QED
  BY <1>6, <1>7, <1>8, <1>9, <1>10, <1>11, <1>12, <1>13, <1>14, <1>15, <1>16, <1>17, <1>18,
     <1>19, <1>20, <1>21, <1>22, <1>23 DEF Next, Touches, Creates, Deletes

-----------------------------------------------------------------------------
(* Presence *)

\* Documents come and go with CommitCreate and the deletions, and are counted
\* there; a version comes with CommitBind.
Quiet ==
    /\ UNCHANGED <<count, current, version>>
    /\ UNCHANGED places \/ \E d \in Docs, f \in Folders \cup {NoFolder} : MoveDocument(d, f)
    /\ \A d \in Docs : (Here(d)' <=> Here(d)) /\ (status'[d] = "unborn" <=> status[d] = "unborn")

\* What a step does to the documents and their versions.
LEMMA Shapes ==
    ASSUME Base, [Next]_vars
    PROVE  \/ Quiet
           \/ \E r \in Requests : \/ CommitCreate(r) /\ ~Fails(r)
                                  \/ CommitBind(r) /\ ~Fails(r)
                                  \/ CommitDelete(r) /\ ~Fails(r)
                                  \/ CommitDeleteKnowledgeBase(r)
<1> USE DEF documents, places, uploads, files
<1>1. ASSUME UNCHANGED <<count, documents, version>> PROVE Quiet
  BY <1>1 DEF Quiet, Here
<1>2. ASSUME NEW r \in Requests, Fails(r) PROVE Quiet
  BY <1>2, <1>1 DEF Fails
<1>3. CASE RestoreKnowledgeBase
  BY <1>3, <1>1 DEF RestoreKnowledgeBase
<1>4. CASE ArchiveKnowledgeBase
  BY <1>4 DEF ArchiveKnowledgeBase, Quiet, Here, Open, Base, TypeOK
<1>5. ASSUME NEW d \in Docs, Touches(d) PROVE Quiet
  BY <1>5 DEF Touches, ArchiveDocument, RestoreDocument, MoveDocument, Quiet, Here, Open, Base, TypeOK
<1>6. ASSUME NEW u \in Uploads, ExpireUpload(u) \/ \E d \in Docs \cup {NoDoc} : InitiateUpload(u, d)
      PROVE Quiet
  BY <1>6, <1>1 DEF ExpireUpload, InitiateUpload
<1>7. ASSUME NEW r \in Requests, Creates(r) \/ BeginDeleteKnowledgeBase(r) \/ DeleteFiles(r)
      PROVE Quiet
  BY <1>7, <1>1 DEF Creates, BeginCreate, BeginDeleteKnowledgeBase, DeleteFiles
<1>8. ASSUME NEW r \in Requests, NEW u \in Uploads, NEW c \in Contents, BeginComplete(r, u, c)
      PROVE Quiet
  BY <1>8, <1>1 DEF BeginComplete
<1>9. ASSUME NEW r \in Requests, StoreStaged(r) \/ CommitComplete(r) PROVE Quiet
  BY <1>9, <1>1, <1>2 DEF StoreStaged, CommitComplete
<1>10. ASSUME NEW r \in Requests, NEW u \in Uploads, NEW d \in Docs, BeginBind(r, u, d) PROVE Quiet
  BY <1>10, <1>1 DEF BeginBind
<1>11. ASSUME NEW r \in Requests, Deletes(r) PROVE Quiet
  BY <1>11, <1>1 DEF Deletes, BeginDeleteDocument, BeginDeleteFolder, BeginDelete
<1>12. ASSUME NEW r \in Requests, RequestDies(r) PROVE Quiet
  BY <1>12, <1>2 DEF RequestDies
<1>13. CASE UNCHANGED vars
  BY <1>13, <1>1 DEF vars
<1> QED
  BY <1>2, <1>3, <1>4, <1>5, <1>6, <1>7, <1>8, <1>9, <1>10, <1>11, <1>12, <1>13 DEF Next, Touches, Creates, Deletes

\* A request for a version keeps what it has read until it ends.
LEMMA BindsKept ==
    ASSUME Base, [Next]_vars, NEW r \in Requests, todo'[r].kind = "bind"
    PROVE  \/ todo'[r] = todo[r]
           \/ \E u \in Uploads, d \in Docs : BeginBind(r, u, d)
<1> USE DEF Base, TypeOK, documents, places, uploads, files
<1>1. ASSUME NEW q \in Requests, NEW c, Continue(q, c) \/ Begin(q, c), c.kind # "bind"
      PROVE todo'[r] = todo[r]
  BY <1>1 DEF Continue, Begin
<1>2. ASSUME NEW q \in Requests, End(q) PROVE todo'[r] = todo[r]
  BY <1>2, <1>1 DEF End, Idle
<1>3. ASSUME NEW q \in Requests, Fails(q) PROVE todo'[r] = todo[r]
  BY <1>3, <1>2 DEF Fails
<1>4. CASE UNCHANGED todo
  BY <1>4
<1>5. CASE \/ ArchiveKnowledgeBase \/ RestoreKnowledgeBase
           \/ \E d \in Docs : Touches(d)
           \/ \E u \in Uploads : ExpireUpload(u) \/ \E d \in Docs \cup {NoDoc} : InitiateUpload(u, d)
  BY <1>4, <1>5 DEF ArchiveKnowledgeBase, RestoreKnowledgeBase,
     Touches, ArchiveDocument, RestoreDocument, MoveDocument, ExpireUpload, InitiateUpload
<1>6. ASSUME NEW q \in Requests,
             \/ CommitCreate(q) \/ CommitComplete(q) \/ CommitBind(q)
             \/ DeleteFiles(q) \/ RequestDies(q)
      PROVE todo'[r] = todo[r]
  BY <1>6, <1>2, <1>3, Zenon DEF CommitCreate, CommitComplete, CommitBind, DeleteFiles, RequestDies
<1>7. ASSUME NEW q \in Requests,
             \/ Creates(q) \/ StoreStaged(q) \/ BeginDeleteKnowledgeBase(q)
             \/ \E u \in Uploads, c \in Contents : BeginComplete(q, u, c)
      PROVE todo'[r] = todo[r]
  BY <1>7 DEF Creates, BeginCreate, StoreStaged, BeginDeleteKnowledgeBase, BeginComplete, Begin, Continue
<1>10. ASSUME NEW q \in Requests, Deletes(q) PROVE todo'[r] = todo[r]
  BY <1>10, DeletionsBegin DEF BeginDelete, Begin
<1>8. ASSUME NEW q \in Requests, CommitDelete(q) \/ CommitDeleteKnowledgeBase(q)
      PROVE todo'[r] = todo[r]
  <2>1. Clean(q).kind # "bind"
    BY DEF Clean
  <2> QED BY <1>8, <2>1, <1>1, <1>3 DEF CommitDelete, CommitDeleteKnowledgeBase
<1>9. ASSUME NEW q \in Requests, NEW u \in Uploads, NEW d \in Docs, BeginBind(q, u, d)
      PROVE todo'[r] = todo[r] \/ BeginBind(r, u, d)
  BY <1>9 DEF BeginBind, Begin
<1> QED
  BY <1>4, <1>5, <1>6, <1>7, <1>8, <1>9, <1>10 DEF Next, Touches, Creates, Deletes, vars

\* So does a request for a deletion.
LEMMA DeletesKept ==
    ASSUME Base, [Next]_vars, NEW r \in Requests, todo'[r].kind = "delete"
    PROVE  todo'[r] = todo[r] \/ Deletes(r)
<1> USE DEF Base, TypeOK, documents, places, uploads, files
<1>1. ASSUME NEW q \in Requests, NEW c, Continue(q, c) \/ Begin(q, c), c.kind # "delete"
      PROVE todo'[r] = todo[r]
  BY <1>1 DEF Continue, Begin
<1>2. ASSUME NEW q \in Requests, End(q) PROVE todo'[r] = todo[r]
  BY <1>2, <1>1 DEF End, Idle
<1>3. ASSUME NEW q \in Requests, Fails(q) PROVE todo'[r] = todo[r]
  BY <1>3, <1>2 DEF Fails
<1>4. CASE UNCHANGED todo
  BY <1>4
<1>5. CASE \/ ArchiveKnowledgeBase \/ RestoreKnowledgeBase
           \/ \E d \in Docs : Touches(d)
           \/ \E u \in Uploads : ExpireUpload(u) \/ \E d \in Docs \cup {NoDoc} : InitiateUpload(u, d)
  BY <1>4, <1>5 DEF ArchiveKnowledgeBase, RestoreKnowledgeBase,
     Touches, ArchiveDocument, RestoreDocument, MoveDocument, ExpireUpload, InitiateUpload
<1>6. ASSUME NEW q \in Requests,
             \/ CommitCreate(q) \/ CommitComplete(q) \/ CommitBind(q)
             \/ DeleteFiles(q) \/ RequestDies(q)
      PROVE todo'[r] = todo[r]
  BY <1>6, <1>2, <1>3, Zenon DEF CommitCreate, CommitComplete, CommitBind, DeleteFiles, RequestDies
<1>7. ASSUME NEW q \in Requests,
             \/ Creates(q) \/ StoreStaged(q) \/ BeginDeleteKnowledgeBase(q)
             \/ \E u \in Uploads, c \in Contents : BeginComplete(q, u, c)
             \/ \E u \in Uploads, d \in Docs : BeginBind(q, u, d)
      PROVE todo'[r] = todo[r]
  BY <1>7 DEF Creates, BeginCreate, StoreStaged, BeginDeleteKnowledgeBase, BeginComplete, BeginBind,
     Begin, Continue
<1>8. ASSUME NEW q \in Requests, CommitDelete(q) \/ CommitDeleteKnowledgeBase(q)
      PROVE todo'[r] = todo[r]
  <2>1. Clean(q).kind # "delete"
    BY DEF Clean
  <2> QED BY <1>8, <2>1, <1>1, <1>3 DEF CommitDelete, CommitDeleteKnowledgeBase
<1>9. ASSUME NEW q \in Requests, Deletes(q)
      PROVE todo'[r] = todo[r] \/ Deletes(r)
  BY <1>9, DeletionsBegin DEF BeginDelete, Begin
<1> QED
  BY <1>4, <1>5, <1>6, <1>7, <1>8, <1>9 DEF Next, Touches, Creates, Deletes, vars

\* Rows of documents that are gone are gone with them.
LEMMA StepPresence ==
    ASSUME Base, [Next]_vars
    PROVE  VersionsOfPresent' /\ CurrentOfPresent'
<1> USE DEF Base, TypeOK, VersionsOfPresent, CurrentOfPresent, documents, places, uploads, files
<1>1. CASE Quiet
  BY <1>1 DEF Quiet
<1>2. ASSUME NEW r \in Requests, CommitCreate(r), ~Fails(r) PROVE VersionsOfPresent' /\ CurrentOfPresent'
  BY <1>2 DEF CommitCreate, Create, Here
<1>3. ASSUME NEW r \in Requests, CommitBind(r), ~Fails(r) PROVE VersionsOfPresent' /\ CurrentOfPresent'
  <2>1. todo[r].upload \in Uploads /\ todo[r].doc \in Docs
    BY <1>3 DEF CommitBind, Commands, Idle
  <2>2. \A d \in Docs : Here(d) => Here(d)'
    BY <1>3 DEF CommitBind, Here
  <2>3. Here(todo[r].doc)
    BY <1>3 DEF CommitBind
  <2> QED BY <1>3, <2>1, <2>2, <2>3 DEF CommitBind
<1>4. ASSUME NEW r \in Requests, CommitDelete(r), ~Fails(r) PROVE VersionsOfPresent' /\ CurrentOfPresent'
  <2>1. RemoveDocuments(todo[r])
    BY <1>4 DEF CommitDelete
  <2>2. \A d \in Docs : Here(d)' <=> Here(d) /\ d \notin Leaving(todo[r])
    BY <2>1 DEF RemoveDocuments, Here
  <2>3. Versions(Leaving(todo[r])) \subseteq Doomed(todo[r].docs)
    BY <1>4 DEF CommitDelete, Removable
  <2>4. \A u \in Uploads : version'[u] = NoVersion \/ (version'[u] = version[u] /\ u \notin Doomed(todo[r].docs))
    BY <2>1 DEF RemoveDocuments
  <2>5. VersionsOfPresent'
    BY <2>2, <2>3, <2>4 DEF Versions
  <2>6. CurrentOfPresent'
    BY <2>1, <2>2 DEF RemoveDocuments
  <2> QED BY <2>5, <2>6
<1>5. ASSUME NEW r \in Requests, CommitDeleteKnowledgeBase(r) PROVE VersionsOfPresent' /\ CurrentOfPresent'
  BY <1>5 DEF CommitDeleteKnowledgeBase
<1> QED
  BY <1>1, <1>2, <1>3, <1>4, <1>5, Shapes

\* Only complete uploads have a checksum to be copied.
LEMMA StepDigested ==
    ASSUME Base, [Next]_vars
    PROVE  Digested'
<1> USE DEF Base, TypeOK, Digested, documents, places, uploads, files
<1>1. CASE UNCHANGED <<session, digest>>
  BY <1>1
<1>2. ASSUME NEW u \in Uploads, ExpireUpload(u) \/ \E d \in Docs \cup {NoDoc} : InitiateUpload(u, d)
      PROVE Digested'
  BY <1>2 DEF ExpireUpload, InitiateUpload
<1>3. ASSUME NEW r \in Requests, CommitComplete(r) PROVE Digested'
  <2>1. todo[r].content \in Contents
    BY <1>3 DEF CommitComplete, Commands, Idle
  <2> QED BY <1>3, <2>1 DEF CommitComplete, Fails
<1>4. ASSUME NEW r \in Requests, CommitDelete(r) PROVE Digested'
  BY <1>4 DEF CommitDelete, RemoveDocuments, Fails
<1>5. ASSUME NEW r \in Requests, CommitDeleteKnowledgeBase(r) PROVE Digested'
  BY <1>5 DEF CommitDeleteKnowledgeBase, Known
<1>6. CASE \E r \in Requests : CommitCreate(r) \/ CommitBind(r) \/ RequestDies(r)
  BY <1>6, <1>1 DEF CommitCreate, CommitBind, RequestDies, Fails
<1>7. CASE \E r \in Requests : Creates(r) \/ StoreStaged(r) \/ BeginDeleteKnowledgeBase(r) \/ DeleteFiles(r)
  BY <1>7, <1>1 DEF Creates, BeginCreate, StoreStaged, BeginDeleteKnowledgeBase, DeleteFiles
<1>8. CASE \E r \in Requests : \/ \E u \in Uploads, c \in Contents : BeginComplete(r, u, c)
                               \/ \E u \in Uploads, d \in Docs : BeginBind(r, u, d)
                               \/ Deletes(r)
  BY <1>8, <1>1 DEF BeginComplete, BeginBind, Deletes, BeginDeleteDocument, BeginDeleteFolder, BeginDelete
<1>9. CASE ArchiveKnowledgeBase \/ RestoreKnowledgeBase
  BY <1>9, <1>1 DEF ArchiveKnowledgeBase, RestoreKnowledgeBase
<1>10. CASE \E d \in Docs : Touches(d)
  BY <1>10, <1>1 DEF Touches, ArchiveDocument, RestoreDocument, MoveDocument
<1> QED
  BY <1>1, <1>2, <1>3, <1>4, <1>5, <1>6, <1>7, <1>8, <1>9, <1>10 DEF Next, Touches, Creates, Deletes, vars

\* A deleted knowledge base does not come back.
LEMMA GoneKb ==
    ASSUME [Next]_vars, kb = "gone"
    PROVE  kb' = "gone"
<1> QED BY DEF Next, Touches, Creates, Deletes, vars, ArchiveKnowledgeBase, RestoreKnowledgeBase, Open,
     Touches, ArchiveDocument, RestoreDocument, MoveDocument, ExpireUpload, InitiateUpload, Creates, BeginCreate, CommitCreate,
     BeginComplete, StoreStaged, CommitComplete, BeginBind, CommitBind, Deletes, BeginDeleteDocument, BeginDeleteFolder, BeginDelete, CommitDelete,
     BeginDeleteKnowledgeBase, CommitDeleteKnowledgeBase, DeleteFiles, RequestDies, Fails

\* Every request finds that the knowledge base, or what it needs, is gone.
LEMMA StepDeletedKbEmpty ==
    ASSUME Base, [Next]_vars
    PROVE  DeletedKbEmpty'
<1> USE DEF Base, TypeOK, DeletedKbEmpty, documents, places, uploads, files
<1>1. ASSUME NEW r \in Requests, CommitDeleteKnowledgeBase(r) PROVE DeletedKbEmpty'
  BY <1>1 DEF CommitDeleteKnowledgeBase, Present, Here, Known
<1>2. ASSUME \A r \in Requests : ~CommitDeleteKnowledgeBase(r), kb' = "gone" PROVE kb = "gone"
  BY <1>2 DEF Next, Touches, Creates, Deletes, vars, ArchiveKnowledgeBase, RestoreKnowledgeBase,
     Touches, ArchiveDocument, RestoreDocument, MoveDocument, ExpireUpload, InitiateUpload, Creates, BeginCreate, CommitCreate,
     BeginComplete, StoreStaged, CommitComplete, BeginBind, CommitBind, Deletes, BeginDeleteDocument, BeginDeleteFolder, BeginDelete, CommitDelete,
     BeginDeleteKnowledgeBase, DeleteFiles, RequestDies, Fails
<1>0. ASSUME NEW r \in Requests, CommitDelete(r), kb = "gone"
      PROVE  Present' = {} /\ \A u \in Uploads : ~Known(u)' /\ version'[u] = NoVersion
  <2>1. Present = {} /\ \A u \in Uploads : ~Known(u) /\ version[u] = NoVersion
    BY <1>0
  <2>2. CASE Fails(r)
    BY <2>1, <2>2 DEF Fails, Present, Here, Known
  <2>3. CASE ~Fails(r)
    BY <1>0, <2>1, <2>3 DEF CommitDelete, RemoveDocuments, Present, Here, Known
  <2> QED BY <2>2, <2>3
<1>3. SUFFICES ASSUME \A r \in Requests : ~CommitDeleteKnowledgeBase(r) /\ ~CommitDelete(r), kb = "gone"
               PROVE  Present' = {} /\ \A u \in Uploads : ~Known(u)' /\ version'[u] = NoVersion
  BY <1>0, <1>1, <1>2
<1>4. Present = {} /\ \A u \in Uploads : ~Known(u) /\ version[u] = NoVersion
  BY <1>3
<1>5. Quiet
  <2>1. ASSUME NEW r \in Requests, CommitBind(r), ~Fails(r) PROVE FALSE
    <3>1. todo[r].doc \in Docs
      BY <2>1 DEF CommitBind, Commands, Idle
    <3> QED BY <1>4, <2>1, <3>1 DEF CommitBind, Present
  <2>2. ASSUME NEW r \in Requests, CommitCreate(r), ~Fails(r) PROVE FALSE
    BY <1>3, <2>2 DEF CommitCreate
  <2> QED BY <1>3, <2>1, <2>2, Shapes
<1>6. Present' = {}
  BY <1>4, <1>5 DEF Quiet, Present
<1>7. \A u \in Uploads : version'[u] = NoVersion
  BY <1>4, <1>5 DEF Quiet
<1>8. \A u \in Uploads : ~Known(u)'
  <2>1. CASE UNCHANGED session
    BY <1>4, <2>1 DEF Known
  <2>2. ASSUME NEW u \in Uploads, ExpireUpload(u) PROVE FALSE
    BY <1>4, <2>2 DEF ExpireUpload, Known
  <2>3. ASSUME NEW u \in Uploads, NEW d \in Docs \cup {NoDoc}, InitiateUpload(u, d) PROVE FALSE
    BY <1>3, <2>3 DEF InitiateUpload, Open
  <2>4. ASSUME NEW r \in Requests, CommitComplete(r) PROVE UNCHANGED session
    <3>1. todo[r].upload \in Uploads
      BY <2>4 DEF CommitComplete, Commands, Idle
    <3> QED BY <1>4, <2>4, <3>1 DEF CommitComplete, Fails
  <2>6. CASE \A r \in Requests : ~CommitComplete(r)
    BY <1>3, <2>1, <2>2, <2>3, <2>6 DEF Next, Touches, Creates, Deletes, vars, ArchiveKnowledgeBase,
       RestoreKnowledgeBase, Touches, ArchiveDocument, RestoreDocument, MoveDocument, Creates, BeginCreate, CommitCreate,
       BeginComplete, StoreStaged, BeginBind, CommitBind, Deletes, BeginDeleteDocument, BeginDeleteFolder, BeginDelete, BeginDeleteKnowledgeBase,
       DeleteFiles, RequestDies, Fails
  <2> QED BY <2>1, <2>4, <2>6
<1> QED
  BY <1>6, <1>7, <1>8

-----------------------------------------------------------------------------
(* Version numbers *)

\* CurrentIsLatest, for one document.
Latest(d) ==
    /\ Numbers(d) = 1 .. Cardinality(Versions({d}))
    /\ IF Versions({d}) = {} THEN current[d] = NoUpload
       ELSE /\ current[d] \in Versions({d})
            /\ version[current[d]].number = Cardinality(Versions({d}))

\* A document whose versions are left alone.
LEMMA SameVersions ==
    ASSUME Base, TypeOK', NEW d \in Docs,
           \A u \in Uploads : u \in Versions({d})' <=> u \in Versions({d}),
           \A u \in Versions({d}) : version'[u] = version[u]
    PROVE  /\ Versions({d})' = Versions({d})
           /\ Latest(d) /\ current'[d] = current[d] => Latest(d)'
<1>1. Versions({d})' = Versions({d})
  BY DEF Versions
<1>2. Numbers(d)' = Numbers(d)
  BY <1>1 DEF Numbers
<1> QED
  BY <1>1, <1>2 DEF Latest

\* The one new version takes the next number.
LEMMA BindNumbers ==
    ASSUME Base, TypeOK', NEW r \in Requests, CommitBind(r), ~Fails(r),
           NEW d \in Docs, d = todo[r].doc
    PROVE  /\ Here(d)
           /\ Cardinality(Versions({d}))' = Cardinality(Versions({d})) + 1
           /\ d \notin strays => Latest(d)'
           /\ \A e \in Docs \ {d} : /\ Versions({e})' = Versions({e})
                                    /\ current'[e] = current[e]
                                    /\ \A u \in Versions({e}) : version'[u] = version[u]
<1> DEFINE t == todo[r]
           u == t.upload
           V == Versions({d})
           k == Cardinality(V)
<1>1. /\ u \in Uploads /\ t.number \in Nat \ {0}
      /\ [doc |-> d, number |-> t.number, hash |-> t.hash] \in [doc : Docs, number : Nat, hash : Contents]
  BY DEF CommitBind, Commands, Idle, Base, TypeOK
<1>2. /\ Here(d) /\ version[u] = NoVersion /\ t.number \notin Numbers(d)
      /\ version' = [version EXCEPT ![u] = [doc |-> d, number |-> t.number, hash |-> t.hash]]
      /\ current' = [current EXCEPT ![d] = u]
  BY DEF CommitBind, NumberFree
<1>3. [doc |-> d, number |-> t.number, hash |-> t.hash] # NoVersion
  BY <1>1, CatalogAssumption DEF CatalogAssumption
<1>4. V' = V \cup {u}
  BY <1>1, <1>2, <1>3 DEF Versions, Base, TypeOK
<1>5. u \notin V /\ V \subseteq Uploads
  BY <1>2 DEF Versions
<1>6. IsFiniteSet(V) /\ k \in Nat
  BY <1>5, FS_Subset, FS_CardinalityType, CatalogAssumption DEF CatalogAssumption
<1>7. Cardinality(V') = k + 1
  BY <1>4, <1>5, <1>6, FS_AddElement
<1>8. ASSUME d \notin strays
      PROVE  Latest(d)'
  <2>1. Numbers(d) = 1 .. k
    BY <1>2, <1>8 DEF Base, CurrentIsLatest, Present
  <2>2. t.number = k + 1
    <3>1. t.number \in 1 .. k + 1
      BY <1>2, <1>8 DEF Base, NumberBounded, CommitBind
    <3> QED BY <1>2, <1>6, <2>1, <3>1
  <2>3. Numbers(d)' = 1 .. k + 1
    <3>1. Numbers(d)' = Numbers(d) \cup {t.number}
      BY <1>1, <1>2, <1>4, <1>5 DEF Numbers, Base, TypeOK, Versions
    <3> HIDE DEF k
    <3>2. 1 .. k + 1 = (1 .. k) \cup {k + 1}
      BY <1>6
    <3> QED BY <2>1, <2>2, <3>1, <3>2
  <2>4. V' # {} /\ current'[d] \in V' /\ version'[current'[d]].number = k + 1
    BY <1>1, <1>2, <1>4, <2>2 DEF Base, TypeOK
  <2> QED BY <1>7, <2>3, <2>4 DEF Latest
<1>12. ASSUME NEW e \in Docs \ {d}
       PROVE  /\ Versions({e})' = Versions({e})
              /\ current'[e] = current[e]
              /\ \A x \in Versions({e}) : version'[x] = version[x]
  BY <1>1, <1>2, <1>3 DEF Versions, Base, TypeOK
<1> QED
  BY <1>2, <1>7, <1>8, <1>12

\* A document that has strayed remains one.
LEMMA StraysStay ==
    ASSUME Base, [Next]_vars
    PROVE  strays \subseteq strays'
<1>1. CASE Quiet
  BY <1>1 DEF Quiet, places, MoveDocument
<1>2. ASSUME NEW r \in Requests,
             CommitCreate(r) \/ CommitBind(r) \/ CommitDelete(r) \/ CommitDeleteKnowledgeBase(r)
      PROVE  strays' = strays
  BY <1>2 DEF CommitCreate, CommitBind, CommitDelete, CommitDeleteKnowledgeBase, Fails, documents, places
<1> QED
  BY <1>1, <1>2, Shapes

\* A document that has not strayed goes if it was listed.
LEMMA ListedLeave ==
    ASSUME Base, NEW r \in Requests, todo[r].kind = "delete", NEW d \in todo[r].docs,
           d \in Docs, Here(d), d \notin strays
    PROVE  d \in Leaving(todo[r])
<1> QED BY DEF Base, Listed, Leaving, Present

\* What a step does to the versions of a document that is there afterwards and has
\* not strayed.
LEMMA StepVersions ==
    ASSUME Base, [Next]_vars, TypeOK', NEW d \in Docs, Here(d)', d \notin strays'
    PROVE  /\ Latest(d)'
           /\ \/ status[d] = "unborn"
              \/ Here(d) /\ Versions({d})' = Versions({d})
              \/ Here(d) /\ Cardinality(Versions({d}))' = Cardinality(Versions({d})) + 1
<1> USE DEF Base, TypeOK
<1>0. d \notin strays
  BY StraysStay
<1>1. Here(d) => Latest(d)
  BY <1>0 DEF CurrentIsLatest, Latest, Present
<1>2. CASE Quiet
  <2>1. Here(d) /\ current'[d] = current[d] /\ version' = version
    BY <1>2 DEF Quiet
  <2> QED BY <1>1, <2>1, SameVersions DEF Versions
<1>3. ASSUME NEW r \in Requests, CommitCreate(r), ~Fails(r)
      PROVE  (status[d] = "unborn" /\ Latest(d)') \/ (Here(d) /\ Latest(d)' /\ Versions({d})' = Versions({d}))
  <2>1. UNCHANGED <<current, version>> /\ (status[d] = "unborn" \/ Here(d))
    BY <1>3 DEF CommitCreate, Create, Here
  <2>2. CASE Here(d)
    BY <1>1, <2>1, <2>2, SameVersions DEF Versions
  <2>3. CASE status[d] = "unborn"
    <3>1. ~Here(d)
      BY <2>3 DEF Here
    <3>2. Versions({d}) = {} /\ current[d] = NoUpload
      BY <3>1 DEF VersionsOfPresent, CurrentOfPresent, Versions
    <3>3. Numbers(d) = {} /\ Cardinality(Versions({d})) = 0
      BY <3>2, FS_EmptySet DEF Numbers
    <3>4. Latest(d)
      BY <3>2, <3>3 DEF Latest
    <3> QED BY <2>1, <2>3, <3>4, SameVersions DEF Versions
  <2> QED BY <2>1, <2>2, <2>3
<1>4. ASSUME NEW r \in Requests, CommitBind(r), ~Fails(r)
      PROVE  /\ Here(d) /\ Latest(d)'
             /\ \/ Versions({d})' = Versions({d})
                \/ Cardinality(Versions({d}))' = Cardinality(Versions({d})) + 1
  <2>1. todo[r].doc \in Docs
    BY <1>4 DEF CommitBind, Commands, Idle
  <2>2. CASE d = todo[r].doc
    BY <1>0, <1>4, <2>2, BindNumbers
  <2>3. CASE d # todo[r].doc
    <3>1. Here(d)
      BY <1>4, <2>1, <2>3 DEF CommitBind, Here
    <3>3. \A e \in Docs \ {todo[r].doc} :
             /\ Versions({e})' = Versions({e}) /\ current'[e] = current[e]
             /\ \A u \in Versions({e}) : version'[u] = version[u]
      BY <1>4, <2>1, BindNumbers
    <3>2. /\ Versions({d})' = Versions({d}) /\ current'[d] = current[d]
          /\ \A u \in Versions({d}) : version'[u] = version[u]
      BY <2>3, <3>3
    <3> QED BY <1>1, <3>1, <3>2, SameVersions
  <2> QED BY <2>2, <2>3
<1>5. ASSUME NEW r \in Requests, CommitDelete(r), ~Fails(r)
      PROVE  Here(d) /\ Latest(d)' /\ Versions({d})' = Versions({d})
  <2>1. RemoveDocuments(todo[r])
    BY <1>5 DEF CommitDelete
  <2>2. Here(d) /\ d \notin Leaving(todo[r]) /\ current'[d] = current[d]
    BY <2>1 DEF RemoveDocuments, Here
  <2>5. d \notin todo[r].docs
    BY <1>0, <1>5, <2>2, ListedLeave DEF CommitDelete
  <2>3. \A u \in Versions({d}) : version'[u] = version[u]
    BY <2>1, <2>5 DEF RemoveDocuments, Versions, Doomed
  <2>4. \A u \in Uploads : u \in Versions({d})' <=> u \in Versions({d})
    BY <2>1, <2>5 DEF RemoveDocuments, Versions, Doomed
  <2> QED BY <1>1, <2>2, <2>3, <2>4, SameVersions
<1>6. ASSUME NEW r \in Requests, CommitDeleteKnowledgeBase(r) PROVE FALSE
  BY <1>6 DEF CommitDeleteKnowledgeBase, Here
<1> QED
  BY <1>1, <1>2, <1>3, <1>4, <1>5, <1>6, Shapes

\* The number that was read stays in the range of the numbers.
LEMMA StepNumberBounded ==
    ASSUME Base, [Next]_vars, TypeOK'
    PROVE  NumberBounded'
<1> USE DEF Base, TypeOK
<1>1. ASSUME NEW r \in Requests, todo'[r].kind = "bind"
      PROVE  todo'[r].doc \in Docs /\ todo'[r].number \in Nat \ {0}
  BY <1>1 DEF Commands, Idle
<1>2. SUFFICES ASSUME NEW r \in Requests, todo'[r].kind = "bind",
                      NEW d \in Docs, d = todo'[r].doc,
                      NEW n \in Nat \ {0}, n = todo'[r].number
               PROVE  /\ status'[d] # "unborn"
                      /\ Here(d)' /\ d \notin strays' => n \in 1 .. Cardinality(Versions({d}))' + 1
  BY <1>1 DEF NumberBounded
<1>3. Cardinality(Versions({d})) \in Nat
  BY FS_Subset, FS_CardinalityType, CatalogAssumption DEF CatalogAssumption, Versions
<1>4. CASE \E u \in Uploads, e \in Docs : BeginBind(r, u, e)
  <2>1. PICK u \in Uploads, e \in Docs : BeginBind(r, u, e)
    BY <1>4
  <2>2. d = e /\ n = NextNumber(e)
    BY <1>2, <2>1 DEF BeginBind, Begin
  <2>3. Here(d) /\ status[d] # "unborn"
    BY <2>1, <2>2 DEF BeginBind, Open, Here
  <2>4. d \notin strays => n = Cardinality(Versions({d})) + 1
    BY <2>2, <2>3, NextNumberIs
  <2>5. version' = version /\ status' = status /\ strays' = strays
    BY <2>1 DEF BeginBind, documents, places
  <2>6. Versions({d})' = Versions({d})
    BY <2>5 DEF Versions
  <2> QED BY <1>3, <2>3, <2>4, <2>5, <2>6
<1>5. CASE todo'[r] = todo[r]
  <2>1. /\ status[d] # "unborn"
        /\ Here(d) /\ d \notin strays => n \in 1 .. Cardinality(Versions({d})) + 1
    BY <1>2, <1>5 DEF NumberBounded
  <2>2. status'[d] # "unborn"
    <3>1. CASE Quiet
      BY <2>1, <3>1 DEF Quiet
    <3>2. ASSUME NEW q \in Requests, (CommitCreate(q) /\ ~Fails(q)) \/ (CommitBind(q) /\ ~Fails(q))
          PROVE  status'[d] # "unborn"
      BY <2>1, <3>2 DEF CommitCreate, Create, CommitBind
    <3>3. ASSUME NEW q \in Requests, (CommitDelete(q) /\ ~Fails(q)) \/ CommitDeleteKnowledgeBase(q)
          PROVE  status'[d] # "unborn"
      BY <2>1, <3>3 DEF CommitDelete, RemoveDocuments, CommitDeleteKnowledgeBase
    <3> QED BY <3>1, <3>2, <3>3, Shapes
  <2>3. ASSUME Here(d)', d \notin strays'
        PROVE  n \in 1 .. Cardinality(Versions({d}))' + 1
    <3>1. Here(d) /\ \/ Versions({d})' = Versions({d})
                     \/ Cardinality(Versions({d}))' = Cardinality(Versions({d})) + 1
      BY <2>1, <2>3, StepVersions
    <3>4. d \notin strays
      BY <2>3, StraysStay
    <3>2. CASE Versions({d})' = Versions({d})
      BY <2>1, <3>1, <3>2, <3>4
    <3>3. CASE Cardinality(Versions({d}))' = Cardinality(Versions({d})) + 1
      BY <1>3, <2>1, <3>1, <3>3, <3>4
    <3> QED BY <3>1, <3>2, <3>3
  <2> QED BY <2>2, <2>3
<1> QED
  BY <1>2, <1>4, <1>5, BindsKept

\* What was listed stays where it is, or strays, or goes.
LEMMA StepListed ==
    ASSUME Base, [Next]_vars, TypeOK', NEW r \in Requests, todo'[r].kind = "delete",
           NEW d \in todo'[r].docs
    PROVE  /\ status'[d] # "unborn"
           /\ Here(d)' /\ d \notin strays' /\ todo'[r].folders # {} => folder'[d] \in todo'[r].folders
<1> USE DEF Base, TypeOK
<1>1. d \in Docs
  BY DEF Commands, Idle
<1>2. CASE Deletes(r)
  <2>1. PICK ds \in SUBSET Docs, fs \in SUBSET Folders :
           BeginDelete(r, ds, fs) /\ ds \subseteq Present /\ (fs # {} => ds = InFolders(fs))
    BY <1>2, DeletionsBegin
  <2>2. todo'[r].docs = ds /\ todo'[r].folders = fs /\ UNCHANGED <<status, folder>>
    BY <2>1 DEF BeginDelete, Begin, documents, places
  <2> QED BY <1>1, <2>1, <2>2 DEF InFolders, Present, Here
<1>3. CASE todo'[r] = todo[r]
  <2>1. /\ status[d] # "unborn"
        /\ Here(d) /\ d \notin strays /\ todo[r].folders # {} => folder[d] \in todo[r].folders
    BY <1>3 DEF Listed
  <2>2. CASE Quiet
    <3>1. status'[d] # "unborn" /\ (Here(d)' => Here(d))
      BY <1>1, <2>1, <2>2 DEF Quiet
    <3>2. CASE UNCHANGED places
      BY <1>3, <2>1, <3>1, <3>2 DEF places
    <3>3. ASSUME NEW e \in Docs, NEW f \in Folders \cup {NoFolder}, MoveDocument(e, f),
                 Here(d)', d \notin strays', todo[r].folders # {}
          PROVE  folder'[d] \in todo[r].folders
      <4>1. folder[d] \in todo[r].folders
        BY <2>1, <3>1, <3>3 DEF MoveDocument
      <4>2. CASE d # e
        BY <1>1, <3>3, <4>1, <4>2 DEF MoveDocument
      <4>3. CASE d = e
        <5>1. ~Strays(d, f) /\ folder'[d] = f
          BY <1>1, <3>3, <4>3 DEF MoveDocument
        <5> QED BY <1>3, <4>1, <5>1 DEF Strays
      <4> QED BY <4>2, <4>3
    <3> QED BY <1>3, <2>2, <3>1, <3>2, <3>3 DEF Quiet
  <2>3. ASSUME NEW q \in Requests, CommitCreate(q), ~Fails(q)
        PROVE  status'[d] = status[d] /\ folder'[d] = folder[d] /\ strays' = strays
    BY <1>1, <2>1, <2>3 DEF CommitCreate, Create
  <2>4. ASSUME NEW q \in Requests, CommitBind(q), ~Fails(q)
        PROVE  /\ status'[d] # "unborn" /\ (Here(d)' => Here(d))
               /\ folder'[d] = folder[d] /\ strays' = strays
    BY <1>1, <2>1, <2>4 DEF CommitBind, Here, places
  <2>5. ASSUME NEW q \in Requests, CommitDelete(q), ~Fails(q)
        PROVE  /\ status'[d] # "unborn" /\ (Here(d)' => Here(d) /\ folder'[d] = folder[d])
               /\ strays' = strays
    BY <1>1, <2>1, <2>5 DEF CommitDelete, RemoveDocuments, Here
  <2>6. ASSUME NEW q \in Requests, CommitDeleteKnowledgeBase(q)
        PROVE  status'[d] # "unborn" /\ ~Here(d)'
    BY <1>1, <2>1, <2>6 DEF CommitDeleteKnowledgeBase, Here
  <2> QED BY <1>3, <2>1, <2>2, <2>3, <2>4, <2>5, <2>6, Shapes DEF Here
<1> QED
  BY <1>2, <1>3, DeletesKept

-----------------------------------------------------------------------------
(* Theorems *)

\* Base holds at the beginning.
LEMMA InitBase == Init => Base
<1> SUFFICES ASSUME Init PROVE Base
  OBVIOUS
<1>1. Present = {} /\ \A d \in Docs : ~Here(d)
  BY DEF Init, Present, Here
<1>2. TypeOK
  BY DEF Init, TypeOK, Commands
<1> QED
  BY <1>1, <1>2 DEF Base, Init, VersionsOfPresent, CurrentOfPresent, Digested, DeletedKbEmpty,
     CurrentIsLatest, NumberBounded, Listed, Idle

\* Base is inductive.
LEMMA StepBase ==
    ASSUME Base, [Next]_vars
    PROVE  Base'
<1>1. TypeOK'
  BY StepTypeOK
<1>2. CurrentIsLatest'
  BY <1>1, StepVersions DEF CurrentIsLatest, Latest, Present
<1>3. Listed'
  BY <1>1, StepListed DEF Listed
<1> QED
  BY <1>1, <1>2, <1>3, StepPresence, StepDigested, StepDeletedKbEmpty, StepNumberBounded DEF Base

\* The inductive invariant holds in every state.
THEOREM AlwaysBase == Spec => []Base
  BY InitBase, StepBase, PTL DEF Spec

\* Every value has its type, in every state.
THEOREM TypeCorrect == Spec => []TypeOK
<1>1. Base => TypeOK
  BY DEF Base
<1> QED BY <1>1, AlwaysBase, PTL

\* The versions of a document are numbered without gaps and the last one is the
\* current one, however many requests read the same next number, unless it was moved
\* out of a folder under deletion, or into one.
THEOREM LatestIsCurrent == Spec => []CurrentIsLatest
<1>1. Base => CurrentIsLatest
  BY DEF Base
<1> QED BY <1>1, AlwaysBase, PTL

\* Nothing is committed into a deleted knowledge base.
THEOREM NothingLeft == Spec => []DeletedKbEmpty
<1>1. Base => DeletedKbEmpty
  BY DEF Base
<1> QED BY <1>1, AlwaysBase, PTL

\* A version goes only with its own document, or is taken from one that was moved
\* out of a folder while that was being deleted.
THEOREM VersionsStay == Spec => VersionsKept
<1> DEFINE Goes(u) == /\ version'[u] = NoVersion
                      /\ status'[version[u].doc] = "gone" \/ version[u].doc \in strays
<1>1. ASSUME Base, [Next]_vars, NEW u \in Uploads, version[u] # NoVersion, version'[u] # version[u]
      PROVE  Goes(u)
  <2> USE DEF Base, TypeOK
  <2>1. ~Quiet
    BY <1>1 DEF Quiet
  <2>2. ASSUME NEW r \in Requests, CommitCreate(r) \/ CommitBind(r), ~Fails(r) PROVE FALSE
    BY <1>1, <2>2 DEF CommitCreate, CommitBind
  <2>3. Here(version[u].doc) /\ version[u].doc \in Docs
    BY <1>1 DEF VersionsOfPresent
  <2>4. ASSUME NEW r \in Requests, CommitDelete(r), ~Fails(r)
        PROVE  Goes(u)
    <3>1. todo[r].kind = "delete" /\ RemoveDocuments(todo[r])
      BY <2>4 DEF CommitDelete
    <3>2. version'[u] = NoVersion /\ version[u].doc \in todo[r].docs
      BY <1>1, <3>1 DEF RemoveDocuments, Doomed, Versions
    <3> DEFINE d == version[u].doc
    <3>4. d \in todo[r].docs /\ d \in Docs /\ Here(d)
      BY <2>3, <3>2
    <3> HIDE DEF d
    <3>5. d \notin strays => d \in Leaving(todo[r])
      BY <1>1, <3>1, <3>4 DEF Listed, Leaving, Present
    <3>3. version[u].doc \notin strays => version[u].doc \in Leaving(todo[r])
      BY <3>5 DEF d
    <3> QED BY <2>3, <3>1, <3>2, <3>3 DEF RemoveDocuments
  <2>5. ASSUME NEW r \in Requests, CommitDeleteKnowledgeBase(r)
        PROVE  Goes(u)
    BY <2>3, <2>5 DEF CommitDeleteKnowledgeBase
  <2> QED BY <1>1, <2>1, <2>2, <2>4, <2>5, Shapes
<1>2. Base /\ [Next]_vars =>
        [\A u \in Uploads : version[u] # NoVersion /\ version'[u] # version[u] => Goes(u)]_vars
  BY <1>1
<1> QED
  BY <1>2, AlwaysBase, PTL DEF Spec, VersionsKept

-----------------------------------------------------------------------------
(* FilesIntact *)

\* A request that completes an upload is the only one, and its upload is not
\* complete; once stored, the content stays.
Completers ==
    \A r \in Requests : todo[r].kind \in {"complete", "completed"} =>
        /\ session[todo[r].upload] \in {"pending", "expired", "gone"}
        /\ Completing(todo[r].upload) = {r}
        /\ \/ todo[r].kind = "complete" \/ session[todo[r].upload] = "gone"
           \/ staged[todo[r].upload] = todo[r].content

\* A request for a version has read the content its hash was computed of.
Binders == \A r \in Requests : todo[r].kind = "bind" => todo[r].content = todo[r].hash

\* The files that versions name.
Keys == StoredKeys(Docs)

\* What a request that deletes something will delete is, or will be when it is
\* committed, of uploads and versions that are gone.
Cleaners ==
    \A r \in Requests :
        /\ todo[r].kind = "delete" =>
              /\ \A u \in todo[r].staged :
                    session[u] = "gone" \/ (Known(u) /\ about[u] \in todo[r].docs)
              /\ \A k \in todo[r].stored : k[2] \in todo[r].docs
        /\ todo[r].kind = "deletekb" =>
              \A u \in todo[r].staged : session[u] = "gone" \/ Known(u)
        /\ todo[r].kind = "clean" =>
              /\ \A u \in todo[r].staged : session[u] = "gone"
              /\ \A k \in todo[r].stored : k \notin Keys

\* The invariant that keeps the files.
Kept == Completers /\ Binders /\ Cleaners /\ FilesIntact

\* What is gone stays gone, and an upload keeps its document until it is gone.
LEMMA GoneForGood ==
    ASSUME Base, [Next]_vars
    PROVE  /\ \A d \in Docs : /\ status[d] = "gone" => status'[d] = "gone"
                              /\ status[d] # "unborn" => status'[d] # "unborn"
           /\ \A u \in Uploads :
                 /\ session[u] = "gone" => session'[u] = "gone"
                 /\ Known(u) => session'[u] = "gone" \/ (Known(u)' /\ about'[u] = about[u])
<1> DEFINE Goal == /\ \A d \in Docs : /\ status[d] = "gone" => status'[d] = "gone"
                                      /\ status[d] # "unborn" => status'[d] # "unborn"
                   /\ \A u \in Uploads :
                         /\ session[u] = "gone" => session'[u] = "gone"
                         /\ Known(u) => session'[u] = "gone" \/ (Known(u)' /\ about'[u] = about[u])
<1> USE DEF Base, TypeOK, documents, places, uploads, files
<1>1. CASE UNCHANGED <<status, session, about>>
  BY <1>1 DEF Known
<1>2. CASE ArchiveKnowledgeBase \/ \E d \in Docs : Touches(d)
  BY <1>2 DEF ArchiveKnowledgeBase, Touches, ArchiveDocument, RestoreDocument, MoveDocument, Open, Known
<1>3. CASE \E u \in Uploads : ExpireUpload(u) \/ \E d \in Docs \cup {NoDoc} : InitiateUpload(u, d)
  BY <1>3 DEF ExpireUpload, InitiateUpload, Known
<1>4. CASE RestoreKnowledgeBase
  BY <1>1, <1>4 DEF RestoreKnowledgeBase
<1>5. ASSUME NEW r \in Requests, Fails(r) PROVE Goal
  BY <1>1, <1>5 DEF Fails
<1>6. CASE \E r \in Requests : \/ Creates(r) \/ StoreStaged(r) \/ BeginDeleteKnowledgeBase(r)
                               \/ DeleteFiles(r)
                               \/ \E u \in Uploads, c \in Contents : BeginComplete(r, u, c)
                               \/ \E u \in Uploads, d \in Docs : BeginBind(r, u, d)
                               \/ Deletes(r)
  BY <1>1, <1>6 DEF Creates, BeginCreate, StoreStaged, BeginDeleteKnowledgeBase, DeleteFiles, BeginComplete,
     BeginBind, Deletes, BeginDeleteDocument, BeginDeleteFolder, BeginDelete
<1>7. ASSUME NEW r \in Requests, CommitCreate(r) \/ CommitBind(r), ~Fails(r) PROVE Goal
  BY <1>7 DEF CommitCreate, Create, CommitBind, Known, Here
<1>8. ASSUME NEW r \in Requests, CommitComplete(r), ~Fails(r) PROVE Goal
  BY <1>8 DEF CommitComplete, Known
<1>9. ASSUME NEW r \in Requests, CommitDelete(r), ~Fails(r) PROVE Goal
  <2>1. RemoveDocuments(todo[r])
    BY <1>9 DEF CommitDelete
  <2> QED BY <2>1 DEF RemoveDocuments, Known
<1>10. ASSUME NEW r \in Requests, CommitDeleteKnowledgeBase(r) PROVE Goal
  BY <1>10 DEF CommitDeleteKnowledgeBase, Known, Here
<1> QED
  BY <1>1, <1>2, <1>3, <1>4, <1>5, <1>6, <1>7, <1>8, <1>9, <1>10 DEF Next, Touches, Creates, Deletes, vars, RequestDies

\* How a request goes on.
Moves(r) ==
    \/ todo'[r] = todo[r]
    \/ todo'[r] = Idle
    \/ Creates(r)
    \/ \E u \in Uploads, c \in Contents : BeginComplete(r, u, c)
    \/ StoreStaged(r)
    \/ \E u \in Uploads, d \in Docs : BeginBind(r, u, d)
    \/ Deletes(r)
    \/ CommitDelete(r) /\ ~Fails(r)
    \/ BeginDeleteKnowledgeBase(r)
    \/ CommitDeleteKnowledgeBase(r)

\* One request is changed by a step, if any.
LEMMA OneMoves ==
    ASSUME Base, [Next]_vars, NEW r \in Requests
    PROVE  Moves(r) /\ \A q \in Requests : q # r /\ todo'[q] # todo[q] => todo'[r] = todo[r]
<1> DEFINE Goal == Moves(r) /\ \A q \in Requests : q # r /\ todo'[q] # todo[q] => todo'[r] = todo[r]
<1> SUFFICES Goal
  OBVIOUS
<1> USE DEF Base, TypeOK, documents, places, uploads, files
<1>1. CASE UNCHANGED todo
  BY <1>1 DEF Moves
<1>2. ASSUME NEW p \in Requests, NEW c, Begin(p, c) \/ Continue(p, c), p = r => Moves(r) PROVE Goal
  BY <1>2 DEF Begin, Continue, Moves
<1>3. ASSUME NEW p \in Requests, End(p) PROVE Goal
  BY <1>3 DEF End, Continue, Moves
<1>4. ASSUME NEW p \in Requests, Fails(p) PROVE Goal
  BY <1>3, <1>4 DEF Fails
<1>5. CASE \/ ArchiveKnowledgeBase \/ RestoreKnowledgeBase
           \/ \E d \in Docs : Touches(d)
           \/ \E u \in Uploads : ExpireUpload(u) \/ \E d \in Docs \cup {NoDoc} : InitiateUpload(u, d)
  <2>1. UNCHANGED todo
    BY <1>5 DEF ArchiveKnowledgeBase, RestoreKnowledgeBase,
       Touches, ArchiveDocument, RestoreDocument, MoveDocument, ExpireUpload, InitiateUpload
  <2> QED BY <1>1, <2>1
<1>6. ASSUME NEW p \in Requests, Creates(p) PROVE Goal
  <2>1. p = r => Moves(r)
    BY <1>6 DEF Moves
  <2> QED BY <1>2, <1>6, <2>1 DEF Creates, BeginCreate
<1>7. ASSUME NEW p \in Requests,
             \/ CommitCreate(p) \/ CommitComplete(p) \/ CommitBind(p)
             \/ DeleteFiles(p) \/ RequestDies(p)
      PROVE Goal
  <2>1. End(p) \/ Fails(p)
    BY <1>7, Zenon DEF CommitCreate, CommitComplete, CommitBind, DeleteFiles, RequestDies
  <2> QED BY <1>3, <1>4, <2>1
<1>8. ASSUME NEW p \in Requests, NEW u \in Uploads, NEW c \in Contents, BeginComplete(p, u, c) PROVE Goal
  <2>1. p = r => Moves(r)
    BY <1>8 DEF Moves
  <2> QED BY <1>2, <1>8, <2>1 DEF BeginComplete
<1>9. ASSUME NEW p \in Requests, StoreStaged(p) PROVE Goal
  <2>1. p = r => Moves(r)
    BY <1>9 DEF Moves
  <2> QED BY <1>2, <1>9, <2>1 DEF StoreStaged
<1>10. ASSUME NEW p \in Requests, NEW u \in Uploads, NEW d \in Docs, BeginBind(p, u, d) PROVE Goal
  <2>1. p = r => Moves(r)
    BY <1>10 DEF Moves
  <2> QED BY <1>2, <1>10, <2>1 DEF BeginBind
<1>11. ASSUME NEW p \in Requests, Deletes(p) PROVE Goal
  <2>1. p = r => Moves(r)
    BY <1>11 DEF Moves
  <2> QED BY <1>2, <1>11, <2>1 DEF Deletes, BeginDeleteDocument, BeginDeleteFolder, BeginDelete
<1>12. ASSUME NEW p \in Requests, CommitDelete(p), ~Fails(p) PROVE Goal
  <2>1. p = r => Moves(r)
    BY <1>12 DEF Moves
  <2> QED BY <1>2, <1>12, <2>1 DEF CommitDelete
<1>13. ASSUME NEW p \in Requests, BeginDeleteKnowledgeBase(p) PROVE Goal
  <2>1. p = r => Moves(r)
    BY <1>13 DEF Moves
  <2> QED BY <1>2, <1>13, <2>1 DEF BeginDeleteKnowledgeBase
<1>14. ASSUME NEW p \in Requests, CommitDeleteKnowledgeBase(p) PROVE Goal
  <2>1. p = r => Moves(r)
    BY <1>14 DEF Moves
  <2> QED BY <1>2, <1>14, <2>1 DEF CommitDeleteKnowledgeBase
<1> HIDE DEF Goal
<1> QED
  BY <1>1, <1>4, <1>5, <1>6, <1>7, <1>8, <1>9, <1>10, <1>11, <1>12, <1>13, <1>14 DEF Next, Touches, Creates, Deletes, vars

\* A request for a version copies the checksum of a complete upload.
LEMMA StepBinders ==
    ASSUME Base, Kept, [Next]_vars
    PROVE  Binders'
<1> SUFFICES ASSUME NEW r \in Requests, todo'[r].kind = "bind" PROVE todo'[r].content = todo'[r].hash
  BY DEF Binders
<1>1. CASE todo'[r] = todo[r]
  BY <1>1 DEF Kept, Binders
<1>2. CASE \E u \in Uploads, d \in Docs : BeginBind(r, u, d)
  <2>1. PICK u \in Uploads, d \in Docs : BeginBind(r, u, d)
    BY <1>2
  <2>2. todo'[r].content = staged[u] /\ todo'[r].hash = digest[u]
    BY <2>1 DEF BeginBind, Begin, Base, TypeOK
  <2>3. session[u] = "completed"
    BY <2>1 DEF BeginBind
  <2> QED BY <2>2, <2>3 DEF Kept, FilesIntact
<1> QED
  BY <1>1, <1>2, BindsKept

\* A file that a request is about to delete is not named by a new version.
LEMMA KeysFrom ==
    ASSUME Base, [Next]_vars, NEW q \in Requests, todo[q].kind = "clean",
           NEW k \in todo[q].stored, k \notin Keys
    PROVE  k \notin Keys'
<1> USE DEF Base, TypeOK
<1>1. k \in Uploads \X Docs
  BY DEF Commands, Idle
<1>2. SUFFICES ASSUME NEW u \in Uploads, version'[u] # NoVersion, k = <<u, version'[u].doc>>
               PROVE  FALSE
  BY DEF Keys, StoredKeys, Versions
<1>3. CASE version'[u] = version[u]
  BY <1>1, <1>2, <1>3 DEF Keys, StoredKeys, Versions
<1>4. CASE version'[u] # version[u]
  <2>1. ~Quiet
    BY <1>4 DEF Quiet
  <2>2. ASSUME NEW r \in Requests, CommitCreate(r), ~Fails(r) PROVE FALSE
    BY <1>4, <2>2 DEF CommitCreate
  <2>3. ASSUME NEW r \in Requests, CommitDelete(r), ~Fails(r) PROVE FALSE
    BY <1>2, <1>4, <2>3 DEF CommitDelete, RemoveDocuments
  <2>4. ASSUME NEW r \in Requests, CommitDeleteKnowledgeBase(r) PROVE FALSE
    BY <1>2, <2>4 DEF CommitDeleteKnowledgeBase
  <2>5. ASSUME NEW r \in Requests, CommitBind(r), ~Fails(r) PROVE FALSE
    <3>1. /\ todo[r].upload \in Uploads /\ Unlisted(todo[r].upload, todo[r].doc)
          /\ version' = [version EXCEPT ![todo[r].upload] =
                [doc |-> todo[r].doc, number |-> todo[r].number, hash |-> todo[r].hash]]
      BY <2>5 DEF CommitBind, Commands, Idle
    <3>2. u = todo[r].upload /\ version'[u].doc = todo[r].doc
      BY <1>4, <3>1
    <3> QED BY <1>2, <3>1, <3>2 DEF Unlisted
  <2> QED BY <2>1, <2>2, <2>3, <2>4, <2>5, Shapes
<1> QED
  BY <1>3, <1>4

\* The rows that name the files to delete are gone when a request deletes them.
LEMMA StepCleaners ==
    ASSUME Base, Kept, [Next]_vars, TypeOK', NEW r \in Requests
    PROVE  /\ todo'[r].kind = "delete" =>
                /\ \A u \in todo'[r].staged :
                      session'[u] = "gone" \/ (Known(u)' /\ about'[u] \in todo'[r].docs)
                /\ \A k \in todo'[r].stored : k[2] \in todo'[r].docs
           /\ todo'[r].kind = "deletekb" =>
                \A u \in todo'[r].staged : session'[u] = "gone" \/ Known(u)'
           /\ todo'[r].kind = "clean" =>
                /\ \A u \in todo'[r].staged : session'[u] = "gone"
                /\ \A k \in todo'[r].stored : k \notin Keys'
<1> DEFINE Goal == /\ todo'[r].kind = "delete" =>
                        /\ \A u \in todo'[r].staged :
                              session'[u] = "gone" \/ (Known(u)' /\ about'[u] \in todo'[r].docs)
                        /\ \A k \in todo'[r].stored : k[2] \in todo'[r].docs
                   /\ todo'[r].kind = "deletekb" =>
                        \A u \in todo'[r].staged : session'[u] = "gone" \/ Known(u)'
                   /\ todo'[r].kind = "clean" =>
                        /\ \A u \in todo'[r].staged : session'[u] = "gone"
                        /\ \A k \in todo'[r].stored : k \notin Keys'
<1> SUFFICES Goal
  OBVIOUS
<1>1. ASSUME NEW q \in Requests, todo[q].kind \in {"delete", "deletekb", "clean"}
      PROVE  /\ todo[q].staged \subseteq Uploads /\ todo[q].stored \subseteq Uploads \X Docs
             /\ todo[q].kind = "delete" => todo[q].docs \subseteq Docs
  BY <1>1 DEF Base, TypeOK, Commands, Idle
<1>2. CASE todo'[r] = todo[r]
  <2>1. \A k \in todo[r].stored : todo[r].kind = "clean" => k \notin Keys'
    BY KeysFrom DEF Kept, Cleaners
  <2>2. \A u \in Uploads :
           /\ session[u] = "gone" => session'[u] = "gone"
           /\ Known(u) => session'[u] = "gone" \/ (Known(u)' /\ about'[u] = about[u])
    BY GoneForGood
  <2> QED BY <1>1, <1>2, <2>1, <2>2 DEF Kept, Cleaners
<1>3. ASSUME Deletes(r) PROVE Goal
  <2>0. PICK ds \in SUBSET Docs, fs \in SUBSET Folders : BeginDelete(r, ds, fs)
    BY <1>3, DeletionsBegin
  <2>1. /\ todo'[r].kind = "delete" /\ todo'[r].docs = ds
        /\ todo'[r].staged = StagedKeys(ds) /\ todo'[r].stored = StoredKeys(ds)
    BY <2>0 DEF BeginDelete, Begin, Base, TypeOK
  <2>2. UNCHANGED <<session, about>>
    BY <2>0 DEF BeginDelete, uploads
  <2>3. \A k \in StoredKeys(ds) : k[2] \in ds
    BY DEF StoredKeys, Versions
  <2> QED BY <2>1, <2>2, <2>3 DEF StagedKeys, Known
<1>4. ASSUME CommitDelete(r), ~Fails(r) PROVE Goal
  <2>1. /\ todo[r].kind = "delete" /\ RemoveDocuments(todo[r])
        /\ todo'[r].kind = "clean"
        /\ todo'[r].staged = todo[r].staged /\ todo'[r].stored = todo[r].stored
    BY <1>4 DEF CommitDelete, Clean, Continue, Base, TypeOK
  <2>2. \A u \in todo[r].staged : session[u] = "gone" \/ about[u] \in todo[r].docs
    BY <2>1 DEF Kept, Cleaners
  <2>3. \A k \in todo[r].stored : k[2] \in todo[r].docs
    BY <2>1 DEF Kept, Cleaners
  <2>4. \A u \in Uploads : version'[u] # NoVersion => version'[u].doc \notin todo[r].docs
    BY <2>1 DEF RemoveDocuments, Doomed, Versions
  <2>5. \A k \in Keys' : k[2] \notin todo[r].docs
    BY <2>4 DEF Keys, StoredKeys, Versions
  <2>6. \A u \in todo[r].staged : session'[u] = "gone"
    BY <1>1, <2>1, <2>2 DEF RemoveDocuments
  <2> QED BY <2>1, <2>3, <2>5, <2>6
<1>5. ASSUME BeginDeleteKnowledgeBase(r) PROVE Goal
  <2>1. todo'[r].kind = "deletekb" /\ todo'[r].staged = {u \in Uploads : Known(u)}
    BY <1>5 DEF BeginDeleteKnowledgeBase, Begin, Base, TypeOK
  <2>2. UNCHANGED session
    BY <1>5 DEF BeginDeleteKnowledgeBase, uploads
  <2> QED BY <2>1, <2>2 DEF Known
<1>6. ASSUME CommitDeleteKnowledgeBase(r) PROVE Goal
  <2>1. /\ todo[r].kind = "deletekb" /\ todo'[r].kind = "clean"
        /\ todo'[r].staged = todo[r].staged /\ todo'[r].stored = todo[r].stored
    BY <1>6 DEF CommitDeleteKnowledgeBase, Clean, Continue, Base, TypeOK
  <2>2. \A u \in todo[r].staged : session[u] = "gone" \/ Known(u)
    BY <2>1 DEF Kept, Cleaners
  <2>3. Keys' = {}
    BY <1>6 DEF CommitDeleteKnowledgeBase, Keys, StoredKeys, Versions
  <2>5. \A u \in Uploads : session[u] = "gone" \/ Known(u) => session'[u] = "gone"
    BY <1>6 DEF CommitDeleteKnowledgeBase, Base, TypeOK
  <2> QED BY <1>1, <2>1, <2>2, <2>3, <2>5
<1>7. CASE todo'[r].kind \notin {"delete", "deletekb", "clean"}
  BY <1>7
<1>8. CASE \/ \E u \in Uploads, c \in Contents : BeginComplete(r, u, c)
           \/ StoreStaged(r)
           \/ \E u \in Uploads, d \in Docs : BeginBind(r, u, d)
  <2>1. todo'[r].kind \in {"complete", "completed", "bind"}
    BY <1>8 DEF BeginComplete, StoreStaged, BeginBind, Begin, Continue, Base, TypeOK
  <2> QED BY <1>7, <2>1
<1>9. CASE todo'[r] = Idle \/ Creates(r)
  BY <1>7, <1>9 DEF Idle, Creates, BeginCreate, Begin, Base, TypeOK
<1> HIDE DEF Goal
<1> QED
  BY <1>2, <1>3, <1>4, <1>5, <1>6, <1>8, <1>9, OneMoves DEF Moves

-----------------------------------------------------------------------------
\* An upload that is not complete becomes so by the one request for it.
LEMMA CompletedByOne ==
    ASSUME Base, Kept, [Next]_vars, NEW u \in Uploads, session[u] \in {"pending", "expired", "gone"}
    PROVE  \/ session'[u] \in {"pending", "expired", "gone"}
           \/ \E q \in Requests : /\ todo[q].kind = "completed" /\ todo[q].upload = u
                                  /\ staged[u] = todo[q].content /\ digest'[u] = todo[q].content
                                  /\ staged' = staged /\ todo'[q] = Idle
<1> DEFINE Goal == \/ session'[u] \in {"pending", "expired", "gone"}
                   \/ \E q \in Requests : /\ todo[q].kind = "completed" /\ todo[q].upload = u
                                          /\ staged[u] = todo[q].content /\ digest'[u] = todo[q].content
                                          /\ staged' = staged /\ todo'[q] = Idle
<1> SUFFICES Goal
  OBVIOUS
<1> USE DEF Base, TypeOK, documents, places, uploads, files
<1>1. CASE UNCHANGED session
  BY <1>1
<1>2. ASSUME NEW r \in Requests, CommitComplete(r) PROVE Goal
  <2>1. CASE Fails(r)
    BY <1>1, <2>1 DEF Fails
  <2>2. CASE ~Fails(r)
    <3>1. /\ todo[r].kind = "completed" /\ Known(todo[r].upload) /\ todo[r].upload \in Uploads
          /\ staged' = staged /\ todo'[r] = Idle
          /\ session' = [session EXCEPT ![todo[r].upload] = "completed"]
          /\ digest' = [digest EXCEPT ![todo[r].upload] = todo[r].content]
      BY <1>2, <2>2 DEF CommitComplete, End, Continue, Commands, Idle
    <3>2. staged[todo[r].upload] = todo[r].content
      BY <3>1 DEF Kept, Completers, Known
    <3>3. CASE u = todo[r].upload
      BY <3>1, <3>2, <3>3
    <3>4. CASE u # todo[r].upload
      BY <3>1, <3>4
    <3> QED BY <3>3, <3>4
  <2> QED BY <2>1, <2>2
<1>3. CASE \E r \in Requests : CommitDelete(r) \/ CommitDeleteKnowledgeBase(r)
  BY <1>3 DEF CommitDelete, RemoveDocuments, CommitDeleteKnowledgeBase, Fails
<1>4. CASE \E v \in Uploads : ExpireUpload(v) \/ \E d \in Docs \cup {NoDoc} : InitiateUpload(v, d)
  BY <1>4 DEF ExpireUpload, InitiateUpload
<1> HIDE DEF Goal
<1>5. CASE \/ ArchiveKnowledgeBase \/ RestoreKnowledgeBase
           \/ \E d \in Docs : Touches(d)
  BY <1>1, <1>5 DEF ArchiveKnowledgeBase, RestoreKnowledgeBase,
     Touches, ArchiveDocument, RestoreDocument, MoveDocument
<1>6. CASE \E r \in Requests :
              \/ CommitCreate(r) \/ CommitBind(r) \/ Creates(r) \/ StoreStaged(r)
              \/ BeginDeleteKnowledgeBase(r) \/ DeleteFiles(r) \/ RequestDies(r)
              \/ \E v \in Uploads, c \in Contents : BeginComplete(r, v, c)
              \/ \E v \in Uploads, d \in Docs : BeginBind(r, v, d)
              \/ Deletes(r)
  <2>1. UNCHANGED session
    BY <1>6 DEF CommitCreate, CommitBind, Creates, BeginCreate, StoreStaged, BeginDeleteKnowledgeBase,
       DeleteFiles, RequestDies, BeginComplete, BeginBind, Deletes, BeginDeleteDocument, BeginDeleteFolder, BeginDelete, Fails
  <2> QED BY <1>1, <2>1
<1> QED
  BY <1>1, <1>2, <1>3, <1>4, <1>5, <1>6 DEF Next, Touches, Creates, Deletes, vars

\* Who changes a staging file: the one request for the upload, or one that
\* deletes it after the upload is gone.
LEMMA StagedBy ==
    ASSUME Base, Kept, [Next]_vars, NEW u \in Uploads, staged'[u] # staged[u]
    PROVE  \/ session[u] = "gone"
           \/ \E q \in Requests : StoreStaged(q) /\ todo[q].upload = u
<1> USE DEF Base, TypeOK, documents, places, uploads, files
<1>1. ASSUME NEW r \in Requests, StoreStaged(r) PROVE todo[r].upload = u
  <2>1. todo[r].upload \in Uploads
    BY <1>1 DEF StoreStaged, Commands, Idle
  <2> QED BY <1>1, <2>1 DEF StoreStaged
<1>2. ASSUME NEW r \in Requests, DeleteFiles(r) PROVE session[u] = "gone"
  BY <1>2 DEF DeleteFiles, Kept, Cleaners
<1>3. CASE \/ ArchiveKnowledgeBase \/ RestoreKnowledgeBase
           \/ \E d \in Docs : Touches(d)
           \/ \E v \in Uploads : ExpireUpload(v) \/ \E d \in Docs \cup {NoDoc} : InitiateUpload(v, d)
  BY <1>3 DEF ArchiveKnowledgeBase, RestoreKnowledgeBase,
     Touches, ArchiveDocument, RestoreDocument, MoveDocument, ExpireUpload, InitiateUpload
<1>4. CASE \E r \in Requests :
              \/ Creates(r) \/ CommitCreate(r) \/ CommitComplete(r) \/ CommitBind(r)
              \/ CommitDelete(r) \/ CommitDeleteKnowledgeBase(r)
              \/ BeginDeleteKnowledgeBase(r) \/ RequestDies(r)
              \/ \E v \in Uploads, c \in Contents : BeginComplete(r, v, c)
              \/ \E v \in Uploads, d \in Docs : BeginBind(r, v, d)
              \/ Deletes(r)
  BY <1>4 DEF CommitCreate, CommitBind, Creates, BeginCreate, CommitComplete, CommitDelete,
     CommitDeleteKnowledgeBase, BeginDeleteKnowledgeBase,
     RequestDies, BeginComplete, BeginBind, Deletes, BeginDeleteDocument, BeginDeleteFolder, BeginDelete, Fails
<1> QED
  BY <1>1, <1>2, <1>3, <1>4 DEF Next, Touches, Creates, Deletes, vars

\* One request completes an upload, and what it stored stays.
LEMMA StepCompleters ==
    ASSUME Base, Kept, [Next]_vars, TypeOK', OneCompletion,
           NEW r \in Requests, todo'[r].kind \in {"complete", "completed"}
    PROVE  /\ session'[todo'[r].upload] \in {"pending", "expired", "gone"}
           /\ \A q \in Requests :
                 todo'[q].kind \in {"complete", "completed"} /\ todo'[q].upload = todo'[r].upload => q = r
           /\ \/ todo'[r].kind = "complete" \/ session'[todo'[r].upload] = "gone"
              \/ staged'[todo'[r].upload] = todo'[r].content
<1>1. todo'[r].upload \in Uploads
  BY DEF TypeOK, Commands, Idle
<1>2. SUFFICES ASSUME NEW u \in Uploads, u = todo'[r].upload
               PROVE  /\ session'[u] \in {"pending", "expired", "gone"}
                      /\ \A q \in Requests :
                            todo'[q].kind \in {"complete", "completed"} /\ todo'[q].upload = u => q = r
                      /\ \/ todo'[r].kind = "complete" \/ session'[u] = "gone"
                         \/ staged'[u] = todo'[r].content
  BY <1>1
\* How a request comes to complete u.
<1>3. ASSUME NEW q \in Requests, todo'[q].kind \in {"complete", "completed"}, todo'[q].upload = u
      PROVE  \/ /\ todo'[q] = todo[q] \/ StoreStaged(q)
                /\ todo[q].kind \in {"complete", "completed"} /\ todo[q].upload = u
             \/ /\ session[u] = "pending" /\ session' = session /\ Completing(u) = {}
                /\ todo'[q].kind = "complete" /\ todo'[q] # todo[q]
  <2>1. CASE todo'[q] = todo[q]
    BY <1>3, <2>1
  <2>2. CASE StoreStaged(q)
    BY <1>3, <2>2 DEF StoreStaged, Continue, Base, TypeOK
  <2>3. ASSUME NEW v \in Uploads, NEW c \in Contents, BeginComplete(q, v, c)
        PROVE  /\ session[u] = "pending" /\ session' = session /\ Completing(u) = {}
               /\ todo'[q].kind = "complete" /\ todo'[q] # todo[q]
    <3>1. todo'[q].upload = v /\ todo'[q].kind = "complete" /\ todo[q].kind = "idle"
      BY <2>3 DEF BeginComplete, Begin, Idle, Base, TypeOK
    <3> QED BY <1>3, <2>3, <3>1 DEF BeginComplete, uploads
  <2>4. CASE todo'[q] = Idle \/ Creates(q)
    BY <1>3, <2>4 DEF Idle, Creates, BeginCreate, Begin, Base, TypeOK
  <2>5. CASE \/ \E v \in Uploads, d \in Docs : BeginBind(q, v, d)
             \/ BeginDeleteKnowledgeBase(q)
    BY <1>3, <2>5 DEF BeginBind, BeginDeleteKnowledgeBase, Begin, Base, TypeOK
  <2>7. CASE Deletes(q)
    BY <1>3, <2>7, DeletionsBegin DEF BeginDelete, Begin, Base, TypeOK
  <2>6. CASE (CommitDelete(q) /\ ~Fails(q)) \/ CommitDeleteKnowledgeBase(q)
    BY <1>3, <2>6 DEF CommitDelete, CommitDeleteKnowledgeBase, Clean, Continue, Base, TypeOK
  <2> QED BY <2>1, <2>2, <2>3, <2>4, <2>5, <2>6, <2>7, OneMoves DEF Moves
<1>4. ASSUME NEW q \in Requests, todo[q].kind \in {"complete", "completed"}, todo[q].upload = u
      PROVE  /\ Completing(u) = {q} /\ session[u] \in {"pending", "expired", "gone"}
             /\ todo[q].kind = "complete" \/ session[u] = "gone" \/ staged[u] = todo[q].content
  BY <1>4 DEF Kept, Completers
<1>5. ASSUME NEW q \in Requests, todo'[q].kind \in {"complete", "completed"}, todo'[q].upload = u
      PROVE q = r
  <2>1. CASE q \in Completing(u) /\ r \in Completing(u)
    BY <1>4, <2>1 DEF Completing
  <2>2. CASE Completing(u) = {} /\ todo'[q] # todo[q] /\ todo'[r] # todo[r]
    BY <2>2, OneMoves
  <2>3. CASE Completing(u) = {} /\ (q \in Completing(u) \/ r \in Completing(u))
    BY <2>3
  <2> QED BY <1>2, <1>3, <1>5, <2>1, <2>2, <2>3 DEF Completing
<1>6. session'[u] \in {"pending", "expired", "gone"}
  <2>1. CASE session[u] = "pending" /\ session' = session
    BY <2>1
  <2>2. CASE /\ todo'[r] = todo[r] \/ StoreStaged(r)
             /\ todo[r].kind \in {"complete", "completed"} /\ todo[r].upload = u
    <3>1. session[u] \in {"pending", "expired", "gone"} /\ Completing(u) = {r}
      BY <1>4, <2>2
    <3>2. ASSUME NEW q \in Requests, todo[q].kind = "completed", todo[q].upload = u, todo'[q] = Idle
          PROVE  FALSE
      <4>1. q = r
        BY <3>1, <3>2 DEF Completing
      <4> QED BY <1>2, <3>2, <4>1 DEF Idle
    <3> QED BY <3>1, <3>2, CompletedByOne
  <2> QED BY <1>2, <1>3, <2>1, <2>2
<1>7. todo'[r].kind = "complete" \/ session'[u] = "gone" \/ staged'[u] = todo'[r].content
  <2>1. CASE StoreStaged(r) /\ todo[r].upload = u
    BY <2>1 DEF StoreStaged, Continue, Base, TypeOK
  <2>2. CASE todo'[r] = todo[r] /\ todo[r].kind = "completed"
    <3>1. session[u] = "gone" \/ staged[u] = todo[r].content
      BY <1>2, <1>4, <2>2
    <3>2. session[u] = "gone" => session'[u] = "gone"
      BY GoneForGood
    <3>3. ASSUME NEW q \in Requests, StoreStaged(q), todo[q].upload = u PROVE FALSE
      <4>1. q = r
        BY <1>2, <1>4, <2>2, <3>3 DEF StoreStaged, Completing
      <4> QED BY <2>2, <3>3, <4>1 DEF StoreStaged
    <3> QED BY <2>2, <3>1, <3>2, <3>3, StagedBy
  <2>3. CASE todo'[r] = todo[r] /\ todo[r].kind = "complete"
    BY <2>3
  <2> QED BY <1>2, <1>3, <2>1, <2>2, <2>3
<1> QED
  BY <1>5, <1>6, <1>7

\* Files of versions, and of complete uploads, are not touched.
LEMMA StepFilesIntact ==
    ASSUME Base, Kept, [Next]_vars, TypeOK', VersionsOfPresent', NEW u \in Uploads
    PROVE  /\ version'[u] # NoVersion => <<u, version'[u].doc, version'[u].hash>> \in stored'
           /\ session'[u] = "completed" => staged'[u] = digest'[u]
<1> DEFINE File == version'[u] # NoVersion => <<u, version'[u].doc, version'[u].hash>> \in stored'
           Upload == session'[u] = "completed" => staged'[u] = digest'[u]
<1> SUFFICES File /\ Upload
  OBVIOUS
<1> USE DEF Base, TypeOK, documents, places, uploads, files
<1>1. /\ version[u] # NoVersion => <<u, version[u].doc, version[u].hash>> \in stored
      /\ session[u] = "completed" => staged[u] = digest[u]
  BY DEF Kept, FilesIntact
<1>2. CASE UNCHANGED <<version, session, digest, files>>
  BY <1>1, <1>2
<1>3. ASSUME NEW r \in Requests, Fails(r) PROVE File /\ Upload
  BY <1>2, <1>3 DEF Fails
<1>4. ASSUME NEW r \in Requests, StoreStaged(r) PROVE File /\ Upload
  <2>1. todo[r].upload \in Uploads /\ session[todo[r].upload] # "completed"
    BY <1>4 DEF StoreStaged, Kept, Completers, Commands, Idle
  <2> QED BY <1>1, <1>4, <2>1 DEF StoreStaged
<1>5. ASSUME NEW r \in Requests, CommitComplete(r), ~Fails(r) PROVE File /\ Upload
  <2>1. /\ Known(todo[r].upload) /\ todo[r].upload \in Uploads
        /\ session' = [session EXCEPT ![todo[r].upload] = "completed"]
        /\ digest' = [digest EXCEPT ![todo[r].upload] = todo[r].content]
        /\ UNCHANGED <<version, files>>
    BY <1>5 DEF CommitComplete, Commands, Idle
  <2>2. staged[todo[r].upload] = todo[r].content
    BY <1>5, <2>1 DEF CommitComplete, Kept, Completers, Known
  <2> QED BY <1>1, <2>1, <2>2
<1>6. ASSUME NEW r \in Requests, CommitBind(r), ~Fails(r) PROVE File /\ Upload
  <2>1. /\ todo[r].upload \in Uploads
        /\ version' = [version EXCEPT ![todo[r].upload] =
               [doc |-> todo[r].doc, number |-> todo[r].number, hash |-> todo[r].hash]]
        /\ stored' = stored \cup {<<todo[r].upload, todo[r].doc, todo[r].content>>}
        /\ UNCHANGED <<session, digest, staged>>
    BY <1>6 DEF CommitBind, Commands, Idle
  <2>2. todo[r].content = todo[r].hash
    BY <1>6 DEF CommitBind, Kept, Binders
  <2>3. CASE u = todo[r].upload
    BY <1>1, <2>1, <2>2, <2>3
  <2>4. CASE u # todo[r].upload
    BY <1>1, <2>1, <2>4
  <2> QED BY <2>3, <2>4
<1>7. ASSUME NEW r \in Requests, CommitDelete(r), ~Fails(r) PROVE File /\ Upload
  <2>1. RemoveDocuments(todo[r]) /\ UNCHANGED files
    BY <1>7 DEF CommitDelete
  <2> QED BY <1>1, <2>1 DEF RemoveDocuments
<1>8. ASSUME NEW r \in Requests, CommitDeleteKnowledgeBase(r) PROVE File /\ Upload
  BY <1>1, <1>8 DEF CommitDeleteKnowledgeBase, Known
<1>9. ASSUME NEW r \in Requests, DeleteFiles(r) PROVE File /\ Upload
  <2>1. UNCHANGED <<version, session, digest, status>>
    BY <1>9 DEF DeleteFiles
  <2>2. File
    <3>1. SUFFICES ASSUME version[u] # NoVersion
                   PROVE  <<u, version[u].doc, version[u].hash>> \in stored'
      BY <2>1
    <3>2. <<u, version[u].doc>> \in Keys
      BY <3>1 DEF Keys, StoredKeys, Versions
    <3>3. <<u, version[u].doc>> \notin todo[r].stored
      BY <1>9, <3>2 DEF DeleteFiles, Kept, Cleaners
    <3> QED BY <1>1, <1>9, <3>1, <3>3 DEF DeleteFiles
  <2>3. Upload
    <3>1. session[u] = "completed" => u \notin todo[r].staged
      BY <1>9 DEF DeleteFiles, Kept, Cleaners
    <3> QED BY <1>1, <1>9, <2>1, <3>1 DEF DeleteFiles
  <2> QED BY <2>2, <2>3
<1>10. ASSUME NEW v \in Uploads, ExpireUpload(v) \/ \E d \in Docs \cup {NoDoc} : InitiateUpload(v, d)
       PROVE File /\ Upload
  BY <1>1, <1>10 DEF ExpireUpload, InitiateUpload
<1>11. CASE \/ ArchiveKnowledgeBase \/ RestoreKnowledgeBase
            \/ \E d \in Docs : Touches(d)
  <2>1. UNCHANGED <<version, session, digest, files>>
    BY <1>11 DEF ArchiveKnowledgeBase, RestoreKnowledgeBase,
       Touches, ArchiveDocument, RestoreDocument, MoveDocument
  <2> QED BY <1>2, <2>1
<1>12. ASSUME NEW r \in Requests,
              \/ Creates(r) \/ BeginDeleteKnowledgeBase(r) \/ RequestDies(r)
              \/ CommitCreate(r)
              \/ \E v \in Uploads, c \in Contents : BeginComplete(r, v, c)
              \/ \E v \in Uploads, d \in Docs : BeginBind(r, v, d)
              \/ Deletes(r)
       PROVE File /\ Upload
  <2>1. UNCHANGED <<version, session, digest, files>>
    BY <1>12 DEF Creates, BeginCreate, BeginDeleteKnowledgeBase, RequestDies, CommitCreate, BeginComplete,
       BeginBind, Deletes, BeginDeleteDocument, BeginDeleteFolder, BeginDelete, Fails
  <2> QED BY <1>2, <2>1
<1> HIDE DEF File, Upload
<1> QED
  BY <1>2, <1>3, <1>4, <1>5, <1>6, <1>7, <1>8, <1>9, <1>10, <1>11, <1>12 DEF Next, Touches, Creates, Deletes, vars

\* Kept is inductive, relative to Base.
LEMMA StepKept ==
    ASSUME Base, Base', Kept, [Next]_vars, OneCompletion
    PROVE  Kept'
<1>1. TypeOK' /\ VersionsOfPresent'
  BY DEF Base
<1>2. Binders'
  BY StepBinders
<1>3. Cleaners'
  BY <1>1, StepCleaners DEF Cleaners
<1>4. Completers'
  BY <1>1, StepCompleters DEF Completers, Completing
<1>5. FilesIntact'
  BY <1>1, StepFilesIntact DEF FilesIntact
<1> QED
  BY <1>2, <1>3, <1>4, <1>5 DEF Kept

\* While no two requests complete the same upload, every version keeps the file
\* with the content its hash was computed of, and every complete upload its own.
THEOREM FilesStay ==
    ASSUME OneCompletion
    PROVE  Spec => []FilesIntact
<1>1. Init => Kept
  BY DEF Init, Kept, Completers, Binders, Cleaners, FilesIntact, Idle
<1>2. Base /\ Base' /\ Kept /\ [Next]_vars => Kept'
  BY StepKept
<1>3. Kept => FilesIntact
  BY DEF Kept
<1> QED
  BY <1>1, <1>2, <1>3, AlwaysBase, PTL DEF Spec

-----------------------------------------------------------------------------
(* CountExact *)

Counting(r) == todo[r].kind \in {"create", "delete"}

\* A request that will change document_count is the only one and has read it as
\* it is, and the documents it deletes are the ones it listed, if none has strayed.
Counters ==
    \A r \in Requests : Counting(r) =>
        /\ \A q \in Requests : Counting(q) => q = r
        /\ kb # "gone" => todo[r].count = count
        /\ kb # "gone" /\ todo[r].kind = "delete" /\ strays = {} => Leaving(todo[r]) = todo[r].docs

Counted == CountExact /\ Counters

\* What a deletion lists is what leaves, as long as nothing is moved.
LEMMA LeavingListed ==
    ASSUME NEW ds \in SUBSET Docs, NEW fs \in SUBSET Folders, NEW t,
           t.docs = ds, t.folders = fs, ds \subseteq Present, fs # {} => ds = InFolders(fs)
    PROVE  Leaving(t) = ds
<1> QED BY DEF Leaving, InFolders

\* A request begins to count when no other one does.
LEMMA CountingFrom ==
    ASSUME Base, [Next]_vars, CountersAlone, NEW r \in Requests, Counting(r)'
    PROVE  \/ todo'[r] = todo[r] /\ Counting(r)
           \/ /\ \A q \in Requests : ~Counting(q)
              /\ todo'[r] # todo[r]
              /\ UNCHANGED <<kb, count, status, places>>
              /\ todo'[r].count = count
              /\ todo'[r].kind = "delete" => Leaving(todo'[r]) = todo'[r].docs
<1> USE DEF Counting
<1>1. CASE todo'[r] = todo[r]
  BY <1>1
<1>2. ASSUME Creates(r) \/ Deletes(r)
      PROVE  /\ \A q \in Requests : ~Counting(q)
             /\ todo'[r] # todo[r]
             /\ UNCHANGED <<kb, count, status, places>>
             /\ todo'[r].count = count
             /\ todo'[r].kind = "delete" => Leaving(todo'[r]) = todo'[r].docs
  <2>1. \A q \in Requests : ~Counting(q)
    BY <1>2 DEF Creates, BeginCreate, Deletes, BeginDeleteDocument, BeginDeleteFolder, BeginDelete, MayCount
  <2>2. CASE Creates(r)
    BY <2>1, <2>2 DEF Creates, BeginCreate, Begin, documents, Idle, Base, TypeOK
  <2>3. ASSUME Deletes(r)
        PROVE  /\ todo'[r] # todo[r] /\ UNCHANGED <<kb, count, status, places>>
               /\ todo'[r].count = count /\ Leaving(todo'[r]) = todo'[r].docs
    <3>1. PICK ds \in SUBSET Docs, fs \in SUBSET Folders :
             BeginDelete(r, ds, fs) /\ ds \subseteq Present /\ (fs # {} => ds = InFolders(fs))
      BY <2>3, DeletionsBegin
    <3>2. /\ todo'[r].docs = ds /\ todo'[r].folders = fs /\ todo'[r].count = count
          /\ todo'[r].kind = "delete" /\ todo[r].kind = "idle"
          /\ UNCHANGED <<kb, count, status, places>>
      BY <3>1 DEF BeginDelete, Begin, documents, Idle, Base, TypeOK
    <3>3. Leaving(todo'[r]) = ds
      BY <3>1, <3>2, LeavingListed
    <3> QED BY <3>2, <3>3
  <2> QED BY <1>2, <2>1, <2>2, <2>3
<1>3. ASSUME todo'[r] # todo[r], ~(Creates(r) \/ Deletes(r))
      PROVE  todo'[r].kind \notin {"create", "delete"}
  <2>1. CASE \/ \E u \in Uploads, c \in Contents : BeginComplete(r, u, c)
             \/ \E u \in Uploads, d \in Docs : BeginBind(r, u, d)
             \/ BeginDeleteKnowledgeBase(r)
    BY <2>1 DEF BeginComplete, BeginBind, BeginDeleteKnowledgeBase, Begin, Base, TypeOK
  <2>2. CASE StoreStaged(r) \/ (CommitDelete(r) /\ ~Fails(r)) \/ CommitDeleteKnowledgeBase(r)
    BY <2>2 DEF StoreStaged, CommitDelete, CommitDeleteKnowledgeBase, Clean, Continue, Base, TypeOK
  <2>3. CASE todo'[r] = Idle
    BY <2>3 DEF Idle
  <2>4. \/ todo'[r] = Idle \/ StoreStaged(r) \/ (CommitDelete(r) /\ ~Fails(r))
        \/ CommitDeleteKnowledgeBase(r) \/ BeginDeleteKnowledgeBase(r)
        \/ \E u \in Uploads, c \in Contents : BeginComplete(r, u, c)
        \/ \E u \in Uploads, d \in Docs : BeginBind(r, u, d)
    BY <1>3, OneMoves, Zenon DEF Moves
  <2> QED BY <2>1, <2>2, <2>3, <2>4
<1> QED
  BY <1>1, <1>2, <1>3

\* The one request that counts writes what is there.
LEMMA StepCounted ==
    ASSUME Base, Base', Counted, [Next]_vars, CountersAlone
    PROVE  Counted'
<1> USE DEF Base, TypeOK
<1>1. IsFiniteSet(Docs) /\ \A ds \in SUBSET Docs : IsFiniteSet(ds) /\ Cardinality(ds) \in Nat
  BY FS_Subset, FS_CardinalityType, CatalogAssumption DEF CatalogAssumption
<1>2. Present \in SUBSET Docs
  BY DEF Present
<1>3. CountExact'
  <2>1. SUFFICES ASSUME kb' # "gone", strays' = {} PROVE count' = Cardinality(Present')
    BY DEF CountExact
  <2>0. strays = {}
    BY <2>1, StraysStay
  <2>2. ASSUME kb # "gone" PROVE count = Cardinality(Present)
    BY <2>0, <2>2 DEF Counted, CountExact
  <2>3. CASE Quiet
    <3>1. Present' = Present /\ count' = count
      BY <2>3 DEF Quiet, Present
    <3>2. kb # "gone"
      BY <2>1, GoneKb
    <3> QED BY <2>2, <3>1, <3>2
  <2>4. ASSUME NEW r \in Requests, CommitCreate(r), ~Fails(r) PROVE count' = Cardinality(Present')
    <3>1. kb # "gone" /\ count' = todo[r].count + 1 /\ todo[r].count = count
      BY <2>4 DEF CommitCreate, Counted, Counters, Counting
    <3>2. PICK d \in Docs : status[d] = "unborn" /\ status' = [status EXCEPT ![d] = "draft"]
      BY <2>4 DEF CommitCreate, Create
    <3>3. Present' = Present \cup {d} /\ d \notin Present
      BY <3>2 DEF Present, Here
    <3> QED BY <1>1, <1>2, <2>2, <3>1, <3>3, FS_AddElement
  <2>5. ASSUME NEW r \in Requests, CommitBind(r), ~Fails(r) PROVE count' = Cardinality(Present')
    <3>1. Present' = Present /\ count' = count /\ kb' = kb
      BY <2>5 DEF CommitBind, Present, Here, Commands, Idle
    <3> QED BY <2>1, <2>2, <3>1
  <2>6. ASSUME NEW r \in Requests, CommitDelete(r), ~Fails(r) PROVE count' = Cardinality(Present')
    <3>1. /\ kb # "gone" /\ count' = CountWithout(todo[r].count, todo[r].docs)
          /\ RemoveDocuments(todo[r]) /\ todo[r].kind = "delete"
      BY <2>1, <2>6 DEF CommitDelete
    <3>0. todo[r].count = Cardinality(Present) /\ Leaving(todo[r]) = todo[r].docs
      BY <2>0, <2>2, <3>1 DEF Counted, Counters, Counting
    <3>2. todo[r].count = Cardinality(Present) /\ todo[r].docs \subseteq Present
      BY <3>0 DEF Leaving
    <3>3. Present' = Present \ todo[r].docs
      BY <3>0, <3>1 DEF RemoveDocuments, Present, Here
    <3>4. /\ Cardinality(Present \ todo[r].docs) = Cardinality(Present) - Cardinality(todo[r].docs)
          /\ Cardinality(todo[r].docs) \in Nat /\ Cardinality(Present) \in Nat
          /\ Cardinality(Present \ todo[r].docs) \in Nat
      <4>1. Present \cap todo[r].docs = todo[r].docs
        BY <3>2
      <4>2. todo[r].docs \in SUBSET Docs /\ Present \ todo[r].docs \in SUBSET Docs
        BY <1>2, <3>2
      <4>3. IsFiniteSet(Present) /\ IsFiniteSet(todo[r].docs)
        BY <1>1, <1>2, <4>2
      <4>4. Cardinality(Present \ todo[r].docs)
              = Cardinality(Present) - Cardinality(Present \cap todo[r].docs)
        BY <4>3, FS_Difference
      <4>5. Cardinality(Present \ todo[r].docs) = Cardinality(Present) - Cardinality(todo[r].docs)
        BY <4>1, <4>4
      <4> QED BY <1>1, <1>2, <4>2, <4>5
    <3>5. \A m, n \in Nat : m - n \in Nat => (IF m > n THEN m - n ELSE 0) = m - n
      OBVIOUS
    <3>6. CountWithout(Cardinality(Present), todo[r].docs) = Cardinality(Present \ todo[r].docs)
      BY <3>4, <3>5 DEF CountWithout
    <3> QED BY <3>1, <3>2, <3>3, <3>6
  <2>7. ASSUME NEW r \in Requests, CommitDeleteKnowledgeBase(r) PROVE FALSE
    BY <2>1, <2>7 DEF CommitDeleteKnowledgeBase
  <2> QED BY <2>3, <2>4, <2>5, <2>6, <2>7, Shapes
<1>4. Counters'
  <2>1. SUFFICES ASSUME NEW r \in Requests, Counting(r)'
                 PROVE  /\ \A q \in Requests : Counting(q)' => q = r
                        /\ kb' # "gone" => todo'[r].count = count'
                        /\ kb' # "gone" /\ todo'[r].kind = "delete" /\ strays' = {}
                              => Leaving(todo[r])' = todo'[r].docs
    BY DEF Counters
  <2>2. ASSUME NEW q \in Requests, Counting(q)' PROVE q = r
    BY <2>1, <2>2, CountingFrom, OneMoves DEF Counted, Counters
  <2>3. CASE /\ UNCHANGED <<kb, count, status, places>> /\ todo'[r].count = count
             /\ todo'[r].kind = "delete" => Leaving(todo'[r]) = todo'[r].docs
    <3>1. Leaving(todo[r])' = Leaving(todo'[r])
      BY <2>3 DEF Leaving, Present, Here, places
    <3> QED BY <2>2, <2>3, <3>1
  <2>4. CASE todo'[r] = todo[r] /\ Counting(r)
    <3>1. SUFFICES ASSUME kb' # "gone"
                   PROVE  /\ todo[r].count = count'
                          /\ todo[r].kind = "delete" /\ strays' = {}
                                => Leaving(todo[r])' = todo[r].docs
      BY <2>2, <2>4
    <3>2. /\ kb # "gone" /\ todo[r].count = count
          /\ todo[r].kind = "delete" /\ strays' = {} => Leaving(todo[r]) = todo[r].docs
      BY <2>4, <3>1, GoneKb, StraysStay DEF Counted, Counters
    <3>3. ASSUME NEW q \in Requests, CommitCreate(q) \/ (CommitDelete(q) /\ ~Fails(q)) PROVE FALSE
      <4>1. q = r
        BY <2>4, <3>3 DEF CommitCreate, CommitDelete, Counting, Counted, Counters
      <4>2. todo'[q] # todo[q]
        BY <3>3 DEF CommitCreate, CommitDelete, Fails, End, Continue, Clean, Idle
      <4> QED BY <2>4, <4>1, <4>2
    <3>4. CASE Quiet
      <4>1. count' = count /\ Present' = Present
        BY <3>4 DEF Quiet, Present
      <4>2. CASE UNCHANGED places
        BY <2>4, <3>2, <4>1, <4>2 DEF Leaving, places
      <4>3. ASSUME NEW d \in Docs, NEW f \in Folders \cup {NoFolder}, MoveDocument(d, f),
                   todo[r].kind = "delete", strays' = {}
            PROVE  Leaving(todo[r])' = Leaving(todo[r])
        <5>1. ~Strays(d, f) /\ folder' = [folder EXCEPT ![d] = f]
          BY <4>3 DEF MoveDocument
        <5>2. folder[d] \in todo[r].folders <=> f \in todo[r].folders
          BY <4>3, <5>1 DEF Strays
        <5> QED BY <2>4, <4>1, <5>1, <5>2 DEF Leaving
      <4> QED BY <2>4, <3>2, <3>4, <4>1, <4>2, <4>3 DEF Quiet
    <3>5. ASSUME NEW q \in Requests, CommitBind(q), ~Fails(q)
          PROVE  count' = count /\ Leaving(todo[r])' = Leaving(todo[r])
      <4>1. count' = count /\ Present' = Present /\ folder' = folder
        BY <3>5 DEF CommitBind, Present, Here, places, Commands, Idle
      <4> QED BY <2>4, <4>1 DEF Leaving
    <3>6. ASSUME NEW q \in Requests, CommitDeleteKnowledgeBase(q) PROVE FALSE
      BY <3>1, <3>6 DEF CommitDeleteKnowledgeBase
    <3> QED BY <2>4, <3>2, <3>3, <3>4, <3>5, <3>6, Shapes
  <2> QED BY <2>1, <2>3, <2>4, CountingFrom
<1> QED
  BY <1>3, <1>4 DEF Counted

\* document_count is right while one request at a time changes it, whatever the
\* other ones do meanwhile, until a document is moved across the edge of a folder
\* that is being deleted.
THEOREM CountCorrect ==
    ASSUME CountersAlone
    PROVE  Spec => []CountExact
<1>1. Init => Counted
  <2> SUFFICES ASSUME Init PROVE Counted
    OBVIOUS
  <2>1. Present = {}
    BY DEF Init, Present, Here
  <2> QED BY <2>1, FS_EmptySet DEF Init, Counted, CountExact, Counters, Counting, Idle
<1>2. Base /\ Base' /\ Counted /\ [Next]_vars => Counted'
  BY StepCounted
<1>3. Counted => CountExact
  BY DEF Counted
<1> QED
  BY <1>1, <1>2, <1>3, AlwaysBase, PTL DEF Spec
=============================================================================
