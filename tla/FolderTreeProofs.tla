-------------------------- MODULE FolderTreeProofs --------------------------
(***************************************************************************)
(* For any number of folders, documents and names: what holds whatever     *)
(* requests meet, and what holds when they are handled one after the other *)
(* and no name begins with another.                                        *)
(***************************************************************************)
EXTENDS FolderTree, FiniteSetTheorems, SequenceTheorems, WellFoundedInduction, TLAPS

Places == Folders \cup {Root, Unborn, Gone}

\* What the steps need to know of the types.
Types ==
    /\ parent \in [Folders -> Places]
    /\ place \in [Docs -> Places]
    /\ todo = [r \in Requests |-> todo[r]]
    /\ \A r \in Requests : todo[r].to \in Folders \cup {Root}

\* Of the lengths of some paths one is least.
LEMMA LeastLength ==
    ASSUME NEW S \in SUBSET Nat, S # {}
    PROVE  \E m \in S : \A n \in S : m <= n
<1>1. PICK R : IsWellFoundedOn(R, Nat) /\ \A x, y \in Nat : y < x => <<y, x>> \in R
  <2> DEFINE R == OpToRel(<, Nat)
  <2>1. IsWellFoundedOn(R, Nat)
    BY NatLessThanWellFounded
  <2>2. \A x, y \in Nat : y < x => <<y, x>> \in R
    BY DEF OpToRel
  <2> HIDE DEF R
  <2> QED
    BY <2>1, <2>2
<1>2. PICK m \in S : \A y \in S : ~ (<<y, m>> \in R)
  BY <1>1, WFMin
<1>3. \A n \in S : ~ (n < m)
  BY <1>1, <1>2
<1> QED
  BY <1>3

-----------------------------------------------------------------------------
(* Any requests *)

LEMMA StepTypes ==
    ASSUME Types, [Next]_vars
    PROVE  Types'
<1> USE DEF Types, folders, documents
<1>1. ASSUME NEW r \in Requests, End(r)
      PROVE  todo' = [q \in Requests |-> todo'[q]] /\ \A q \in Requests : todo'[q].to \in Folders \cup {Root}
  BY <1>1 DEF End, Idle
<1>2. ASSUME NEW r \in Requests, NEW kind, NEW f, NEW p \in Folders \cup {Root}, NEW n, Begin(r, kind, f, p, n)
      PROVE  Types'
  BY <1>2 DEF Begin
<1>3. ASSUME NEW r \in Requests, NEW p \in Folders \cup {Root}, NEW n \in Names, BeginCreate(r, p, n)
      PROVE  Types'
  BY <1>2, <1>3 DEF BeginCreate
<1>4. ASSUME NEW r \in Requests, NEW p \in Folders \cup {Root}, NEW f \in Folders, BeginMove(r, f, p)
      PROVE  Types'
  BY <1>2, <1>4 DEF BeginMove
<1>5. ASSUME NEW r \in Requests, NEW f \in Folders, BeginDelete(r, f) PROVE Types'
  BY <1>2, <1>5 DEF BeginDelete
<1>6. ASSUME NEW r \in Requests, Fails(r) PROVE Types'
  BY <1>1, <1>6 DEF Fails
<1>7. ASSUME NEW r \in Requests, CommitCreate(r) PROVE Types'
  <2>1. CASE \E f \in Folders : parent' = [parent EXCEPT ![f] = todo[r].to] /\ End(r) /\ UNCHANGED documents
    BY <1>1, <2>1 DEF Places
  <2> QED
    BY <1>6, <1>7, <2>1 DEF CommitCreate
<1>8. ASSUME NEW r \in Requests, CommitMove(r) PROVE Types'
  <2>1. CASE /\ \E p \in {todo[r].to, parent[todo[r].folder]} : parent' = [parent EXCEPT ![todo[r].folder] = p]
             /\ End(r) /\ UNCHANGED documents
    BY <1>1, <2>1 DEF Places
  <2> QED
    BY <1>6, <1>8, <2>1 DEF CommitMove
<1>9. ASSUME NEW r \in Requests, CommitDelete(r) PROVE Types'
  <2>1. CASE Fails(r)
    BY <1>6, <2>1
  <2>2. CASE /\ End(r)
             /\ \E ids : parent' = [f \in Folders |-> IF f \in ids THEN Gone ELSE parent[f]]
             /\ \E inside : place' = [d \in Docs |-> IF d \in inside THEN Gone ELSE place[d]]
    BY <1>1, <2>2 DEF Places
  <2> QED
    BY <1>9, <2>1, <2>2 DEF CommitDelete
<1>10. ASSUME NEW d \in Docs, NEW p \in Folders \cup {Root}, PutDocument(d, p) PROVE Types'
  BY <1>10 DEF PutDocument, Places
<1>11. ASSUME NEW d \in Docs, UploadVersion(d) \/ DeleteDocument(d) PROVE Types'
  BY <1>11 DEF UploadVersion, DeleteDocument, Places
<1>12. CASE UNCHANGED vars
  BY <1>12 DEF vars
<1> QED
  BY <1>3, <1>4, <1>5, <1>7, <1>8, <1>9, <1>10, <1>11, <1>12 DEF Next

\* Places are only taken by their own deletion, which takes along who is in them.
LEMMA StepNoOrphans ==
    ASSUME Types, NoOrphans, [Next]_vars
    PROVE  NoOrphans'
<1> USE FolderAssumption DEF FolderAssumption, Types, folders, documents
<1>1. ASSUME UNCHANGED <<parent, place>> PROVE NoOrphans'
  BY <1>1 DEF NoOrphans, Here, IsPlace
<1>2. ASSUME NEW f, NEW p \in Folders \cup {Root}, IsPlace(p),
             parent' = [parent EXCEPT ![f] = p], UNCHANGED place
      PROVE  NoOrphans'
  <2>1. p \notin {Unborn, Gone}
    BY <1>2 DEF IsPlace, Here
  <2>2. \A q : IsPlace(q) => IsPlace(q)'
    BY <1>2, <2>1 DEF IsPlace, Here
  <2>3. ASSUME NEW g \in Folders, Here(g)' PROVE IsPlace(parent[g])'
    <3>1. CASE g = f
      BY <1>2, <2>2, <3>1
    <3>2. CASE g # f
      BY <1>2, <2>2, <2>3, <3>2 DEF NoOrphans, Here
    <3> QED
      BY <3>1, <3>2
  <2> QED
    BY <1>2, <2>2, <2>3 DEF NoOrphans
<1>3. ASSUME NEW r \in Requests, CommitCreate(r) PROVE NoOrphans'
  BY <1>1, <1>2, <1>3 DEF CommitCreate, Fails
<1>4. ASSUME NEW r \in Requests, CommitMove(r) PROVE NoOrphans'
  <2> DEFINE f == todo[r].folder
             p == todo[r].to
  <2>1. CASE parent' = parent /\ UNCHANGED documents
    BY <1>1, <2>1
  <2>2. CASE p # seen[r].parent[f] /\ IsPlace(p) /\ parent' = [parent EXCEPT ![f] = p] /\ UNCHANGED documents
    BY <1>2, <2>2
  <2> QED
    BY <1>4, <2>1, <2>2 DEF CommitMove, Fails
<1>5. ASSUME NEW r \in Requests, CommitDelete(r) PROVE NoOrphans'
  <2> DEFINE ids == Subtree(seen[r], todo[r].folder)
             inside == {d \in Docs : place[d] \in ids}
  <2>1. CASE Fails(r)
    BY <1>1, <2>1 DEF Fails
  <2>2. CASE /\ \A f \in ids : Children(f) \subseteq ids
             /\ parent' = [f \in Folders |-> IF f \in ids THEN Gone ELSE parent[f]]
             /\ place' = [d \in Docs |-> IF d \in inside THEN Gone ELSE place[d]]
    <3>1. ids \subseteq Folders
      BY DEF Subtree
    <3> HIDE DEF ids
    <3>2. \A q : IsPlace(q) /\ q \notin ids => IsPlace(q)'
      BY <2>2 DEF IsPlace, Here
    <3>3. ASSUME NEW g \in Folders, Here(g)' PROVE IsPlace(parent[g])'
      <4>1. g \notin ids /\ parent'[g] = parent[g] /\ Here(g)
        BY <2>2, <3>3 DEF Here
      <4>2. parent[g] \notin ids
        BY <2>2, <4>1, <3>1 DEF Children
      <4> QED
        BY <3>2, <4>1, <4>2 DEF NoOrphans
    <3>4. ASSUME NEW d \in Docs, place'[d] \notin {Unborn, Gone} PROVE IsPlace(place[d])'
      BY <2>2, <3>2, <3>4 DEF NoOrphans
    <3> QED
      BY <3>3, <3>4 DEF NoOrphans
  <2> QED
    BY <1>5, <2>1, <2>2 DEF CommitDelete
<1>6. ASSUME NEW d \in Docs, NEW p \in Folders \cup {Root}, PutDocument(d, p) PROVE NoOrphans'
  BY <1>6 DEF PutDocument, NoOrphans, Here, IsPlace
<1>7. ASSUME NEW d \in Docs, UploadVersion(d) \/ DeleteDocument(d) PROVE NoOrphans'
  BY <1>7 DEF UploadVersion, DeleteDocument, NoOrphans, Here, IsPlace
<1>8. ASSUME UNCHANGED vars \/ UNCHANGED <<folders, documents>> PROVE NoOrphans'
  BY <1>1, <1>8 DEF vars
<1> QED
  BY <1>3, <1>4, <1>5, <1>6, <1>7, <1>8 DEF Next, BeginCreate, BeginMove, BeginDelete, Begin

\* Whatever requests meet, nothing is left in a folder that is gone: a foreign key holds
\* up the deletion of a folder while another one is in it (DeleteFolderHandler).
THEOREM NoOrphansHolds == Spec => []NoOrphans
<1>1. Init => Types /\ NoOrphans
  BY FolderAssumption DEF Init, Types, NoOrphans, Here, Places, Idle, FolderAssumption
<1>2. Types /\ NoOrphans /\ [Next]_vars => Types' /\ NoOrphans'
  BY StepTypes, StepNoOrphans
<1> QED
  BY <1>1, <1>2, PTL DEF Spec

-----------------------------------------------------------------------------
(* Paths *)

\* What becomes of the path q when its first n - 1 names are replaced by p.
Moved(p, q, n) == p \o SubSeq(q, n, Len(q))

LEMMA MovedIs ==
    ASSUME NEW p \in Seq(Names), NEW q \in Seq(Names), NEW n \in 1..Len(q)
    PROVE  /\ Moved(p, q, n) \in Seq(Names)
           /\ Len(Moved(p, q, n)) = Len(p) + Len(q) - n + 1
           /\ \A i \in 1..Len(p) : Moved(p, q, n)[i] = p[i]
           /\ \A i \in n..Len(q) : Moved(p, q, n)[Len(p) + i - n + 1] = q[i]
<1> DEFINE t == SubSeq(q, n, Len(q))
           new == p \o t
<1>1. Len(p) \in Nat /\ Len(q) \in Nat
  BY LenProperties
<1>2. \A i \in n..Len(q) : q[i] \in Names
  BY <1>1, ElementOfSeq
<1>3. /\ t \in Seq(Names) /\ Len(t) = Len(q) - n + 1
      /\ \A i \in 1..Len(q) - n + 1 : t[i] = q[n + i - 1]
  BY <1>1, <1>2, SubSeqProperties
<1>4. /\ new \in Seq(Names) /\ Len(new) = Len(p) + Len(t)
      /\ \A i \in 1..Len(p) + Len(t) : new[i] = IF i <= Len(p) THEN p[i] ELSE t[i - Len(p)]
  <2> HIDE DEF t
  <2> QED
    BY <1>3, ConcatProperties
<1>5. ASSUME NEW i \in n..Len(q) PROVE new[Len(p) + i - n + 1] = q[i]
  <2> DEFINE j == Len(p) + i - n + 1
  <2>1. /\ j \in 1..Len(p) + Len(t) /\ ~ (j <= Len(p)) /\ j - Len(p) = i - n + 1
        /\ i - n + 1 \in 1..Len(q) - n + 1 /\ n + (i - n + 1) - 1 = i
    <3> HIDE DEF t, new
    <3> QED
      BY <1>1, <1>3
  <2>2. new[j] = t[i - n + 1] /\ t[i - n + 1] = q[i]
    <3> HIDE DEF t, new, j
    <3> QED
      BY <1>3, <1>4, <2>1
  <2> QED
    BY <2>2
<1>6. Len(new) = Len(p) + Len(q) - n + 1
  <2> HIDE DEF t, new
  <2> QED
    BY <1>1, <1>3, <1>4
<1>7. ASSUME NEW i \in 1..Len(p) PROVE new[i] = p[i]
  <2>1. i \in 1..Len(p) + Len(t) /\ i <= Len(p)
    <3> HIDE DEF t, new
    <3> QED
      BY <1>1, <1>3
  <2> HIDE DEF t, new
  <2> QED
    BY <1>4, <2>1
<1> QED
  BY <1>4, <1>5, <1>6, <1>7 DEF Moved

LEMMA StartIs ==
    ASSUME NEW q \in Seq(Names), NEW m \in Nat, m <= Len(q)
    PROVE  /\ SubSeq(q, 1, m) \in Seq(Names) /\ Len(SubSeq(q, 1, m)) = m
           /\ \A i \in 1..m : SubSeq(q, 1, m)[i] = q[i]
<1> DEFINE t == SubSeq(q, 1, m)
<1>1. \A i \in 1..m : q[i] \in Names
  BY ElementOfSeq
<1>2. /\ t \in Seq(Names)
      /\ Len(t) = IF 1 <= m THEN m - 1 + 1 ELSE 0
      /\ \A i \in 1..m - 1 + 1 : t[i] = q[1 + i - 1]
  BY <1>1, SubSeqProperties
<1>3. \A i \in 1..m : i \in 1..m - 1 + 1 /\ 1 + i - 1 = i
  OBVIOUS
<1>4. Len(t) = m
  <2> HIDE DEF t
  <2> QED
    BY <1>2
<1> QED
  BY <1>2, <1>3, <1>4

\* q begins with the names of p.
Starts(p, q) == Len(p) <= Len(q) /\ \A i \in 1..Len(p) : p[i] = q[i]

\* LIKE compares names as names when no name begins with another.
LEMMA LikeIsStarts ==
    ASSUME Extends = {}, NEW p \in Seq(Names), NEW q \in Seq(Names), Len(p) > 0
    PROVE  Like(p, q) <=> Starts(p, q)
<1> DEFINE n == Len(p)
           front == SubSeq(p, 1, n - 1)
<1>1. n \in Nat \ {0} /\ Len(q) \in Nat
  BY LenProperties
<1>2. n - 1 \in Nat /\ n - 1 <= Len(p)
  BY <1>1
<1>3. /\ front \in Seq(Names) /\ Len(front) = n - 1
      /\ \A i \in 1..n - 1 : front[i] = p[i]
  BY <1>2, StartIs
<1>4. SubSeq(front, 1, Len(front)) = front
  BY <1>3, SubSeqFull
<1>5. CASE Len(q) >= n
  <2> DEFINE start == SubSeq(q, 1, n - 1)
  <2>1. n - 1 <= Len(q)
    BY <1>1, <1>5
  <2>2. /\ start \in Seq(Names) /\ Len(start) = n - 1
        /\ \A i \in 1..n - 1 : start[i] = q[i]
    BY <1>2, <2>1, StartIs
  <2>3. front = start <=> \A i \in 1..n - 1 : p[i] = q[i]
    <3>1. ASSUME \A i \in 1..n - 1 : p[i] = q[i] PROVE front = start
      BY <1>3, <2>2, <3>1, SeqEqual
    <3> QED
      BY <1>3, <2>2, <3>1
  <2>4. IsPrefix(Front(p), q) <=> front = start
    <3>1. Front(p) = front
      BY DEF Front
    <3>2. IsPrefix(front, q) <=> SubSeq(q, 1, Len(front)) = front
      <4> HIDE DEF front, start
      <4> QED
        BY <1>1, <1>3, <1>4, <1>5 DEF IsPrefix
    <3> HIDE DEF front
    <3> QED
      BY <1>3, <3>1, <3>2
  <2>5. Like(p, q) <=> (\A i \in 1..n - 1 : p[i] = q[i]) /\ p[n] = q[n]
    <3>1. Like(p, q) <=> IsPrefix(Front(p), q) /\ p[n] = q[n]
      BY <1>5 DEF Like
    <3> QED
      BY <2>3, <2>4, <3>1
  <2>6. Starts(p, q) <=> (\A i \in 1..n - 1 : p[i] = q[i]) /\ p[n] = q[n]
    <3>1. 1..n = (1..n - 1) \cup {n}
      BY <1>1
    <3> QED
      BY <1>1, <1>5, <3>1 DEF Starts
  <2> QED
    BY <2>5, <2>6
<1>6. CASE ~ (Len(q) >= n)
  BY <1>1, <1>6 DEF Like, Starts
<1> QED
  BY <1>5, <1>6

\* A path and the path above it.
Under(q, u) == Len(q) = Len(u) + 1 /\ Starts(u, q)

LEMMA UnderIsAppend ==
    ASSUME NEW q \in Seq(Names), NEW u \in Seq(Names)
    PROVE  /\ Under(q, u) => q = Append(u, Last(q)) /\ Last(q) \in Names
           /\ \A n \in Names : Under(Append(u, n), u) /\ Last(Append(u, n)) = n
<1>1. Len(q) \in Nat /\ Len(u) \in Nat
  BY LenProperties
<1>2. ASSUME NEW n \in Names
      PROVE  /\ Append(u, n) \in Seq(Names) /\ Len(Append(u, n)) = Len(u) + 1
             /\ \A i \in 1..Len(u) : Append(u, n)[i] = u[i]
             /\ Append(u, n)[Len(u) + 1] = n
  BY AppendProperties
<1>3. ASSUME NEW n \in Names PROVE Under(Append(u, n), u) /\ Last(Append(u, n)) = n
  BY <1>1, <1>2 DEF Under, Starts, Last
<1>4. ASSUME Under(q, u) PROVE q = Append(u, Last(q)) /\ Last(q) \in Names
  <2> DEFINE n == q[Len(q)]
  <2>1. n \in Names
    BY <1>1, <1>4, ElementOfSeq DEF Under
  <2>2. Len(q) = Len(Append(u, n)) /\ Append(u, n) \in Seq(Names)
    BY <1>2, <1>4, <2>1 DEF Under
  <2>3. \A i \in 1..Len(q) : q[i] = Append(u, n)[i]
    BY <1>1, <1>2, <1>4, <2>1 DEF Under, Starts
  <2>4. q = Append(u, n)
    BY <2>2, <2>3, SeqEqual
  <2> QED
    BY <2>1, <2>4 DEF Last
<1> QED
  BY <1>3, <1>4

\* A path and the one above it, moved alike.
LEMMA MovedUnder ==
    ASSUME NEW p \in Seq(Names), NEW q \in Seq(Names), NEW u \in Seq(Names), NEW n \in 1..Len(u),
           Under(q, u)
    PROVE  Under(Moved(p, q, n), Moved(p, u, n))
<1> DEFINE k == Len(p)
           l == Len(u)
           a == Moved(p, q, n)
           b == Moved(p, u, n)
<1>1. k \in Nat /\ l \in Nat /\ Len(q) = l + 1 /\ n \in 1..Len(q) /\ n \in Nat
      /\ \A i \in 1..l : u[i] = q[i]
  BY LenProperties DEF Under, Starts
<1>2. /\ Len(a) = k + (l + 1) - n + 1
      /\ \A i \in 1..k : a[i] = p[i]
      /\ \A i \in n..l + 1 : a[k + i - n + 1] = q[i]
  <2>1. /\ Len(a) = k + Len(q) - n + 1
        /\ \A i \in 1..k : a[i] = p[i]
        /\ \A i \in n..Len(q) : a[k + i - n + 1] = q[i]
    BY <1>1, MovedIs
  <2> HIDE DEF k, l, a
  <2> QED
    BY <1>1, <2>1
<1>3. /\ Len(b) = k + l - n + 1
      /\ \A i \in 1..k : b[i] = p[i]
      /\ \A i \in n..l : b[k + i - n + 1] = u[i]
  BY MovedIs
<1> HIDE DEF k, l, a, b
<1>4. ASSUME NEW i \in 1..Len(b) PROVE b[i] = a[i]
  <2>1. CASE i <= k
    BY <1>1, <1>2, <1>3, <2>1
  <2>2. CASE ~ (i <= k)
    <3>1. PICK j \in n..l : i = k + j - n + 1
      <4>1. i - k + n - 1 \in n..l /\ i = k + (i - k + n - 1) - n + 1
        BY <1>1, <1>3, <2>2
      <4> QED
        BY <4>1
    <3>2. b[i] = u[j] /\ a[i] = q[j] /\ u[j] = q[j]
      BY <1>1, <1>2, <1>3, <3>1
    <3> QED
      BY <3>2
  <2> QED
    BY <2>1, <2>2
<1>5. Len(a) = Len(b) + 1 /\ Len(b) <= Len(a)
  BY <1>1, <1>2, <1>3
<1>6. Under(a, b)
  BY <1>4, <1>5 DEF Under, Starts
<1> QED
  BY <1>6 DEF a, b

\* The path f that is moved itself, and one that begins with it.
LEMMA MovedSelf ==
    ASSUME NEW p \in Seq(Names), NEW f \in Seq(Names), Len(f) > 0
    PROVE  Under(Moved(p, f, Len(f)), p) /\ Last(Moved(p, f, Len(f))) = Last(f)
<1> DEFINE n == Len(f)
           a == Moved(p, f, n)
<1>1. n \in Nat \ {0} /\ Len(p) \in Nat
  BY LenProperties
<1>2. n \in 1..Len(f)
  BY <1>1
<1>3. /\ Len(a) = Len(p) + n - n + 1
      /\ \A i \in 1..Len(p) : a[i] = p[i]
      /\ a[Len(p) + n - n + 1] = f[n]
  <2>1. /\ Len(a) = Len(p) + Len(f) - n + 1
        /\ \A i \in 1..Len(p) : a[i] = p[i]
        /\ \A i \in n..Len(f) : a[Len(p) + i - n + 1] = f[i]
    BY <1>2, MovedIs
  <2>2. n = Len(f) /\ n \in n..Len(f)
    BY <1>1
  <2> HIDE DEF n, a
  <2> QED
    BY <2>1, <2>2
<1> HIDE DEF n, a
<1>4. Len(a) = Len(p) + 1 /\ a[Len(a)] = f[n]
  BY <1>1, <1>3
<1> QED
  BY <1>1, <1>3, <1>4 DEF Under, Starts, Last, n, a

LEMMA MovedStarts ==
    ASSUME NEW p \in Seq(Names), NEW f \in Seq(Names), NEW q \in Seq(Names), Len(f) > 0, Starts(f, q)
    PROVE  Starts(Append(p, Last(f)), Moved(p, q, Len(f)))
<1> DEFINE n == Len(f)
           a == Moved(p, q, n)
           b == Append(p, f[n])
<1>1. n \in Nat \ {0} /\ Len(p) \in Nat /\ Len(q) \in Nat
  BY LenProperties
<1>2. n \in 1..Len(q) /\ n \in 1..n /\ f[n] = q[n] /\ f[n] \in Names
  BY <1>1, ElementOfSeq DEF Starts
<1>3. /\ Len(a) = Len(p) + Len(q) - n + 1
      /\ \A i \in 1..Len(p) : a[i] = p[i]
      /\ a[Len(p) + n - n + 1] = q[n]
  <2>1. n \in n..Len(q)
    BY <1>1, <1>2
  <2> QED
    BY <1>2, <2>1, MovedIs
<1>4. Len(b) = Len(p) + 1 /\ b[Len(p) + 1] = f[n] /\ \A i \in 1..Len(p) : b[i] = p[i]
  BY <1>1, <1>2, AppendProperties
<1> HIDE DEF n, a, b
<1>5. a[Len(p) + 1] = q[n] /\ Len(b) <= Len(a)
  BY <1>1, <1>2, <1>3, <1>4
<1>6. \A i \in 1..Len(p) + 1 : i \in 1..Len(p) \/ i = Len(p) + 1
  BY <1>1
<1>7. Starts(b, a)
  BY <1>2, <1>3, <1>4, <1>5, <1>6 DEF Starts
<1> QED
  BY <1>7 DEF a, b, n, Last

LEMMA MovedSame ==
    ASSUME NEW p \in Seq(Names), NEW f \in Seq(Names), NEW q \in Seq(Names), NEW r \in Seq(Names),
           Len(f) > 0, Starts(f, q), Starts(f, r), Moved(p, q, Len(f)) = Moved(p, r, Len(f))
    PROVE  q = r
<1> DEFINE n == Len(f)
           a == Moved(p, q, n)
<1>1. n \in Nat \ {0} /\ Len(p) \in Nat /\ Len(q) \in Nat /\ Len(r) \in Nat
  BY LenProperties
<1>2. n \in 1..Len(q) /\ n \in 1..Len(r)
  BY <1>1 DEF Starts
<1>3. /\ Len(a) = Len(p) + Len(q) - n + 1
      /\ \A i \in n..Len(q) : a[Len(p) + i - n + 1] = q[i]
  BY <1>2, MovedIs
<1>4. /\ Len(a) = Len(p) + Len(r) - n + 1
      /\ \A i \in n..Len(r) : a[Len(p) + i - n + 1] = r[i]
  <2>1. a = Moved(p, r, n)
    OBVIOUS
  <2> HIDE DEF a
  <2> QED
    BY <1>2, <2>1, MovedIs
<1> HIDE DEF a
<1>5. Len(q) = Len(r)
  BY <1>1, <1>3, <1>4
<1>6. ASSUME NEW i \in 1..Len(q) PROVE q[i] = r[i]
  <2>1. CASE i < n
    BY <1>1, <2>1 DEF Starts
  <2>2. CASE ~ (i < n)
    <3>1. i \in n..Len(q) /\ i \in n..Len(r)
      BY <1>1, <1>5, <2>2
    <3> QED
      BY <1>3, <1>4, <3>1
  <2> QED
    BY <2>1, <2>2
<1> QED
  BY <1>5, <1>6, SeqEqual

-----------------------------------------------------------------------------
(* The tree *)

\* The path of the place a folder is in.
Up(f) == IF parent[f] = Root THEN <<>> ELSE path[parent[f]]

Tree ==
    /\ path \in [Folders -> Seq(Names)] /\ depth \in [Folders -> Nat]
    /\ \A f \in Folders : Here(f) =>
          /\ Under(path[f], Up(f))
          /\ depth[f] = Len(path[f]) - 1 /\ Len(path[f]) <= MaxDepth

OnePath == \A f, g \in Folders : Here(f) /\ Here(g) /\ path[f] = path[g] => f = g

\* The folder f and those whose path begins with its own.
Sub(f) == {g \in Folders : Here(g) /\ Starts(path[f], path[g])}

LEMMA PathFacts ==
    ASSUME Types, NoOrphans, Tree, NEW f \in Folders, Here(f)
    PROVE  /\ path[f] \in Seq(Names) /\ Up(f) \in Seq(Names) /\ Len(Up(f)) \in Nat
           /\ Len(path[f]) \in Nat \ {0} /\ Len(path[f]) = Len(Up(f)) + 1
           /\ \A i \in 1..Len(Up(f)) : path[f][i] = Up(f)[i]
           /\ path[f] = Append(Up(f), Last(path[f])) /\ Last(path[f]) \in Names
           /\ parent[f] = Root \/ (parent[f] \in Folders /\ Here(parent[f]))
           /\ f \in Sub(f)
<1>1. parent[f] = Root \/ (parent[f] \in Folders /\ Here(parent[f]))
  BY DEF NoOrphans, IsPlace
<1>2. path[f] \in Seq(Names) /\ Up(f) \in Seq(Names)
  BY <1>1, EmptySeq DEF Tree, Up
<1>3. Under(path[f], Up(f))
  BY DEF Tree
<1>4. Len(Up(f)) \in Nat /\ Len(path[f]) \in Nat
  BY <1>2, LenProperties
<1>5. f \in Sub(f)
  BY <1>4 DEF Sub, Starts
<1> QED
  BY <1>1, <1>2, <1>3, <1>4, <1>5, UnderIsAppend DEF Under, Starts

\* What is below f is f, or in a folder that is.
LEMMA SubIsClosed ==
    ASSUME Types, NoOrphans, Tree, OnePath, NEW f \in Folders, Here(f), NEW g \in Folders, Here(g)
    PROVE  /\ parent[g] \in Sub(f) => g \in Sub(f)
           /\ g \in Sub(f) /\ g # f => parent[g] \in Sub(f) /\ Len(path[f]) < Len(path[g])
<1>1. ASSUME parent[g] \in Sub(f) PROVE g \in Sub(f)
  <2>1. parent[g] \in Folders /\ parent[g] # Root /\ Starts(path[f], path[parent[g]])
    BY <1>1, FolderAssumption DEF Sub, FolderAssumption
  <2>2. Starts(path[f], Up(g))
    BY <2>1 DEF Up
  <2>3. Len(path[f]) \in Nat
    BY PathFacts
  <2>4. Starts(path[f], path[g])
    BY <2>2, <2>3, PathFacts DEF Starts
  <2> QED
    BY <2>4 DEF Sub
<1>2. ASSUME g \in Sub(f), g # f PROVE parent[g] \in Sub(f) /\ Len(path[f]) < Len(path[g])
  <2>1. Starts(path[f], path[g]) /\ Len(path[f]) \in Nat \ {0} /\ Len(path[g]) \in Nat
    BY <1>2, PathFacts DEF Sub
  <2>2. Len(path[f]) # Len(path[g])
    <3>1. ASSUME Len(path[f]) = Len(path[g]) PROVE path[f] = path[g]
      <4>1. \A i \in 1..Len(path[f]) : path[f][i] = path[g][i]
        BY <2>1 DEF Starts
      <4>2. path[f] \in Seq(Names) /\ path[g] \in Seq(Names)
        BY PathFacts
      <4> QED
        BY <3>1, <4>1, <4>2, SeqEqual
    <3> QED
      BY <1>2, <3>1 DEF OnePath
  <2>3. Len(path[f]) < Len(path[g]) /\ Len(path[f]) <= Len(Up(g))
    BY <2>1, <2>2, PathFacts DEF Starts
  <2>4. Starts(path[f], Up(g))
    BY <2>1, <2>3, PathFacts DEF Starts
  <2>5. parent[g] # Root
    <3>1. ASSUME parent[g] = Root PROVE FALSE
      <4>1. Len(Up(g)) = 0
        BY <3>1, EmptySeq DEF Up
      <4> QED
        BY <2>1, <2>3, <4>1
    <3> QED
      BY <3>1
  <2> QED
    BY <2>3, <2>4, <2>5, PathFacts DEF Sub, Up
<1> QED
  BY <1>1, <1>2

\* Every beginning of a path is the path of a folder.
LEMMA AncestorAt ==
    ASSUME Types, NoOrphans, Tree, NEW q \in Seq(Names), Len(q) > 0,
           NEW h \in Folders, Here(h), Starts(q, path[h])
    PROVE  \E e \in Folders : Here(e) /\ path[e] = q
<1> DEFINE A == {g \in Folders : Here(g) /\ Starts(q, path[g])}
           S == {Len(path[g]) : g \in A}
<1>1. PICK n \in S : \A m \in S : n <= m
  <2>1. \A g \in A : Len(path[g]) \in Nat
    BY PathFacts
  <2>2. S \in SUBSET Nat /\ S # {}
    BY <2>1
  <2> HIDE DEF S
  <2> QED
    BY <2>2, LeastLength
<1>2. PICK e \in A : n = Len(path[e])
  OBVIOUS
<1>3. Len(q) \in Nat \ {0}
  BY LenProperties
<1>4. Len(path[e]) = Len(q)
  <2> SUFFICES ASSUME Len(path[e]) # Len(q) PROVE FALSE
    OBVIOUS
  <2>1. Len(q) <= Len(Up(e)) /\ Len(Up(e)) < Len(path[e])
    BY <1>2, <1>3, PathFacts DEF Starts
  <2>2. Starts(q, Up(e))
    BY <1>2, <1>3, <2>1, PathFacts DEF Starts
  <2>3. parent[e] # Root
    BY <1>3, <2>1, EmptySeq DEF Up
  <2>4. parent[e] \in A /\ Up(e) = path[parent[e]]
    BY <1>2, <2>2, <2>3, PathFacts DEF Up
  <2>5. Len(Up(e)) \in S
    BY <2>4
  <2>6. Len(Up(e)) \in Nat /\ Len(path[e]) \in Nat
    BY <1>2, PathFacts
  <2> HIDE DEF S, A
  <2> QED
    BY <1>1, <1>2, <2>1, <2>5, <2>6
<1>5. path[e] = q
  <2>1. path[e] \in Seq(Names) /\ \A i \in 1..Len(q) : q[i] = path[e][i]
    BY <1>2, PathFacts DEF Starts
  <2> QED
    BY <1>4, <2>1, SeqEqual
<1> QED
  BY <1>2, <1>5

-----------------------------------------------------------------------------
(* What the handlers do to the tree *)

\* The path of a place.
At(p) == IF p = Root THEN <<>> ELSE path[p]

LEMMA AtFacts ==
    ASSUME Types, NoOrphans, Tree, NEW p, IsPlace(p)
    PROVE  /\ p = Root \/ (p \in Folders /\ Here(p))
           /\ At(p) = PathOf(Now, p) /\ At(p) \in Seq(Names) /\ Len(At(p)) \in Nat
           /\ DepthUnder(Now, p) = Len(At(p))
<1>1. p = Root \/ (p \in Folders /\ Here(p))
  BY DEF IsPlace
<1>2. CASE p = Root
  BY <1>2, EmptySeq DEF At, PathOf, DepthUnder
<1>3. CASE p # Root /\ p \in Folders /\ Here(p)
  <2>1. depth[p] = Len(path[p]) - 1
    BY <1>3 DEF Tree
  <2> QED
    BY <1>3, <2>1, PathFacts DEF At, PathOf, DepthUnder, Now
<1> QED
  BY <1>1, <1>2, <1>3

LEMMA CreateKeepsTree ==
    ASSUME Types, NoOrphans, Tree, OnePath, NEW f \in Folders, NEW p, NEW n \in Names,
           parent[f] = Unborn, IsPlace(p), DepthUnder(Now, p) < MaxDepth, ~ NameTaken(p, n, {}),
           parent' = [parent EXCEPT ![f] = p],
           path' = [path EXCEPT ![f] = Append(PathOf(Now, p), n)],
           depth' = [depth EXCEPT ![f] = DepthUnder(Now, p)]
    PROVE  Tree' /\ OnePath'
<1> DEFINE new == Append(At(p), n)
<1>1. /\ p = Root \/ (p \in Folders /\ Here(p))
      /\ At(p) = PathOf(Now, p) /\ At(p) \in Seq(Names) /\ Len(At(p)) \in Nat
      /\ DepthUnder(Now, p) = Len(At(p))
  BY AtFacts
<1>2. new \in Seq(Names) /\ Len(new) = Len(At(p)) + 1 /\ Under(new, At(p)) /\ Last(new) = n
  BY <1>1, AppendProperties, UnderIsAppend
<1>3. /\ parent'[f] = p /\ path'[f] = new /\ depth'[f] = Len(At(p))
      /\ \A g \in Folders \ {f} : parent'[g] = parent[g] /\ path'[g] = path[g] /\ depth'[g] = depth[g]
  BY <1>1 DEF Types, Tree
<1>4. \A g \in Folders : Here(g) => g # f
  BY DEF Here
<1>5. \A g \in Folders \ {f} : Here(g)' <=> Here(g)
  BY <1>3 DEF Here
<1>6. Up(f)' = At(p)
  BY <1>1, <1>3, <1>4 DEF Up, At
<1>7. \A g \in Folders \ {f} : Here(g) => Up(g)' = Up(g)
  BY <1>3, <1>4, PathFacts DEF Up
<1>8. Tree'
  <2>1. path' \in [Folders -> Seq(Names)] /\ depth' \in [Folders -> Nat]
    <3> HIDE DEF new
    <3>1. Append(PathOf(Now, p), n) = new
      BY <1>1 DEF new
    <3> QED
      BY <1>1, <1>2, <3>1 DEF Tree
  <2>2. /\ Under(path'[f], Up(f)')
        /\ depth'[f] = Len(path'[f]) - 1 /\ Len(path'[f]) <= MaxDepth
    <3>1. Under(path'[f], Up(f)')
      BY <1>2, <1>3, <1>6
    <3>2. Len(path'[f]) = Len(At(p)) + 1 /\ depth'[f] = Len(At(p)) /\ Len(At(p)) < MaxDepth
      BY <1>1, <1>2, <1>3
    <3>3. MaxDepth \in Nat
      BY FolderAssumption DEF FolderAssumption
    <3> QED
      BY <1>1, <3>1, <3>2, <3>3
  <2>3. ASSUME NEW g \in Folders \ {f}, Here(g)
        PROVE  /\ Under(path'[g], Up(g)')
               /\ depth'[g] = Len(path'[g]) - 1 /\ Len(path'[g]) <= MaxDepth
    BY <1>3, <1>7, <2>3 DEF Tree
  <2> QED
    BY <1>5, <2>1, <2>2, <2>3 DEF Tree
<1>9. OnePath'
  <2>1. ASSUME NEW g \in Folders \ {f}, Here(g), path[g] = new PROVE FALSE
    <3>1. path[g] = Append(Up(g), Last(path[g])) /\ Up(g) \in Seq(Names) /\ Last(path[g]) \in Names
      BY <2>1, PathFacts
    <3>2. Up(g) = At(p) /\ Last(path[g]) = n
      BY <1>1, <2>1, <3>1, AppendInjective
    <3>3. parent[g] = p
      <4>1. CASE parent[g] = Root /\ p # Root
        <5>1. Len(path[p]) > 0 /\ path[p] = <<>>
          BY <1>1, <3>2, <4>1, PathFacts DEF Up, At
        <5> QED
          BY <5>1, EmptySeq
      <4>2. CASE parent[g] # Root /\ p = Root
        <5>1. Len(path[parent[g]]) > 0 /\ path[parent[g]] = <<>>
          BY <2>1, <3>2, <4>2, PathFacts DEF Up, At
        <5> QED
          BY <5>1, EmptySeq
      <4>3. CASE parent[g] # Root /\ p # Root
        BY <1>1, <2>1, <3>2, <4>3, PathFacts DEF OnePath, Up, At
      <4> QED
        BY <4>1, <4>2, <4>3
    <3> QED
      BY <2>1, <3>2, <3>3 DEF NameTaken, Children
  <2> HIDE DEF new
  <2>2. \A g, h \in Folders : Here(g)' /\ Here(h)' /\ path'[g] = path'[h] => g = h
    BY <1>3, <1>5, <2>1 DEF OnePath
  <2> QED
    BY <2>2 DEF OnePath
<1> QED
  BY <1>8, <1>9

LEMMA DeleteKeepsTree ==
    ASSUME Types, NoOrphans, Tree, OnePath, NEW ids \in SUBSET Folders,
           \A f \in ids : Children(f) \subseteq ids,
           parent' = [f \in Folders |-> IF f \in ids THEN Gone ELSE parent[f]],
           path' = [f \in Folders |-> IF f \in ids THEN <<>> ELSE path[f]],
           depth' = [f \in Folders |-> IF f \in ids THEN 0 ELSE depth[f]]
    PROVE  Tree' /\ OnePath'
<1>1. \A g \in Folders : Here(g)' => g \notin ids /\ Here(g)
  BY DEF Here
<1>2. \A g \in Folders \ ids : parent'[g] = parent[g] /\ path'[g] = path[g] /\ depth'[g] = depth[g]
  OBVIOUS
<1>3. \A g \in Folders \ ids : Here(g) => Up(g)' = Up(g)
  <2> SUFFICES ASSUME NEW g \in Folders \ ids, Here(g) PROVE Up(g)' = Up(g)
    OBVIOUS
  <2>1. parent[g] \notin ids
    BY DEF Children
  <2> QED
    BY <1>2, <2>1, PathFacts DEF Up
<1>4. path' \in [Folders -> Seq(Names)] /\ depth' \in [Folders -> Nat]
  BY EmptySeq DEF Tree
<1>5. Tree'
  <2> SUFFICES ASSUME NEW g \in Folders, Here(g)'
               PROVE  /\ Under(path'[g], Up(g)')
                      /\ depth'[g] = Len(path'[g]) - 1 /\ Len(path'[g]) <= MaxDepth
    BY <1>4 DEF Tree
  <2> QED
    BY <1>1, <1>2, <1>3 DEF Tree
<1> QED
  BY <1>1, <1>2, <1>5 DEF OnePath

\* A move to a place that is not below the folder, where the subtree fits.
LEMMA MoveKeepsTree ==
    ASSUME Types, NoOrphans, Tree, OnePath,
           NEW f \in Folders, Here(f), NEW p, IsPlace(p), p \notin Sub(f),
           \A g \in Sub(f) : Len(At(p)) + depth[g] - depth[f] < MaxDepth,
           ~ NameTaken(p, Last(path[f]), {f}),
           parent' = [parent EXCEPT ![f] = p],
           path' = [g \in Folders |-> IF g \in Sub(f)
                                      THEN Moved(At(p), path[g], Len(path[f])) ELSE path[g]],
           depth' = [g \in Folders |-> IF g \in Sub(f)
                                       THEN Len(Moved(At(p), path[g], Len(path[f]))) - 1
                                       ELSE depth[g]]
    PROVE  Tree' /\ OnePath'
<1> DEFINE P == At(p)
           n == Len(path[f])
           nm == Last(path[f])
           new(g) == Moved(P, path[g], n)
<1>1. /\ p = Root \/ (p \in Folders /\ Here(p))
      /\ P \in Seq(Names) /\ Len(P) \in Nat
  BY AtFacts
<1>2. n \in Nat \ {0} /\ n > 0 /\ f \in Sub(f) /\ path[f] \in Seq(Names) /\ nm \in Names
  BY PathFacts
<1>3. ASSUME NEW g \in Sub(f)
      PROVE  /\ g \in Folders /\ Here(g) /\ Starts(path[f], path[g])
             /\ path[g] \in Seq(Names) /\ Len(path[g]) \in Nat /\ n \in 1..Len(path[g])
  BY <1>2, PathFacts DEF Sub, Starts
<1>4. ASSUME NEW g \in Sub(f)
      PROVE  /\ new(g) \in Seq(Names) /\ Len(new(g)) = Len(P) + Len(path[g]) - n + 1
             /\ path'[g] = new(g) /\ depth'[g] = Len(new(g)) - 1
  <2>1. path'[g] = new(g) /\ depth'[g] = Len(new(g)) - 1
    BY <1>3
  <2>2. new(g) \in Seq(Names) /\ Len(new(g)) = Len(P) + Len(path[g]) - n + 1
    BY <1>1, <1>3, MovedIs
  <2> QED
    BY <2>1, <2>2
<1>5. \A g \in Folders \ Sub(f) : path'[g] = path[g] /\ depth'[g] = depth[g] /\ parent'[g] = parent[g]
  BY <1>2 DEF Types
<1>6. parent'[f] = p /\ \A g \in Folders \ {f} : parent'[g] = parent[g]
  BY DEF Types
<1>7. \A g \in Folders : Here(g)' <=> Here(g)
  BY <1>1, <1>6, FolderAssumption DEF Here, FolderAssumption
<1>8. Up(f)' = P
  BY <1>1, <1>5, <1>6 DEF Up, At
<1>9. ASSUME NEW g \in Folders \ Sub(f), Here(g) PROVE Up(g)' = Up(g)
  <2>1. parent[g] \notin Sub(f)
    BY <1>9, SubIsClosed
  <2> QED
    BY <1>5, <1>9, <2>1, PathFacts DEF Up
<1>10. ASSUME NEW g \in Sub(f), g # f
       PROVE  parent[g] \in Sub(f) /\ Up(g)' = new(parent[g]) /\ Up(g) = path[parent[g]]
  <2>1. parent[g] \in Sub(f)
    BY <1>3, <1>10, SubIsClosed
  <2>2. parent[g] # Root
    BY <2>1, FolderAssumption DEF Sub, FolderAssumption
  <2>3. parent'[g] = parent[g] /\ path'[parent[g]] = new(parent[g])
    BY <1>3, <1>4, <1>6, <1>10, <2>1
  <2> HIDE DEF new
  <2> QED
    BY <2>1, <2>2, <2>3 DEF Up
<1>11. ASSUME NEW g \in Sub(f) PROVE Under(path'[g], Up(g)')
  <2>1. CASE g = f
    <3>1. Under(new(f), P)
      BY <1>1, <1>2, MovedSelf
    <3> HIDE DEF new
    <3> QED
      BY <1>2, <1>4, <1>8, <2>1, <3>1
  <2>2. CASE g # f
    <3>1. /\ parent[g] \in Sub(f) /\ Up(g)' = new(parent[g]) /\ Up(g) = path[parent[g]]
      BY <1>10, <2>2
    <3>2. Under(path[g], path[parent[g]])
      BY <1>3, <3>1 DEF Tree
    <3>3. Under(new(g), new(parent[g]))
      BY <1>1, <1>3, <3>1, <3>2, MovedUnder
    <3> HIDE DEF new
    <3> QED
      BY <1>4, <3>1, <3>3
  <2> QED
    BY <2>1, <2>2
<1>12. ASSUME NEW g \in Sub(f) PROVE Len(new(g)) <= MaxDepth /\ Len(new(g)) - 1 \in Nat
  <2>1. depth[g] = Len(path[g]) - 1 /\ depth[f] = n - 1
    BY <1>3 DEF Tree
  <2>2. Len(P) + depth[g] - depth[f] < MaxDepth /\ MaxDepth \in Nat
    BY FolderAssumption DEF FolderAssumption
  <2>3. Len(new(g)) = Len(P) + Len(path[g]) - n + 1 /\ Len(path[g]) \in Nat /\ n <= Len(path[g])
    <3>1. Len(new(g)) = Len(P) + Len(path[g]) - n + 1
      BY <1>4
    <3>2. Len(path[g]) \in Nat /\ n \in 1..Len(path[g])
      BY <1>3
    <3> HIDE DEF P, n, new
    <3> QED
      BY <1>2, <3>1, <3>2
  <2> HIDE DEF P, n, new
  <2> QED
    BY <1>1, <1>2, <2>1, <2>2, <2>3
<1>13. Tree'
  <2>1. path' \in [Folders -> Seq(Names)] /\ depth' \in [Folders -> Nat]
    <3>1. \A g \in Folders : path'[g] \in Seq(Names) /\ depth'[g] \in Nat
      <4> HIDE DEF new
      <4> QED
        BY <1>4, <1>5, <1>12 DEF Tree
    <3> QED
      BY <3>1
  <2>2. ASSUME NEW g \in Folders, Here(g)
        PROVE  /\ Under(path'[g], Up(g)')
               /\ depth'[g] = Len(path'[g]) - 1 /\ Len(path'[g]) <= MaxDepth
    <3>1. CASE g \in Sub(f)
      <4> HIDE DEF new
      <4> QED
        BY <1>4, <1>11, <1>12, <3>1
    <3>2. CASE g \notin Sub(f)
      BY <1>5, <1>9, <2>2, <3>2 DEF Tree
    <3> QED
      BY <3>1, <3>2
  <2> QED
    BY <1>7, <2>1, <2>2 DEF Tree
<1>14. ASSUME NEW g \in Sub(f), NEW h \in Sub(f), new(g) = new(h) PROVE g = h
  <2>1. path[g] = path[h]
    BY <1>1, <1>2, <1>3, <1>14, MovedSame
  <2> QED
    BY <1>3, <2>1 DEF OnePath
\* A path that a folder outside already has would begin with the path the folder moves to.
<1>15. ASSUME NEW g \in Sub(f), NEW h \in Folders \ Sub(f), Here(h), new(g) = path[h] PROVE FALSE
  <2> DEFINE q == Append(P, nm)
  <2>1. q \in Seq(Names) /\ Len(q) > 0
    BY <1>1, <1>2, AppendProperties
  <2>2. Starts(q, path[h])
    BY <1>1, <1>2, <1>3, <1>15, MovedStarts
  <2>3. PICK e \in Folders : Here(e) /\ path[e] = q
    <3> HIDE DEF q
    <3> QED
      BY <2>1, <2>2, <1>15, AncestorAt
  <2>4. /\ path[e] = Append(Up(e), Last(path[e])) /\ Up(e) \in Seq(Names) /\ Last(path[e]) \in Names
        /\ parent[e] = Root \/ (parent[e] \in Folders /\ Here(parent[e]))
    BY <2>3, PathFacts
  <2>5. Up(e) = P /\ Last(path[e]) = nm
    <3> HIDE DEF P, nm
    <3> QED
      BY <1>1, <1>2, <2>3, <2>4, AppendInjective
  <2>6. parent[e] = p
    <3>1. \A d \in Folders : Here(d) => path[d] # <<>>
      <4> SUFFICES ASSUME NEW d \in Folders, Here(d) PROVE path[d] # <<>>
        OBVIOUS
      <4>1. Len(path[d]) \in Nat \ {0}
        BY PathFacts
      <4> QED
        BY <4>1, EmptySeq
    <3> QED
      BY <1>1, <2>4, <2>5, <3>1 DEF Up, At, OnePath
  <2>7. e = f
    BY <2>3, <2>5, <2>6 DEF NameTaken, Children
  \* The folder stays where it is, so h was below it.
  <2>8. Starts(path[f], path[h])
    BY <2>2, <2>3, <2>7
  <2> QED
    BY <1>15, <2>8 DEF Sub
<1>16. OnePath'
  <2>1. ASSUME NEW g \in Folders, NEW h \in Folders, Here(g), Here(h), path'[g] = path'[h] PROVE g = h
    <3> HIDE DEF new
    <3>1. CASE g \in Sub(f) /\ h \in Sub(f)
      BY <1>4, <1>14, <2>1, <3>1
    <3>2. CASE g \in Sub(f) /\ h \notin Sub(f)
      BY <1>4, <1>5, <1>15, <2>1, <3>2
    <3>3. CASE g \notin Sub(f) /\ h \in Sub(f)
      BY <1>4, <1>5, <1>15, <2>1, <3>3
    <3>4. CASE g \notin Sub(f) /\ h \notin Sub(f)
      BY <1>5, <2>1, <3>4 DEF OnePath
    <3> QED
      BY <3>1, <3>2, <3>3, <3>4
  <2> QED
    BY <1>7, <2>1 DEF OnePath
<1> QED
  BY <1>13, <1>16

-----------------------------------------------------------------------------
(* One request after the other *)

Alone == \A r, s \in Requests : r = s
Separate == Extends = {}

\* What a request has found when it began.
Found(t) ==
    /\ t.kind = "create" =>
          /\ t.name \in Names /\ IsPlace(t.to) /\ DepthUnder(Now, t.to) < MaxDepth
          /\ ~ NameTaken(t.to, t.name, {})
    /\ t.kind = "move" =>
          /\ t.folder \in Folders /\ Here(t.folder) /\ IsPlace(t.to) /\ t.to # t.folder
          /\ ~ IsStrictPrefix(path[t.folder], PathOf(Now, t.to)) /\ FitsUnder(Now, t.folder, t.to)
          /\ ~ NameTaken(t.to, Last(path[t.folder]), {t.folder})
    /\ t.kind = "delete" => t.folder \in Folders /\ Here(t.folder)

\* It is still so: what the request has read is what is there.
InSync ==
    /\ seen = [r \in Requests |-> seen[r]]
    /\ \A r \in Requests : todo[r] # Idle =>
          /\ seen[r].parent = parent /\ seen[r].path = path /\ seen[r].depth = depth
          /\ Found(todo[r])

InOrder == Types /\ NoOrphans /\ Tree /\ OnePath /\ InSync

LEMMA SubtreeIsSub ==
    ASSUME Separate, Types, NoOrphans, Tree, NEW f \in Folders, Here(f), NEW s,
           s.parent = parent, s.path = path
    PROVE  Subtree(s, f) = Sub(f)
<1>1. ASSUME NEW g \in Folders, Here(g) PROVE Like(path[f], path[g]) <=> Starts(path[f], path[g])
  BY <1>1, PathFacts, LikeIsStarts DEF Separate
<1> QED
  BY <1>1 DEF Subtree, Sub, Here

\* The check of a move: not to a place whose path the folder's own is a strict prefix of.
LEMMA NotBelow ==
    ASSUME Types, NoOrphans, Tree, OnePath, NEW f \in Folders, Here(f), NEW p, IsPlace(p), p # f,
           ~ IsStrictPrefix(path[f], PathOf(Now, p))
    PROVE  p \notin Sub(f)
<1> SUFFICES ASSUME p \in Sub(f) PROVE FALSE
  OBVIOUS
<1> DEFINE n == Len(path[f])
<1>1. p \in Folders /\ Here(p) /\ Starts(path[f], path[p]) /\ PathOf(Now, p) = path[p]
  BY FolderAssumption DEF Sub, PathOf, Now, FolderAssumption
<1>2. /\ path[f] \in Seq(Names) /\ path[p] \in Seq(Names) /\ n \in Nat /\ n <= Len(path[p])
      /\ \A i \in 1..n : path[f][i] = path[p][i]
  BY <1>1, PathFacts DEF Starts
<1>3. SubSeq(path[f], 1, n) = path[f]
  BY <1>2, SubSeqFull
<1>4. SubSeq(path[p], 1, n) = path[f]
  <2> DEFINE t == SubSeq(path[p], 1, n)
  <2>1. t \in Seq(Names) /\ Len(t) = n /\ \A i \in 1..n : t[i] = path[p][i]
    BY <1>2, StartIs
  <2> HIDE DEF t
  <2>2. t = path[f]
    BY <1>2, <2>1, SeqEqual
  <2> QED
    BY <2>2 DEF t
<1>5. path[f] # path[p]
  BY <1>1 DEF OnePath
<1> QED
  BY <1>1, <1>2, <1>3, <1>4, <1>5 DEF IsStrictPrefix, IsPrefix

\* What a folder's path says is below it is what the parents say.
LEMMA SubIsBelow ==
    ASSUME Types, NoOrphans, Tree, OnePath, NEW f \in Folders, Here(f)
    PROVE  Sub(f) = Abstract!Below(f)
<1>1. ASSUME NEW g \in Abstract!Below(f) PROVE g \in Sub(f)
  <2>1. \A h \in Folders : parent[h] \in Sub(f) => Here(h)
    BY FolderAssumption DEF Sub, Here, FolderAssumption
  <2>2. \A h \in Folders : parent[h] \in Sub(f) => h \in Sub(f)
    BY <2>1, SubIsClosed
  <2>3. f \in Sub(f) /\ Sub(f) \in SUBSET Folders
    BY PathFacts DEF Sub
  <2> QED
    BY <1>1, <2>2, <2>3 DEF Abstract!Below
<1>2. ASSUME NEW S \in SUBSET Folders, f \in S, \A h \in Folders : parent[h] \in S => h \in S
      PROVE  Sub(f) \subseteq S
  <2> SUFFICES ASSUME Sub(f) \ S # {} PROVE FALSE
    OBVIOUS
  <2> DEFINE L == {Len(path[h]) : h \in Sub(f) \ S}
  <2>1. PICK n \in L : \A m \in L : n <= m
    <3>1. \A h \in Sub(f) : Len(path[h]) \in Nat
      BY PathFacts DEF Sub
    <3>2. L \in SUBSET Nat /\ L # {}
      BY <3>1
    <3> HIDE DEF L
    <3> QED
      BY <3>2, LeastLength
  <2>2. PICK h \in Sub(f) \ S : n = Len(path[h])
    OBVIOUS
  <2>3. h \in Folders /\ Here(h) /\ h # f
    BY <1>2, <2>2 DEF Sub
  <2>4. parent[h] \in Sub(f) /\ parent[h] \notin S
    BY <1>2, <2>2, <2>3, SubIsClosed
  <2>5. /\ parent[h] \in Folders /\ parent[h] # Root /\ Up(h) = path[parent[h]]
        /\ Len(path[h]) = Len(Up(h)) + 1 /\ Len(Up(h)) \in Nat
    BY <2>3, <2>4, FolderAssumption, PathFacts DEF Sub, Up, FolderAssumption
  <2>6. Len(path[parent[h]]) \in L
    BY <2>4
  <2> HIDE DEF L
  <2> QED
    BY <2>1, <2>2, <2>5, <2>6
<1>3. Sub(f) \subseteq Folders
  BY DEF Sub
<1> QED
  BY <1>1, <1>2, <1>3 DEF Abstract!Below

LEMMA CreateInOrder ==
    ASSUME Separate, InOrder, NEW r \in Requests, CommitCreate(r)
    PROVE  Tree' /\ OnePath' /\ [Abstract!Next]_parent
<1> USE DEF InOrder, folders, documents
<1> DEFINE p == todo[r].to
           n == todo[r].name
<1>1. CASE UNCHANGED folders
  BY <1>1 DEF Tree, OnePath, Here, Up
<1>2. ASSUME IsPlace(p),
             NEW f \in Folders, parent[f] = Unborn,
             parent' = [parent EXCEPT ![f] = p],
             path' = [path EXCEPT ![f] = Append(PathOf(seen[r], p), n)],
             depth' = [depth EXCEPT ![f] = DepthUnder(seen[r], p)]
      PROVE  Tree' /\ OnePath' /\ [Abstract!Next]_parent
  <2>1. /\ seen[r].parent = parent /\ seen[r].path = path /\ seen[r].depth = depth
        /\ n \in Names /\ DepthUnder(Now, p) < MaxDepth /\ ~ NameTaken(p, n, {})
    <3>1. todo[r].kind = "create"
      BY DEF CommitCreate
    <3>2. todo[r] # Idle
      BY <3>1 DEF Idle
    <3>3. /\ seen[r].parent = parent /\ seen[r].path = path /\ seen[r].depth = depth
          /\ Found(todo[r])
      BY <3>2 DEF InSync
    <3> QED
      BY <3>1, <3>3 DEF Found
  <2>2. PathOf(seen[r], p) = PathOf(Now, p) /\ DepthUnder(seen[r], p) = DepthUnder(Now, p)
    BY <2>1 DEF PathOf, DepthUnder, Now
  <2>3. Tree' /\ OnePath'
    BY <1>2, <2>1, <2>2, CreateKeepsTree
  <2>4. Abstract!Create(f, p) /\ p \in Folders \cup {Root}
    BY <1>2 DEF Abstract!Create, Abstract!Present, IsPlace, Here
  <2> QED
    BY <2>3, <2>4 DEF Abstract!Next
<1> QED
  BY <1>1, <1>2 DEF CommitCreate, Fails

LEMMA MoveInOrder ==
    ASSUME Separate, InOrder, NEW r \in Requests, CommitMove(r)
    PROVE  Tree' /\ OnePath' /\ [Abstract!Next]_parent
<1> USE DEF InOrder, folders, documents
<1> DEFINE s == seen[r]
           f == todo[r].folder
           p == todo[r].to
           new(g) == NewPath(s, f, p, g)
           newdepth(g) == IF g = f THEN DepthUnder(s, p) ELSE Len(new(g)) - 1
           moved(g) == Moved(At(p), path[g], Len(path[f]))
<1>1. CASE UNCHANGED folders
  BY <1>1 DEF Tree, OnePath, Here, Up
<1>2. CASE /\ parent' = [parent EXCEPT ![f] = IF p # s.parent[f] THEN p ELSE @]
           /\ path' = [g \in Folders |-> IF g \in Subtree(s, f) /\ new(g) # s.path[g]
                                         THEN new(g) ELSE path[g]]
           /\ depth' = [g \in Folders |-> IF g \in Subtree(s, f) /\ newdepth(g) # s.depth[g]
                                          THEN newdepth(g) ELSE depth[g]]
  <2>1. /\ s.parent = parent /\ s.path = path /\ s.depth = depth
        /\ f \in Folders /\ Here(f) /\ IsPlace(p) /\ p # f
        /\ ~ IsStrictPrefix(path[f], PathOf(Now, p)) /\ FitsUnder(Now, f, p)
        /\ ~ NameTaken(p, Last(path[f]), {f})
    <3>1. todo[r].kind = "move"
      BY DEF CommitMove
    <3>2. todo[r] # Idle
      BY <3>1 DEF Idle
    <3>3. /\ seen[r].parent = parent /\ seen[r].path = path /\ seen[r].depth = depth
          /\ Found(todo[r])
      BY <3>2 DEF InSync
    <3> QED
      BY <3>1, <3>3 DEF Found
  <2>2. Subtree(s, f) = Sub(f) /\ Subtree(Now, f) = Sub(f)
    BY <2>1, SubtreeIsSub DEF Now
  <2>3. p \notin Sub(f)
    BY <2>1, NotBelow
  <2>4. /\ At(p) = PathOf(Now, p) /\ At(p) \in Seq(Names) /\ DepthUnder(Now, p) = Len(At(p))
        /\ PathOf(s, p) = PathOf(Now, p) /\ DepthUnder(s, p) = DepthUnder(Now, p)
        /\ Len(At(p)) \in Nat
    BY <2>1, AtFacts DEF PathOf, DepthUnder, Now
  <2>5. \A g : new(g) = moved(g)
    BY <2>1, <2>4 DEF NewPath, Moved
  <2>6. Len(moved(f)) = Len(At(p)) + 1
    <3>1. path[f] \in Seq(Names) /\ Len(path[f]) > 0
      BY <2>1, PathFacts
    <3> QED
      BY <2>4, <3>1, MovedSelf DEF Under
  <2>7. \A g \in Sub(f) : newdepth(g) = Len(moved(g)) - 1
    <3> HIDE DEF new, moved
    <3> QED
      BY <2>4, <2>5, <2>6
  <2>8. parent' = [parent EXCEPT ![f] = p]
    BY <1>2, <2>1 DEF Types
  <2>9. path' = [g \in Folders |-> IF g \in Sub(f) THEN moved(g) ELSE path[g]]
    <3> HIDE DEF new, moved
    <3> QED
      BY <1>2, <2>1, <2>2, <2>5
  <2>10. depth' = [g \in Folders |-> IF g \in Sub(f) THEN Len(moved(g)) - 1 ELSE depth[g]]
    <3> HIDE DEF newdepth, moved
    <3> QED
      BY <1>2, <2>1, <2>2, <2>7
  <2>11. \A g \in Sub(f) : Len(At(p)) + depth[g] - depth[f] < MaxDepth
    BY <2>1, <2>2, <2>4 DEF FitsUnder, Now
  <2>12. Tree' /\ OnePath'
    BY <2>1, <2>3, <2>8, <2>9, <2>10, <2>11, MoveKeepsTree
  <2>13. Abstract!Move(f, p) /\ p \in Folders \cup {Root}
    BY <2>1, <2>3, <2>8, SubIsBelow DEF Abstract!Move, Abstract!Present, IsPlace, Here
  <2> QED
    BY <2>1, <2>12, <2>13 DEF Abstract!Next
<1> QED
  BY <1>1, <1>2 DEF CommitMove, Fails

LEMMA DeleteInOrder ==
    ASSUME Separate, InOrder, NEW r \in Requests, CommitDelete(r)
    PROVE  Tree' /\ OnePath' /\ [Abstract!Next]_parent
<1> USE DEF InOrder, folders, documents
<1> DEFINE f == todo[r].folder
           ids == Subtree(seen[r], f)
<1>1. CASE UNCHANGED folders
  BY <1>1 DEF Tree, OnePath, Here, Up
<1>2. CASE /\ \A g \in ids : Children(g) \subseteq ids
           /\ parent' = [g \in Folders |-> IF g \in ids THEN Gone ELSE parent[g]]
           /\ path' = [g \in Folders |-> IF g \in ids THEN <<>> ELSE path[g]]
           /\ depth' = [g \in Folders |-> IF g \in ids THEN 0 ELSE depth[g]]
  <2>1. /\ seen[r].parent = parent /\ seen[r].path = path
        /\ f \in Folders /\ Here(f)
    <3>1. todo[r].kind = "delete"
      BY DEF CommitDelete
    <3>2. todo[r] # Idle
      BY <3>1 DEF Idle
    <3>3. /\ seen[r].parent = parent /\ seen[r].path = path /\ seen[r].depth = depth
          /\ Found(todo[r])
      BY <3>2 DEF InSync
    <3> QED
      BY <3>1, <3>3 DEF Found
  <2>2. ids = Sub(f) /\ ids \in SUBSET Folders
    BY <2>1, SubtreeIsSub DEF Sub
  <2> HIDE DEF ids
  <2>3. Tree' /\ OnePath'
    BY <1>2, <2>2, DeleteKeepsTree
  <2>4. Abstract!Delete(f)
    BY <1>2, <2>1, <2>2, SubIsBelow DEF Abstract!Delete, Abstract!Present, Here
  <2> QED
    BY <2>1, <2>3, <2>4 DEF Abstract!Next
<1> QED
  BY <1>1, <1>2 DEF CommitDelete, Fails

LEMMA StepInOrder ==
    ASSUME Alone, Separate, InOrder, [Next]_vars
    PROVE  InOrder' /\ [Abstract!Next]_parent
<1> USE DEF folders, documents
<1>1. Types' /\ NoOrphans'
  BY StepTypes, StepNoOrphans DEF InOrder
<1>2. ASSUME UNCHANGED folders PROVE Tree' /\ OnePath' /\ [Abstract!Next]_parent
  BY <1>2 DEF InOrder, Tree, OnePath, Here, Up
<1>3. ASSUME UNCHANGED <<folders, todo, seen>> PROVE InSync'
  BY <1>3 DEF InOrder, InSync, Found, Here, IsPlace, DepthUnder, PathOf, Now, NameTaken, Children,
              FitsUnder, Subtree
\* A request begins: there is no other.
<1>4. ASSUME NEW r \in Requests, NEW kind, NEW f, NEW p, NEW n, Begin(r, kind, f, p, n),
             Found([kind |-> kind, folder |-> f, to |-> p, name |-> n])
      PROVE  InSync' /\ UNCHANGED folders
  <2>1. /\ \A s \in Requests : s = r
        /\ todo'[r] = [kind |-> kind, folder |-> f, to |-> p, name |-> n]
        /\ seen'[r].parent = parent /\ seen'[r].path = path /\ seen'[r].depth = depth
        /\ seen' = [s \in Requests |-> seen'[s]]
    BY <1>4 DEF Alone, Begin, InOrder, InSync, Types, Now
  <2>2. UNCHANGED folders
    BY <1>4 DEF Begin
  <2>3. Found(todo[r])'
    BY <1>4, <2>1, <2>2 DEF Found, Here, IsPlace, DepthUnder, PathOf, Now, NameTaken, Children,
                            FitsUnder, Subtree
  <2> QED
    BY <2>1, <2>2, <2>3 DEF InSync
\* A request ends: there is none.
<1>5. ASSUME NEW r \in Requests, End(r) PROVE InSync'
  <2>1. \A s \in Requests : todo'[s] = Idle
    BY <1>5 DEF Alone, End, InOrder, Types
  <2>2. seen' = [s \in Requests |-> seen'[s]]
    BY <1>5 DEF End, InOrder, InSync
  <2> QED
    BY <2>1, <2>2 DEF InSync
<1>6. ASSUME NEW r \in Requests, NEW p \in Folders \cup {Root}, NEW n \in Names, BeginCreate(r, p, n)
      PROVE  InSync' /\ UNCHANGED folders
  BY <1>4, <1>6 DEF BeginCreate, Found
<1>7. ASSUME NEW r \in Requests, NEW p \in Folders \cup {Root}, NEW f \in Folders, BeginMove(r, f, p)
      PROVE  InSync' /\ UNCHANGED folders
  BY <1>4, <1>7 DEF BeginMove, Found
<1>8. ASSUME NEW r \in Requests, NEW f \in Folders, BeginDelete(r, f)
      PROVE  InSync' /\ UNCHANGED folders
  BY <1>4, <1>8 DEF BeginDelete, Found
<1>9. ASSUME NEW r \in Requests, CommitCreate(r) \/ CommitMove(r) \/ CommitDelete(r) PROVE InSync'
  BY <1>5, <1>9 DEF CommitCreate, CommitMove, CommitDelete, Fails
<1>10. ASSUME NEW d \in Docs,
              (\E p \in Folders \cup {Root} : PutDocument(d, p)) \/ UploadVersion(d) \/ DeleteDocument(d)
       PROVE  UNCHANGED <<folders, todo, seen>>
  BY <1>10 DEF PutDocument, UploadVersion, DeleteDocument
<1>11. CASE UNCHANGED vars
  BY <1>1, <1>2, <1>3, <1>11 DEF vars, InOrder
<1> QED
  BY <1>1, <1>2, <1>3, <1>6, <1>7, <1>8, <1>9, <1>10, <1>11, CreateInOrder, MoveInOrder, DeleteInOrder
     DEF Next, InOrder

LEMMA InitInOrder == Init => InOrder /\ Abstract!Init
BY FolderAssumption, EmptySeq
   DEF Init, InOrder, Types, NoOrphans, Tree, OnePath, InSync, Here, Places, Idle, Nothing,
       Abstract!Init, FolderAssumption

LEMMA InOrderImplies ==
    ASSUME InOrder
    PROVE  PathsDerived /\ SiblingNamesUnique /\ NoCycle
<1> USE DEF InOrder
<1>1. ASSUME NEW f \in Folders, Here(f)
      PROVE  /\ path[f] = Append(Up(f), Last(path[f])) /\ Up(f) = PathOf(Now, parent[f])
             /\ depth[f] = Len(path[f]) - 1 /\ Len(path[f]) <= MaxDepth
  BY <1>1, PathFacts DEF Tree, Up, PathOf, Now
<1>2. PathsDerived
  BY <1>1 DEF PathsDerived
<1>3. SiblingNamesUnique
  <2> SUFFICES ASSUME NEW f \in Folders, NEW g \in Folders, Here(f), parent[f] = parent[g],
                      Last(path[f]) = Last(path[g])
               PROVE  f = g
    BY DEF SiblingNamesUnique
  <2>1. Here(g) /\ Up(f) = Up(g)
    BY DEF Here, Up
  <2> QED
    BY <1>1, <2>1 DEF OnePath
<1>4. NoCycle
  <2> SUFFICES ASSUME NEW S \in SUBSET {f \in Folders : Here(f)}, S # {}
               PROVE  \E f \in S : parent[f] \notin S
    BY DEF NoCycle
  <2> DEFINE L == {Len(path[f]) : f \in S}
  <2>1. PICK n \in L : \A m \in L : n <= m
    <3>1. \A f \in S : Len(path[f]) \in Nat
      BY PathFacts
    <3>2. L \in SUBSET Nat /\ L # {}
      BY <3>1
    <3> HIDE DEF L
    <3> QED
      BY <3>2, LeastLength
  <2>2. PICK f \in S : n = Len(path[f])
    OBVIOUS
  <2>3. ASSUME parent[f] \in S PROVE FALSE
    <3>1. /\ parent[f] # Root /\ Up(f) = path[parent[f]]
          /\ Len(path[f]) = Len(Up(f)) + 1 /\ Len(Up(f)) \in Nat
      BY <2>2, <2>3, FolderAssumption, PathFacts DEF Up, FolderAssumption
    <3>2. Len(path[parent[f]]) \in L
      BY <2>3
    <3> HIDE DEF L
    <3> QED
      BY <2>1, <2>2, <3>1, <3>2
  <2> QED
    BY <2>2, <2>3
<1> QED
  BY <1>2, <1>3, <1>4

\* Paths and depths follow from the parents after every creation, move and deletion of a
\* subtree (CreateFolderHandler, MoveFolderHandler, DeleteFolderHandler).
THEOREM PathsDerivedHolds == ASSUME Alone, Separate PROVE Spec => []PathsDerived
<1>1. InOrder /\ [Next]_vars => InOrder'
  BY StepInOrder
<1> QED
  BY <1>1, InitInOrder, InOrderImplies, PTL DEF Spec

\* No two folders of a place have one name, moves included, although the database does not
\* compare names in the root (sibling_name_exists).
THEOREM SiblingNamesUniqueHolds == ASSUME Alone, Separate PROVE Spec => []SiblingNamesUnique
<1>1. InOrder /\ [Next]_vars => InOrder'
  BY StepInOrder
<1> QED
  BY <1>1, InitInOrder, InOrderImplies, PTL DEF Spec

\* No move makes a folder its own ancestor: the check compares paths, not parents
\* (MoveFolderHandler).
THEOREM NoCycleHolds == ASSUME Alone, Separate PROVE Spec => []NoCycle
<1>1. InOrder /\ [Next]_vars => InOrder'
  BY StepInOrder
<1> QED
  BY <1>1, InitInOrder, InOrderImplies, PTL DEF Spec

\* The handlers, which find what is below a folder by LIKE, move and delete exactly what the
\* parents say is below it.
THEOREM ImplementsForestHolds == ASSUME Alone, Separate PROVE Spec => ImplementsForest
<1>1. InOrder /\ [Next]_vars => InOrder' /\ [Abstract!Next]_parent
  BY StepInOrder
<1> QED
  BY <1>1, InitInOrder, PTL DEF Spec, ImplementsForest, Abstract!Spec
=============================================================================
