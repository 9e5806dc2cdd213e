---------------------------- MODULE UploadDrawer ----------------------------
(***************************************************************************)
(* The upload drawer of the frontend                                       *)
(* (features/knowledge/components/upload-drawer.tsx): a list of files, and *)
(* loops that upload the queued ones, four calls to the API per file.      *)
(*                                                                         *)
(* "Cancel all" aborts the loop it knows and lets another start, while the *)
(* first still waits for a call that cannot be aborted.  So loops overlap, *)
(* share the rows and the flag "running", and find rows that were removed. *)
(* The API is external: a call is answered, fails, or is carried out with  *)
(* its answer lost.                                                        *)
(***************************************************************************)
EXTENDS Integers, FiniteSets

CONSTANTS
    Rows,       \* the files in the order they are added, 1..n
    Loops,      \* the runs of startUploads in the order they begin, 1..m
    None

VARIABLES
    status,     \* per row
    running,    \* the flag of that name
    controller, \* abortRef: the loop it aborts, or None
    aborted,    \* the loops that are aborted
    at,         \* per loop: the call it waits for
    row,        \* per loop: the row it uploads
    todo,       \* per loop: the rows it has captured and not come to
    taken,      \* <<loop, row>>: the loop has come to the row
    versions,   \* those whose version is made
    unheard     \* and whose answer is lost

vars == <<status, running, controller, aborted, at, row, todo, taken, versions, unheard>>

Terminal == {"completed", "failed", "cancelled"}
Shown == {r \in Rows : status[r] \notin {"unborn", "removed"}}
Queued == {r \in Rows : status[r] = "queued"}
AllTerminal == Shown # {} /\ \A r \in Shown : status[r] \in Terminal
Active(l) == at[l] \notin {"unborn", "ended"}
First(S) == CHOOSE r \in S : \A q \in S : r <= q

Init ==
    /\ status = [r \in Rows |-> "unborn"]
    /\ running = FALSE /\ controller = None /\ aborted = {}
    /\ at = [l \in Loops |-> "unborn"]
    /\ row = [l \in Loops |-> None]
    /\ todo = [l \in Loops |-> {}]
    /\ taken = {} /\ versions = {} /\ unheard = {}

-----------------------------------------------------------------------------
(* The user *)

AddFile(r) ==
    /\ status[r] = "unborn" /\ \A q \in Rows : q < r => status[q] # "unborn"
    /\ \E s \in {"queued", "failed"} : status' = [status EXCEPT ![r] = s]
    /\ UNCHANGED <<running, controller, aborted, at, row, todo, taken, versions, unheard>>

RemoveRow(r) ==
    /\ status[r] \in {"queued", "failed"} /\ ~running
    /\ status' = [status EXCEPT ![r] = "removed"]
    /\ UNCHANGED <<running, controller, aborted, at, row, todo, taken, versions, unheard>>

CancelAll ==
    /\ running
    /\ aborted' = aborted \cup {controller}
    /\ status' = [r \in Rows |-> IF status[r] \in {"queued", "uploading"}
                                 THEN "cancelled" ELSE status[r]]
    /\ running' = FALSE
    /\ UNCHANGED <<controller, at, row, todo, taken, versions, unheard>>

\* The dialog is closed, or "Done" is pressed.
Close ==
    /\ ~running \/ AllTerminal
    /\ Shown # {}
    /\ status' = [r \in Rows |-> IF r \in Shown THEN "removed" ELSE status[r]]
    /\ UNCHANGED <<running, controller, aborted, at, row, todo, taken, versions, unheard>>

-----------------------------------------------------------------------------
(* The loops *)

\* Loop l goes on to the first of the rows rest, when the row it was at has become s.
GoOn(l, s, rest) ==
    IF rest = {} \/ l \in aborted
    THEN /\ at' = [at EXCEPT ![l] = "ended"]
         /\ row' = [row EXCEPT ![l] = None]
         /\ todo' = [todo EXCEPT ![l] = {}]
         /\ status' = s
         /\ running' = FALSE
         /\ UNCHANGED taken
    ELSE LET r == First(rest) IN
         /\ at' = [at EXCEPT ![l] = "document"]
         /\ row' = [row EXCEPT ![l] = r]
         /\ todo' = [todo EXCEPT ![l] = rest \ {r}]
         /\ status' = [s EXCEPT ![r] = IF @ = "removed" THEN @ ELSE "uploading"]
         /\ taken' = taken \cup {<<l, r>>}
         /\ UNCHANGED running

StartUploads(l) ==
    /\ at[l] = "unborn" /\ \A k \in Loops : k < l => at[k] # "unborn"
    /\ Queued # {} /\ ~running
    /\ controller' = l
    /\ running' = TRUE
    /\ LET r == First(Queued) IN
       /\ at' = [at EXCEPT ![l] = "document"]
       /\ row' = [row EXCEPT ![l] = r]
       /\ todo' = [todo EXCEPT ![l] = Queued \ {r}]
       /\ status' = [status EXCEPT ![r] = "uploading"]
       /\ taken' = taken \cup {<<l, r>>}
    /\ UNCHANGED <<aborted, versions, unheard>>

\* updateRow: of a row that was removed nothing is left to change.
Becomes(r, s) == [status EXCEPT ![r] = IF @ = "removed" THEN @ ELSE s]

\* createDocument and initiateUpload are answered; they know of no signal.
Answered(l, here, next) ==
    /\ at[l] = here
    /\ at' = [at EXCEPT ![l] = next]
    /\ UNCHANGED <<status, running, controller, aborted, row, todo, taken, versions, unheard>>

DocumentCreated(l) == Answered(l, "document", "session")
UploadInitiated(l) == Answered(l, "session", "file")

\* Mutant: the row is complete once its file has been sent.
UploadCompleted_IsAll(l) ==
    /\ at[l] = "file" /\ l \notin aborted
    /\ GoOn(l, Becomes(row[l], "completed"), todo[l])
    /\ UNCHANGED <<controller, aborted, versions, unheard>>

\* completeUpload knows of the signal.
UploadCompleted(l) == l \notin aborted /\ Answered(l, "file", "version")

\* createDocumentVersion is carried out, and then answered.
VersionMade(l) ==
    /\ at[l] = "version"
    /\ at' = [at EXCEPT ![l] = "made"]
    /\ versions' = versions \cup {<<l, row[l]>>}
    /\ UNCHANGED <<status, running, controller, aborted, row, todo, taken, unheard>>

VersionAnswered(l) ==
    /\ at[l] = "made"
    /\ GoOn(l, Becomes(row[l], "completed"), todo[l])
    /\ UNCHANGED <<controller, aborted, versions, unheard>>

\* A call fails, is cut off by its signal, or its answer is lost.
CallFails(l) ==
    /\ Active(l)
    /\ GoOn(l, Becomes(row[l], IF l \in aborted THEN "cancelled" ELSE "failed"), todo[l])
    /\ unheard' = IF at[l] = "made" THEN unheard \cup {<<l, row[l]>>} ELSE unheard
    /\ UNCHANGED <<controller, aborted, versions>>

Next ==
    \/ \E r \in Rows : AddFile(r) \/ RemoveRow(r)
    \/ CancelAll \/ Close
    \/ \E l \in Loops :
          \/ StartUploads(l) \/ DocumentCreated(l) \/ UploadInitiated(l) \/ UploadCompleted(l)
          \/ VersionMade(l) \/ VersionAnswered(l) \/ CallFails(l)

Spec == Init /\ [][Next]_vars

-----------------------------------------------------------------------------
\* What a row says is true whatever the loops do to one another: a completed one has its
\* version, one that is uploading has a loop at it, and one that failed or was cancelled
\* has none, unless the drawer has not heard of it or another loop came to the row as well.
RowsTrue ==
    /\ \A r \in Rows : status[r] = "completed" => \E l \in Loops : <<l, r>> \in versions
    /\ \A r \in Rows : status[r] = "uploading" => \E l \in Loops : row[l] = r
    /\ \A r \in Rows, l \in Loops :
          <<l, r>> \in versions \ unheard /\ status[r] \in {"failed", "cancelled"} =>
             \/ row[l] = r /\ at[l] = "made"
             \/ \E k \in Loops \ {l} : <<k, r>> \in taken

\* A file is uploaded once.  It is not: a loop that was cancelled ends while another runs
\* and resets running, and a third captures the rows the second has not come to.
UploadedOnce == \A r \in Rows, k, l \in Loops : {<<k, r>>, <<l, r>>} \subseteq taken => k = l

\* "Cancel all" leaves no loop at work.  For the same reason it may.
CancelStops == [][CancelAll => \A l \in Loops : Active(l) => l \in aborted']_vars
=============================================================================
