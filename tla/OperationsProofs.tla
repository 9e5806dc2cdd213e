-------------------------- MODULE OperationsProofs --------------------------
(***************************************************************************)
(* The launcher, the experiments, the upload drawer and the pages and the  *)
(* tree of a listing, for any number of signals, runs, experiments, files, *)
(* loops, documents and folders.  At the end, what the run checks of the   *)
(* algorithms of PartsProofs.                                              *)
(***************************************************************************)
EXTENDS OperationsMC, PartsProofs

operationVars == <<input, result, launcherVars, evaluationVars, listingVars, uploadVars>>

\* The parts of OperationsMC do not touch one another.
LEMMA Apart ==
    ASSUME [Next]_operationVars
    PROVE  /\ UNCHANGED input
           /\ input.part = "launcher" => [Launcher!Next]_launcherVars
           /\ input.part = "evaluation" => [Evaluation!Next]_evaluationVars
           /\ input.part = "listing" => [Listings!Next]_listingVars
           /\ input.part = "upload" => [UploadDrawer!Next]_uploadVars
BY DEF Next, Computes, PartsNext, Launches, Evaluates, Lists, Uploads, operationVars

LEMMA ApartInit ==
    ASSUME Init
    PROVE  /\ input.part = "launcher" => Launcher!Init
           /\ input.part = "evaluation" => Evaluation!Init
           /\ input.part = "listing" => Listings!Init
           /\ input.part = "upload" => UploadDrawer!Init
<1>1. PartsInit => input.part \notin {"launcher", "evaluation", "listing", "upload"}
  BY DEF PartsInit, EvidenceInputs, RetrievalInputs, AnsweringInputs, MetricsInputs
<1> QED
  BY <1>1 DEF Init, Only

-----------------------------------------------------------------------------
(* The launcher *)

\* Where a shutdown is: at a server, at docker compose, or done.
ShutdownSteps(n) == {Launcher!Stop(n), Launcher!Reap(n)}
Closing == ShutdownSteps("frontend") \cup ShutdownSteps("backend") \cup {"compose_down"}

LauncherTypes ==
    /\ shuttingDown \in BOOLEAN /\ abandoned \in BOOLEAN
    /\ docker \in BOOLEAN /\ downFailed \in BOOLEAN /\ upLeft \in BOOLEAN
    /\ child \in [Launcher!Servers -> {"none", "alive", "dead"}]
    /\ known \in [Launcher!Servers -> BOOLEAN]
    /\ reuse \in [Launcher!Servers -> BOOLEAN]

\* A shutdown that no signal cut short has dealt with what it has passed: the frontend
\* before the backend, both before docker compose, and all before the exit.
ShutdownInOrder ==
    /\ step \in Closing \cup {"exited"} => shuttingDown
    /\ shuttingDown /\ ~abandoned =>
          /\ step \in Closing \cup {"leave", "exited"}
          /\ step \notin ShutdownSteps("frontend") => ~Launcher!Mine("frontend")
          /\ step \notin ShutdownSteps("frontend") \cup ShutdownSteps("backend") =>
                ~Launcher!Mine("backend")
          /\ step \in {"leave", "exited"} /\ docker => downFailed \/ upLeft

LauncherInv == LauncherTypes /\ ShutdownInOrder

LEMMA LauncherInitInv ==
    ASSUME Launcher!Init
    PROVE  LauncherInv
BY DEF Launcher!Init, LauncherInv, LauncherTypes, ShutdownInOrder, Closing, ShutdownSteps,
       Launcher!Servers, Launcher!Stop, Launcher!Reap, Launcher!Mine

LEMMA LauncherStepTypes ==
    ASSUME LauncherTypes, [Launcher!Next]_launcherVars
    PROVE  LauncherTypes'
<1> USE DEF LauncherTypes, Launcher!Servers
<1>1. CASE UNCHANGED launcherVars
  BY <1>1 DEF launcherVars
<1>2. CASE Launcher!Signal \/ Launcher!ServicesAppear \/ Launcher!StopFileAppears
  BY <1>2 DEF Launcher!Signal, Launcher!ServicesAppear, Launcher!StopFileAppears
<1>3. ASSUME NEW n \in Launcher!Servers, Launcher!ServerExits(n)
      PROVE  LauncherTypes'
  BY <1>3 DEF Launcher!ServerExits
<1>4. ASSUME NEW n \in Launcher!Servers,
             Launcher!Spawn(n) \/ Launcher!Hold(n) \/ Launcher!AskToStop(n) \/ Launcher!ReapServer(n)
      PROVE  LauncherTypes'
  BY <1>4 DEF Launcher!Spawn, Launcher!Hold, Launcher!AskToStop, Launcher!ReapServer
<1>5. CASE Launcher!ReportPorts
  <2>1. CASE UNCHANGED reuse
    BY <1>5, <2>1 DEF Launcher!ReportPorts
  <2>2. CASE ~UNCHANGED reuse
    <3>1. PICK port \in [Launcher!Servers -> Launcher!PortStates] :
             reuse' = [n \in Launcher!Servers |-> port[n] = "ours"]
      BY <1>5, <2>2 DEF Launcher!ReportPorts
    <3> QED
      BY <1>5, <3>1 DEF Launcher!ReportPorts
  <2> QED
    BY <2>1, <2>2
<1>6. CASE Launcher!ComposeUp \/ Launcher!ComposeDown
  BY <1>6 DEF Launcher!ComposeUp, Launcher!ComposeDown
<1>7. CASE \/ Launcher!ValidateTools \/ Launcher!ValidateRepository \/ Launcher!EnsureEngine
           \/ Launcher!WaitForHealthyServices \/ Launcher!EnsureBackendDeps
           \/ Launcher!EnsureFrontendDeps \/ Launcher!RunAlembic
  BY <1>7 DEF Launcher!ValidateTools, Launcher!ValidateRepository, Launcher!EnsureEngine,
     Launcher!WaitForHealthyServices, Launcher!EnsureBackendDeps,
     Launcher!EnsureFrontendDeps, Launcher!RunAlembic, Launcher!Passes
<1>8. CASE \/ Launcher!AwaitBackend \/ Launcher!AwaitVite \/ Launcher!ConfirmFrontend
           \/ Launcher!Ready \/ Launcher!Watch \/ Launcher!Leave
  BY <1>8 DEF Launcher!AwaitBackend, Launcher!AwaitVite, Launcher!ConfirmFrontend,
     Launcher!Passes, Launcher!Ready, Launcher!Watch, Launcher!Leave
<1> QED
  BY <1>1, <1>2, <1>3, <1>4, <1>5, <1>6, <1>7, <1>8 DEF Launcher!Next, Launcher!Program,
     Launcher!Foreground

\* The steps of the servers, by name.
LEMMA StepNames ==
    /\ Launcher!Start("backend") = "start_backend" /\ Launcher!Start("frontend") = "start_frontend"
    /\ Launcher!Assign("backend") = "assign_backend"
    /\ Launcher!Assign("frontend") = "assign_frontend"
    /\ Launcher!Await("backend") = "await_backend" /\ Launcher!Await("frontend") = "await_frontend"
    /\ Launcher!Confirm("frontend") = "confirm_frontend"
    /\ Launcher!Stop("backend") = "stop_backend" /\ Launcher!Stop("frontend") = "stop_frontend"
    /\ Launcher!Reap("backend") = "reap_backend" /\ Launcher!Reap("frontend") = "reap_frontend"
    /\ Launcher!AfterStop("frontend") = "stop_backend"
    /\ Launcher!AfterStop("backend") = "compose_down"
BY DEF Launcher!Start, Launcher!Assign, Launcher!Await, Launcher!Confirm, Launcher!Stop,
       Launcher!Reap, Launcher!AfterStop

LEMMA LauncherStepOrder ==
    ASSUME LauncherInv, [Launcher!Next]_launcherVars
    PROVE  ShutdownInOrder'
<1> USE DEF LauncherInv, LauncherTypes, ShutdownInOrder, Closing, ShutdownSteps,
        Launcher!Servers, Launcher!Mine
<1> USE StepNames
<1>1. CASE UNCHANGED launcherVars
  BY <1>1 DEF launcherVars
<1>2. CASE Launcher!Signal \/ Launcher!ServicesAppear \/ Launcher!StopFileAppears
  BY <1>2 DEF Launcher!Signal, Launcher!ServicesAppear, Launcher!StopFileAppears
<1>3. ASSUME NEW n \in Launcher!Servers, Launcher!ServerExits(n)
      PROVE  ShutdownInOrder'
  BY <1>3 DEF Launcher!ServerExits
<1>4. ASSUME NEW n \in Launcher!Servers, Launcher!Spawn(n) \/ Launcher!Hold(n)
      PROVE  ShutdownInOrder'
  BY <1>4 DEF Launcher!Spawn, Launcher!Hold
<1>5. ASSUME NEW n \in Launcher!Servers, Launcher!AskToStop(n) \/ Launcher!ReapServer(n)
      PROVE  ShutdownInOrder'
  <2>1. CASE n = "frontend"
    BY <1>5, <2>1 DEF Launcher!AskToStop, Launcher!ReapServer
  <2>2. CASE n = "backend"
    BY <1>5, <2>2 DEF Launcher!AskToStop, Launcher!ReapServer
  <2> QED
    BY <2>1, <2>2
<1>6. CASE Launcher!ReportPorts
  BY <1>6 DEF Launcher!ReportPorts, Launcher!Fail
<1>7. CASE Launcher!ComposeUp \/ Launcher!ComposeDown
  <2>1. CASE Launcher!ComposeUp
    BY <2>1 DEF Launcher!ComposeUp, Launcher!Fail
  <2>2. CASE Launcher!ComposeDown
    BY <2>2 DEF Launcher!ComposeDown
  <2> QED
    BY <1>7, <2>1, <2>2
<1>8. CASE \/ Launcher!ValidateTools \/ Launcher!ValidateRepository \/ Launcher!EnsureEngine
           \/ Launcher!WaitForHealthyServices \/ Launcher!EnsureBackendDeps
           \/ Launcher!EnsureFrontendDeps \/ Launcher!RunAlembic
  BY <1>8 DEF Launcher!ValidateTools, Launcher!ValidateRepository, Launcher!EnsureEngine,
     Launcher!WaitForHealthyServices, Launcher!EnsureBackendDeps,
     Launcher!EnsureFrontendDeps, Launcher!RunAlembic, Launcher!Passes, Launcher!Fail
<1>9. CASE \/ Launcher!AwaitBackend \/ Launcher!AwaitVite \/ Launcher!ConfirmFrontend
           \/ Launcher!Ready \/ Launcher!Watch \/ Launcher!Leave
  BY <1>9 DEF Launcher!AwaitBackend, Launcher!AwaitVite, Launcher!ConfirmFrontend,
     Launcher!Passes, Launcher!Ready, Launcher!Watch, Launcher!Leave, Launcher!Fail
<1> QED
  BY <1>1, <1>2, <1>3, <1>4, <1>5, <1>6, <1>7, <1>8, <1>9 DEF Launcher!Next, Launcher!Program,
     Launcher!Foreground

\* However the launcher ends, by a failed check, the stop file, the end of a server or a
\* signal at any step, no server it holds is left alive and the services are down, unless a
\* signal cut the shutdown short, docker compose down failed, or a docker compose up that was
\* interrupted still goes on (launcher.py, _shutdown).  Of a server that a signal kept the
\* launcher from holding nothing is said.
THEOREM CleanExitHolds == Spec => []CleanExit
<1> DEFINE Inv == input.part = "launcher" => LauncherInv
<1>1. Init => Inv
  BY ApartInit, LauncherInitInv
<1>2. Inv /\ [Next]_operationVars => Inv'
  BY Apart, LauncherStepTypes, LauncherStepOrder DEF LauncherInv
<1>3. Inv => CleanExit
  BY DEF CleanExit, Launcher!CleanExit, Launcher!Exited, LauncherInv, LauncherTypes,
     ShutdownInOrder, Closing, ShutdownSteps, Launcher!Servers, Launcher!Stop, Launcher!Reap
<1> QED
  BY <1>1, <1>2, <1>3, PTL DEF Spec, operationVars

-----------------------------------------------------------------------------
(* The upload drawer *)

DrawerTypes ==
    /\ status \in [Rows -> {"unborn", "queued", "uploading", "completed", "failed",
                            "cancelled", "removed"}]
    /\ calls \in [Loops -> {"unborn", "document", "session", "file", "version", "made", "ended"}]
    /\ row \in [Loops -> Rows \cup {None}]
    /\ todo \in [Loops -> SUBSET Rows]
    /\ taken \subseteq Loops \X Rows
    /\ versions \subseteq Loops \X Rows

\* A loop is at a row it has taken, and comes to no row twice.
LoopsInOrder ==
    /\ \A l \in Loops : /\ UploadDrawer!Active(l) <=> row[l] \in Rows
                        /\ ~UploadDrawer!Active(l) => todo[l] = {}
                        /\ row[l] \notin todo[l]
                        /\ row[l] \in Rows => <<l, row[l]>> \in taken
                        /\ calls[l] = "made" => <<l, row[l]>> \in versions
    /\ \A l \in Loops, r \in Rows : <<l, r>> \in taken => calls[l] # "unborn"
    /\ versions \subseteq taken

\* The row r is as loop l, which made its version, has left it, and l will not come back.
LeftComplete(l, r) ==
    status[r] \in {"completed", "removed"} /\ row[l] # r /\ r \notin todo[l]

SharedRow(l, r) == \E k \in Loops \ {l} : <<k, r>> \in taken

\* What a loop has made and heard of is complete, or about to be, or another's as well.
VersionsShown ==
    \A l \in Loops, r \in Rows :
        <<l, r>> \in versions \ unheard =>
           (row[l] = r /\ calls[l] = "made") \/ LeftComplete(l, r) \/ SharedRow(l, r)

RowsBacked ==
    \A r \in Rows : /\ status[r] = "completed" => \E l \in Loops : <<l, r>> \in versions
                    /\ status[r] = "uploading" => \E l \in Loops : row[l] = r

DrawerInv == DrawerTypes /\ LoopsInOrder /\ VersionsShown /\ RowsBacked

LEMMA DrawerInitInv ==
    ASSUME UploadDrawer!Init
    PROVE  DrawerInv
BY UploadAssumption DEF UploadDrawer!Init, DrawerInv, DrawerTypes, LoopsInOrder, VersionsShown,
   RowsBacked, UploadDrawer!Active

LEMMA FirstRow ==
    ASSUME NEW S \in SUBSET Rows, S # {}
    PROVE  UploadDrawer!First(S) \in S
<1>1. PICK r \in S : \A q \in S : r <= q
  BY UploadAssumption, LeastNumber
<1> QED
  BY <1>1 DEF UploadDrawer!First

\* A loop that leaves its row with the word "word" keeps the invariant when what it says
\* is true: the row is complete once its version is made, and a version whose answer did
\* not come is unheard of.
LEMMA GoOnInv ==
    ASSUME DrawerInv, NEW l \in Loops, UploadDrawer!Active(l),
           NEW word \in {"completed", "failed", "cancelled"},
           UploadDrawer!GoOn(l, UploadDrawer!Becomes(row[l], word), todo[l]),
           versions' = versions, unheard \subseteq unheard',
           word = "completed" => calls[l] = "made",
           word # "completed" /\ calls[l] = "made" => <<l, row[l]>> \in unheard'
    PROVE  DrawerInv'
<1> DEFINE here == row[l]
<1>1. here \in Rows /\ here \notin todo[l] /\ todo[l] \in SUBSET Rows /\ <<l, here>> \in taken
  BY DEF DrawerInv, DrawerTypes, LoopsInOrder
<1>2. here # None
  BY <1>1, UploadAssumption
<1>3. CASE todo[l] = {} \/ l \in aborted
  <2>1. /\ calls' = [calls EXCEPT ![l] = "ended"] /\ row' = [row EXCEPT ![l] = None]
        /\ todo' = [todo EXCEPT ![l] = {}] /\ taken' = taken
        /\ status' = [status EXCEPT ![here] = IF @ = "removed" THEN @ ELSE word]
    BY <1>3 DEF UploadDrawer!GoOn, UploadDrawer!Becomes
  <2>2. DrawerTypes'
    BY <1>1, <2>1 DEF DrawerInv, DrawerTypes
  <2>3. LoopsInOrder'
    BY <1>1, <2>1, UploadAssumption DEF DrawerInv, DrawerTypes, LoopsInOrder, UploadDrawer!Active
  <2>4. VersionsShown'
    <3> SUFFICES ASSUME NEW k \in Loops, NEW r \in Rows, <<k, r>> \in versions \ unheard',
                        ~SharedRow(k, r)'
                 PROVE  (row[k] = r /\ calls[k] = "made")' \/ LeftComplete(k, r)'
      BY DEF VersionsShown
    <3>1. <<k, r>> \in versions \ unheard /\ ~SharedRow(k, r)
      BY <2>1 DEF SharedRow
    <3>2. (row[k] = r /\ calls[k] = "made") \/ LeftComplete(k, r)
      BY <3>1 DEF DrawerInv, VersionsShown
    <3>3. CASE k = l
      BY <1>1, <1>2, <2>1, <3>2, <3>3, UploadAssumption DEF DrawerInv, DrawerTypes, LeftComplete
    <3>4. CASE k # l
      <4>1. r # here
        BY <1>1, <3>1, <3>4 DEF SharedRow
      <4> QED
        BY <2>1, <3>2, <3>4, <4>1 DEF DrawerInv, DrawerTypes, LeftComplete
    <3> QED
      BY <3>3, <3>4
  <2>5. RowsBacked'
    BY <1>1, <1>2, <2>1 DEF DrawerInv, DrawerTypes, LoopsInOrder, RowsBacked
  <2> QED
    BY <2>2, <2>3, <2>4, <2>5 DEF DrawerInv
<1>4. CASE ~(todo[l] = {} \/ l \in aborted)
  <2> DEFINE next == UploadDrawer!First(todo[l])
  <2>1. next \in todo[l] /\ next \in Rows /\ next # here
    BY <1>1, <1>4, FirstRow
  <2>2. /\ calls' = [calls EXCEPT ![l] = "document"] /\ row' = [row EXCEPT ![l] = next]
        /\ todo' = [todo EXCEPT ![l] = todo[l] \ {next}] /\ taken' = taken \cup {<<l, next>>}
        /\ status' = [[status EXCEPT ![here] = IF @ = "removed" THEN @ ELSE word]
                        EXCEPT ![next] = IF @ = "removed" THEN @ ELSE "uploading"]
    BY <1>4 DEF UploadDrawer!GoOn, UploadDrawer!Becomes
  <2> HIDE DEF next
  <2>3. DrawerTypes'
    BY <1>1, <2>1, <2>2 DEF DrawerInv, DrawerTypes
  <2>4. LoopsInOrder'
    BY <1>1, <2>1, <2>2, UploadAssumption
       DEF DrawerInv, DrawerTypes, LoopsInOrder, UploadDrawer!Active
  <2>5. VersionsShown'
    <3> SUFFICES ASSUME NEW k \in Loops, NEW r \in Rows, <<k, r>> \in versions \ unheard',
                        ~SharedRow(k, r)'
                 PROVE  (row[k] = r /\ calls[k] = "made")' \/ LeftComplete(k, r)'
      BY DEF VersionsShown
    <3>1. <<k, r>> \in versions \ unheard /\ ~SharedRow(k, r)
      BY <2>2 DEF SharedRow
    <3>2. (row[k] = r /\ calls[k] = "made") \/ LeftComplete(k, r)
      BY <3>1 DEF DrawerInv, VersionsShown
    <3>3. CASE k = l
      BY <1>1, <1>2, <2>1, <2>2, <3>2, <3>3 DEF DrawerInv, DrawerTypes, LeftComplete
    <3>4. CASE k # l
      <4>1. r # here /\ r # next
        BY <1>1, <2>2, <3>1, <3>4 DEF SharedRow
      <4> QED
        BY <2>2, <3>2, <3>4, <4>1 DEF DrawerInv, DrawerTypes, LeftComplete
    <3> QED
      BY <3>3, <3>4
  <2>6. RowsBacked'
    BY <1>1, <1>2, <2>1, <2>2 DEF DrawerInv, DrawerTypes, LoopsInOrder, RowsBacked
  <2> QED
    BY <2>3, <2>4, <2>5, <2>6 DEF DrawerInv
<1> QED
  BY <1>3, <1>4

LEMMA UserStepInv ==
    ASSUME DrawerInv,
           \/ \E r \in Rows : UploadDrawer!AddFile(r) \/ UploadDrawer!RemoveRow(r)
           \/ UploadDrawer!CancelAll \/ UploadDrawer!Close
    PROVE  DrawerInv'
<1>1. /\ UNCHANGED <<calls, row, todo, taken, versions, unheard>>
      /\ \A r \in Rows :
            /\ status[r] \in {"completed", "removed"} => status'[r] \in {status[r], "removed"}
            /\ status'[r] \in {"completed", "uploading"} => status'[r] = status[r]
  BY DEF UploadDrawer!AddFile, UploadDrawer!RemoveRow, UploadDrawer!CancelAll,
     UploadDrawer!Close, UploadDrawer!Shown, DrawerInv, DrawerTypes
<1>2. DrawerTypes'
  BY <1>1 DEF UploadDrawer!AddFile, UploadDrawer!RemoveRow, UploadDrawer!CancelAll,
     UploadDrawer!Close, UploadDrawer!Shown, DrawerInv, DrawerTypes
<1>3. LoopsInOrder'
  BY <1>1 DEF DrawerInv, LoopsInOrder, UploadDrawer!Active
<1>4. VersionsShown'
  BY <1>1 DEF DrawerInv, VersionsShown, LeftComplete, SharedRow
<1>5. RowsBacked'
  BY <1>1 DEF DrawerInv, RowsBacked
<1> QED
  BY <1>2, <1>3, <1>4, <1>5 DEF DrawerInv

LEMMA StartUploadsInv ==
    ASSUME DrawerInv, NEW l \in Loops, UploadDrawer!StartUploads(l)
    PROVE  DrawerInv'
<1> DEFINE next == UploadDrawer!First(UploadDrawer!Queued)
<1>1. next \in Rows /\ status[next] = "queued" /\ UploadDrawer!Queued \in SUBSET Rows
  BY FirstRow DEF UploadDrawer!StartUploads, UploadDrawer!Queued
<1>2. /\ calls[l] = "unborn" /\ calls' = [calls EXCEPT ![l] = "document"]
      /\ row' = [row EXCEPT ![l] = next]
      /\ todo' = [todo EXCEPT ![l] = UploadDrawer!Queued \ {next}]
      /\ taken' = taken \cup {<<l, next>>} /\ UNCHANGED <<versions, unheard>>
      /\ status' = [status EXCEPT ![next] = "uploading"]
  BY DEF UploadDrawer!StartUploads
<1> HIDE DEF next
<1>3. DrawerTypes'
  BY <1>1, <1>2 DEF DrawerInv, DrawerTypes
<1>4. LoopsInOrder'
  BY <1>1, <1>2, UploadAssumption DEF DrawerInv, DrawerTypes, LoopsInOrder, UploadDrawer!Active
<1>5. VersionsShown'
  <2> SUFFICES ASSUME NEW k \in Loops, NEW r \in Rows, <<k, r>> \in versions \ unheard,
                      ~SharedRow(k, r)'
               PROVE  (row[k] = r /\ calls[k] = "made")' \/ LeftComplete(k, r)'
    BY <1>2 DEF VersionsShown
  <2>1. k # l
    BY <1>2 DEF DrawerInv, LoopsInOrder
  <2>2. ~SharedRow(k, r) /\ r # next
    BY <1>2, <2>1 DEF SharedRow
  <2>3. (row[k] = r /\ calls[k] = "made") \/ LeftComplete(k, r)
    BY <2>2 DEF DrawerInv, VersionsShown
  <2> QED
    BY <1>2, <2>1, <2>2, <2>3 DEF DrawerInv, DrawerTypes, LeftComplete
<1>6. RowsBacked'
  <2>1. ~UploadDrawer!Active(l) /\ row[l] \notin Rows
    BY <1>2 DEF DrawerInv, LoopsInOrder, UploadDrawer!Active
  <2> SUFFICES ASSUME NEW r \in Rows
               PROVE  /\ status'[r] = "completed" => \E k \in Loops : <<k, r>> \in versions
                      /\ status'[r] = "uploading" => \E k \in Loops : row'[k] = r
    BY <1>2 DEF RowsBacked
  <2>2. CASE r = next
    BY <1>1, <1>2, <2>2 DEF DrawerInv, DrawerTypes
  <2>3. CASE r # next
    <3>1. status'[r] = status[r]
      BY <1>2, <2>3 DEF DrawerInv, DrawerTypes
    <3>2. \A k \in Loops : row[k] = r => row'[k] = r
      BY <1>2, <2>1 DEF DrawerInv, DrawerTypes
    <3> QED
      BY <3>1, <3>2 DEF DrawerInv, RowsBacked
  <2> QED
    BY <2>2, <2>3
<1> QED
  BY <1>3, <1>4, <1>5, <1>6 DEF DrawerInv

LEMMA AnsweredInv ==
    ASSUME DrawerInv, NEW l \in Loops,
           \/ UploadDrawer!DocumentCreated(l) \/ UploadDrawer!UploadInitiated(l)
           \/ UploadDrawer!UploadCompleted(l) \/ UploadDrawer!VersionMade(l)
    PROVE  DrawerInv'
<1>1. /\ UNCHANGED <<status, row, todo, taken, unheard>>
      /\ calls[l] \in {"document", "session", "file", "version"}
      /\ calls' \in {[calls EXCEPT ![l] = next] : next \in {"session", "file", "version", "made"}}
      /\ versions \subseteq versions' /\ versions' \subseteq versions \cup {<<l, row[l]>>}
      /\ calls'[l] = "made" => <<l, row[l]>> \in versions'
  BY DEF UploadDrawer!DocumentCreated, UploadDrawer!UploadInitiated,
     UploadDrawer!UploadCompleted, UploadDrawer!VersionMade, UploadDrawer!Answered,
     DrawerInv, DrawerTypes
<1>2. row[l] \in Rows /\ <<l, row[l]>> \in taken
  BY <1>1 DEF DrawerInv, LoopsInOrder, UploadDrawer!Active
<1>3. DrawerTypes'
  BY <1>1, <1>2 DEF DrawerInv, DrawerTypes
<1>4. LoopsInOrder'
  BY <1>1, <1>2 DEF DrawerInv, DrawerTypes, LoopsInOrder, UploadDrawer!Active
<1>5. VersionsShown'
  <2> SUFFICES ASSUME NEW k \in Loops, NEW r \in Rows, <<k, r>> \in versions' \ unheard,
                      ~SharedRow(k, r)
               PROVE  (row[k] = r /\ calls'[k] = "made") \/ LeftComplete(k, r)
    BY <1>1 DEF VersionsShown, LeftComplete, SharedRow
  <2>1. CASE <<k, r>> \in versions
    BY <1>1, <2>1 DEF DrawerInv, DrawerTypes, VersionsShown
  <2>2. CASE <<k, r>> \notin versions
    BY <1>1, <2>2 DEF UploadDrawer!DocumentCreated, UploadDrawer!UploadInitiated,
       UploadDrawer!UploadCompleted, UploadDrawer!VersionMade, UploadDrawer!Answered,
       DrawerInv, DrawerTypes
  <2> QED
    BY <2>1, <2>2
<1>6. RowsBacked'
  BY <1>1 DEF DrawerInv, RowsBacked
<1> QED
  BY <1>3, <1>4, <1>5, <1>6 DEF DrawerInv

LEMMA DrawerStepInv ==
    ASSUME DrawerInv, [UploadDrawer!Next]_uploadVars
    PROVE  DrawerInv'
<1>1. CASE UNCHANGED uploadVars
  BY <1>1 DEF uploadVars, DrawerInv, DrawerTypes, LoopsInOrder, VersionsShown, RowsBacked,
     LeftComplete, SharedRow, UploadDrawer!Active
<1>2. ASSUME NEW l \in Loops, UploadDrawer!VersionAnswered(l) \/ UploadDrawer!CallFails(l)
      PROVE  DrawerInv'
  <2>1. CASE UploadDrawer!VersionAnswered(l)
    BY <2>1, GoOnInv DEF UploadDrawer!VersionAnswered, UploadDrawer!Active
  <2>2. CASE UploadDrawer!CallFails(l)
    <3> DEFINE word == IF l \in aborted THEN "cancelled" ELSE "failed"
    <3>1. /\ UploadDrawer!Active(l) /\ word \in {"cancelled", "failed"}
          /\ UploadDrawer!GoOn(l, UploadDrawer!Becomes(row[l], word), todo[l])
          /\ versions' = versions
          /\ unheard' = IF calls[l] = "made" THEN unheard \cup {<<l, row[l]>>} ELSE unheard
      BY <2>2 DEF UploadDrawer!CallFails
    <3> HIDE DEF word
    <3> QED
      BY <3>1, GoOnInv
  <2> QED
    BY <1>2, <2>1, <2>2
<1> QED
  BY <1>1, <1>2, UserStepInv, StartUploadsInv, AnsweredInv DEF UploadDrawer!Next

\* However cancelled and new loops of the upload drawer overlap, whichever of their calls
\* fail or lose their answers, a completed row has its version, an uploading one its loop,
\* and a failed or cancelled one no version the drawer knows to be its own alone
\* (upload-drawer.tsx, startUploads and cancelAll).
THEOREM RowsTrueHolds == Spec => []RowsTrue
<1> DEFINE Inv == input.part = "upload" => DrawerInv
<1>1. Init => Inv
  BY ApartInit, DrawerInitInv
<1>2. Inv /\ [Next]_operationVars => Inv'
  BY Apart, DrawerStepInv
<1>3. DrawerInv => UploadDrawer!RowsTrue
  BY DEF DrawerInv, RowsBacked, VersionsShown, LeftComplete, SharedRow, UploadDrawer!RowsTrue
<1>4. Inv => RowsTrue
  BY <1>3 DEF RowsTrue
<1> QED
  BY <1>1, <1>2, <1>4, PTL DEF Spec, operationVars

-----------------------------------------------------------------------------
(* The experiments *)

\* The steps of a run before it begins its summary, and those after its questions.
BeforeSummary ==
    {"config", "write_config", "load", "questions", "results", "write_results", "metrics",
     "write_metrics"}
Summarized == {"summary", "write_summary", "done"}
Scored == {"results", "write_results", "metrics", "write_metrics"} \cup Summarized

RunTypes ==
    /\ at \in [Runs -> {"new", "raised", "crashed"} \cup BeforeSummary \cup Summarized]
    /\ target \in [Runs -> Experiments \cup {None}]
    /\ outcomes \in [Runs -> Nat]
    /\ files \in [Experiments -> [Evaluation!Artifacts -> Runs \cup {None, Torn}]]

\* Runs have experiments of their own, and these hold what they wrote.
RunsApart ==
    /\ \A r \in Runs : at[r] # "new" <=> target[r] \in Experiments
    /\ \A r, s \in Runs : target[r] = target[s] /\ target[r] \in Experiments => r = s
    /\ \A e \in Experiments, name \in Evaluation!Artifacts :
          /\ files[e][name] \in Runs => target[files[e][name]] = e
          /\ files[e][name] # None => \E r \in Runs : target[r] = e

\* A summary, whole or torn, stands by the metrics of its run, which has every outcome.
Summary(e) ==
    \E r \in Runs : target[r] = e /\ files[e]["metrics"] = r /\ outcomes[r] = Questions

SummaryLast ==
    /\ \A r \in Runs : /\ at[r] \in BeforeSummary => files[target[r]]["summary"] = None
                       /\ at[r] \in Scored => outcomes[r] = Questions
                       /\ at[r] \in Summarized => files[target[r]]["metrics"] = r
    /\ \A e \in Experiments : files[e]["summary"] # None => Summary(e)

Items == [config : Runs, summary : Runs, metrics : Runs]

Whole(w) ==
    {[config |-> r, summary |-> r, metrics |-> r] :
        r \in {r \in Runs : Home[r] = w /\ outcomes[r] = Questions}}

\* A reader holds whole items, and at a directory what the run of that directory wrote.
ReaderHolds ==
    /\ reader \in [op : {"none", "list", "get"}, workspace : Workspaces \cup {None},
                   at : {"answered", "next", "config", "home", "summary", "metrics"},
                   todo : SUBSET Experiments, here : Experiments \cup {None},
                   config : Runs \cup {None}, summary : Runs \cup {None}, items : Seq(Items)]
    /\ reader.items \in Seq(Whole(reader.workspace))
    /\ reader.at \in {"config", "home", "summary", "metrics"} => reader.here \in Experiments
    /\ reader.at \in {"home", "summary", "metrics"} =>
          reader.config \in Runs /\ target[reader.config] = reader.here
    /\ reader.at = "metrics" =>
          /\ reader.summary \in Runs /\ target[reader.summary] = reader.here
          /\ files[reader.here]["summary"] # None

EvaluationInv == RunTypes /\ RunsApart /\ SummaryLast /\ ReaderHolds

LEMMA EvaluationInitInv ==
    ASSUME Evaluation!Init
    PROVE  EvaluationInv
<1> USE EvaluationAssumption
<1>1. RunTypes
  BY DEF Evaluation!Init, RunTypes
<1>2. RunsApart
  BY DEF Evaluation!Init, RunsApart, Evaluation!Artifacts
<1>3. SummaryLast
  BY DEF Evaluation!Init, SummaryLast, BeforeSummary, Scored, Summarized, Evaluation!Artifacts
<1>4. ReaderHolds
  BY DEF Evaluation!Init, Evaluation!Idle, ReaderHolds
<1> QED
  BY <1>1, <1>2, <1>3, <1>4 DEF EvaluationInv

\* A step of a run takes nothing from the reader.
LEMMA ReaderKept ==
    ASSUME ReaderHolds, reader' = reader,
           \A r \in Runs : target[r] \in Experiments => target'[r] = target[r],
           \A r \in Runs : outcomes[r] = Questions => outcomes'[r] = Questions,
           \A e \in Experiments : files[e]["summary"] # None => files'[e]["summary"] # None
    PROVE  ReaderHolds'
<1>1. Whole(reader.workspace) \subseteq Whole(reader.workspace)'
  BY DEF Whole
<1>2. reader.items \in Seq(Whole(reader.workspace)')
  BY <1>1 DEF ReaderHolds
<1> QED
  BY <1>2 DEF ReaderHolds

LEMMA BeginInv ==
    ASSUME EvaluationInv, Distinct, NEW r \in Runs, Evaluation!Begin(r)
    PROVE  EvaluationInv'
<1>1. PICK e \in Experiments : (\A s \in Runs : target[s] # e) /\ target' = [target EXCEPT ![r] = e]
  BY DEF Evaluation!Begin
<1>2. /\ at[r] = "new" /\ at' = [at EXCEPT ![r] = "config"]
      /\ UNCHANGED <<outcomes, files, reader>>
  BY DEF Evaluation!Begin
<1>3. target[r] \notin Experiments /\ \A name \in Evaluation!Artifacts : files[e][name] = None
  BY <1>1, <1>2 DEF EvaluationInv, RunsApart
<1>4. RunTypes'
  BY <1>1, <1>2 DEF EvaluationInv, RunTypes, BeforeSummary
<1>5. RunsApart'
  BY <1>1, <1>2, <1>3 DEF EvaluationInv, RunTypes, RunsApart
<1>6. SummaryLast'
  BY <1>1, <1>2, <1>3 DEF EvaluationInv, RunTypes, RunsApart, SummaryLast, Summary, BeforeSummary,
     Scored, Summarized, Evaluation!Artifacts
<1>7. ReaderHolds'
  BY <1>1, <1>2, <1>3, ReaderKept DEF EvaluationInv, RunTypes
<1> QED
  BY <1>4, <1>5, <1>6, <1>7 DEF EvaluationInv

\* A file is opened or written by the run whose turn it is.
LEMMA FileInv ==
    ASSUME EvaluationInv, NEW r \in Runs, Evaluation!Open(r) \/ Evaluation!Write(r)
    PROVE  EvaluationInv'
<1> USE EvaluationAssumption
<1>1. PICK name \in Evaluation!Artifacts, content \in {r, Torn},
           next \in {"write_config", "load", "write_results", "metrics", "write_metrics",
                     "summary", "write_summary", "done"} :
         /\ files' = [files EXCEPT ![target[r]][name] = content]
         /\ at' = [at EXCEPT ![r] = next]
         /\ at[r] \in {name, Evaluation!Writing(name)}
         /\ content = Torn => at[r] = name /\ next = Evaluation!Writing(name)
         /\ content = r => at[r] = Evaluation!Writing(name) /\ next = Evaluation!AfterFile(name)
  <2>1. CASE Evaluation!Open(r)
    BY <2>1 DEF Evaluation!Open, Evaluation!Artifacts, Evaluation!Writing
  <2>2. CASE Evaluation!Write(r)
    BY <2>2 DEF Evaluation!Write, Evaluation!Artifacts, Evaluation!AfterFile
  <2> QED
    BY <2>1, <2>2
<1>2. UNCHANGED <<target, outcomes, reader>>
  BY DEF Evaluation!Open, Evaluation!Write
<1>3. at[r] # "new" /\ target[r] \in Experiments /\ at[r] \in BeforeSummary \cup Summarized
  BY <1>1 DEF Evaluation!Artifacts, Evaluation!Writing, EvaluationInv, RunsApart, BeforeSummary,
     Summarized
<1>4. \A e \in Experiments, m \in Evaluation!Artifacts :
         files'[e][m] = IF e = target[r] /\ m = name THEN content ELSE files[e][m]
  BY <1>1, <1>3 DEF EvaluationInv, RunTypes
<1>5. RunTypes'
  BY <1>1, <1>2, <1>3 DEF EvaluationInv, RunTypes, BeforeSummary, Summarized
<1>6. RunsApart'
  BY <1>1, <1>2, <1>3, <1>4 DEF EvaluationInv, RunTypes, RunsApart
<1>7. /\ name = "summary" <=> at[r] \in Summarized
      /\ at[r] \in BeforeSummary => next \in BeforeSummary \/ (name = "metrics" /\ next = "summary")
      /\ at[r] \in Summarized => next \in Summarized
      /\ at[r] \in Summarized => outcomes[r] = Questions /\ files[target[r]]["metrics"] = r
      /\ next \in Scored => at[r] \in Scored
      /\ next = "summary" => content = r /\ name = "metrics"
  BY <1>1, <1>3 DEF EvaluationInv, SummaryLast, BeforeSummary, Summarized, Scored,
     Evaluation!Artifacts, Evaluation!Writing, Evaluation!AfterFile
<1>8. SummaryLast'
  <2>1. ASSUME NEW s \in Runs
        PROVE  /\ at'[s] \in BeforeSummary => files'[target'[s]]["summary"] = None
               /\ at'[s] \in Scored => outcomes'[s] = Questions
               /\ at'[s] \in Summarized => files'[target'[s]]["metrics"] = s
    <3>1. CASE s = r
      BY <1>1, <1>2, <1>3, <1>4, <1>7, <3>1 DEF EvaluationInv, RunTypes, SummaryLast,
         Evaluation!Artifacts, BeforeSummary, Summarized
    <3>2. CASE s # r
      <4>1. at'[s] = at[s]
        BY <1>1, <3>2 DEF EvaluationInv, RunTypes
      <4>2. at[s] \in BeforeSummary \cup Summarized =>
               target[s] \in Experiments /\ target[s] # target[r]
        BY <1>3, <3>2 DEF EvaluationInv, RunsApart, BeforeSummary, Summarized
      <4> QED
        BY <1>2, <1>4, <4>1, <4>2 DEF EvaluationInv, SummaryLast, Evaluation!Artifacts
    <3> QED
      BY <3>1, <3>2
  <2>2. ASSUME NEW e \in Experiments, files'[e]["summary"] # None
        PROVE  Summary(e)'
    <3>1. CASE e = target[r]
      <4>1. at[r] \in Summarized
        BY <1>3, <1>4, <1>7, <2>2, <3>1 DEF EvaluationInv, SummaryLast, Evaluation!Artifacts
      <4> QED
        BY <1>2, <1>4, <1>7, <3>1, <4>1 DEF Summary, Evaluation!Artifacts
    <3>2. CASE e # target[r]
      BY <1>2, <1>4, <2>2, <3>2 DEF EvaluationInv, SummaryLast, Summary, Evaluation!Artifacts
    <3> QED
      BY <3>1, <3>2
  <2> QED
    BY <2>1, <2>2 DEF SummaryLast
<1>9. ReaderHolds'
  BY <1>2, <1>4, ReaderKept DEF EvaluationInv, Evaluation!Artifacts
<1> QED
  BY <1>5, <1>6, <1>8, <1>9 DEF EvaluationInv

\* The other steps of a run move it on, and no file.
LEMMA AdvanceInv ==
    ASSUME EvaluationInv, NEW r \in Runs,
           \/ Evaluation!Load(r) \/ Evaluation!Question(r) \/ Evaluation!Score(r)
           \/ Evaluation!Raise(r) \/ Evaluation!Crash(r)
    PROVE  EvaluationInv'
<1>1. PICK next \in {"questions", "results", "raised", "crashed"} :
         /\ at' = [at EXCEPT ![r] = next]
         /\ at[r] # "new"
         /\ next = "questions" => at[r] \in {"load", "questions"}
         /\ next = "results" => at[r] = "questions" /\ outcomes[r] = Questions
  BY DEF Evaluation!Load, Evaluation!Question, Evaluation!Score, Evaluation!Raise,
     Evaluation!Crash, Evaluation!Ended, EvaluationInv, RunTypes
<1>2. /\ UNCHANGED <<target, files, reader>> /\ outcomes' \in [Runs -> Nat]
      /\ \A s \in Runs : outcomes[s] = Questions => outcomes'[s] = Questions
  BY EvaluationAssumption DEF Evaluation!Load, Evaluation!Question, Evaluation!Score,
     Evaluation!Raise, Evaluation!Crash, EvaluationInv, RunTypes
<1>3. RunTypes'
  BY <1>1, <1>2 DEF EvaluationInv, RunTypes, BeforeSummary
<1>4. RunsApart'
  BY <1>1, <1>2 DEF EvaluationInv, RunTypes, RunsApart
<1>5. SummaryLast'
  BY <1>1, <1>2 DEF EvaluationInv, RunTypes, SummaryLast, Summary, BeforeSummary, Scored, Summarized
<1>6. ReaderHolds'
  BY <1>2, ReaderKept DEF EvaluationInv
<1> QED
  BY <1>3, <1>4, <1>5, <1>6 DEF EvaluationInv

\* What stands in the files of a directory that has a summary is of one run.
LEMMA OneRun ==
    ASSUME EvaluationInv, NEW e \in Experiments, files[e]["summary"] # None,
           NEW c \in Runs, target[c] = e
    PROVE  /\ files[e]["summary"] \in {c, Torn}
           /\ files[e]["metrics"] = c /\ outcomes[c] = Questions
<1>1. PICK r \in Runs : target[r] = e /\ files[e]["metrics"] = r /\ outcomes[r] = Questions
  BY DEF EvaluationInv, SummaryLast, Summary
<1>2. r = c
  BY <1>1 DEF EvaluationInv, RunsApart
<1>3. files[e]["summary"] \in Runs \cup {Torn}
  BY DEF EvaluationInv, RunTypes, Evaluation!Artifacts
<1>4. files[e]["summary"] \in Runs => files[e]["summary"] = c
  BY DEF EvaluationInv, RunsApart, Evaluation!Artifacts
<1> QED
  BY <1>1, <1>2, <1>3, <1>4

LEMMA ReadHolds ==
    ASSUME EvaluationInv, Evaluation!Read
    PROVE  ReaderHolds'
<1> DEFINE Held(read) ==
      /\ read \in [op : {"none", "list", "get"}, workspace : Workspaces \cup {None},
                   at : {"answered", "next", "config", "home", "summary", "metrics"},
                   todo : SUBSET Experiments, here : Experiments \cup {None},
                   config : Runs \cup {None}, summary : Runs \cup {None}, items : Seq(Items)]
      /\ read.items \in Seq(Whole(read.workspace))
<1>1. Held(reader)
  BY DEF EvaluationInv, ReaderHolds
<1>2. ASSUME UNCHANGED <<target, files, outcomes>>, Held(reader'),
             reader'.at \in {"config", "home", "summary", "metrics"} =>
                reader'.here \in Experiments,
             reader'.at \in {"home", "summary", "metrics"} =>
                reader'.config \in Runs /\ target[reader'.config] = reader'.here,
             reader'.at = "metrics" => /\ reader'.summary \in Runs
                                       /\ target[reader'.summary] = reader'.here
                                       /\ files[reader'.here]["summary"] # None
      PROVE  ReaderHolds'
  BY <1>2 DEF ReaderHolds, Whole
<1>3. reader' = Evaluation!GivesUp => Held(reader') /\ reader'.at \in {"next", "answered"}
  BY <1>1 DEF Evaluation!GivesUp
<1>4. ASSUME NEW w \in Workspaces,
             Evaluation!BeginList(w) \/ \E e \in Experiments : Evaluation!BeginGet(w, e)
      PROVE  ReaderHolds'
  <2>1. reader' \in [op : {"list", "get"}, workspace : {w}, at : {"next", "config", "answered"},
                     todo : SUBSET Experiments, here : Experiments \cup {None},
                     config : {None}, summary : {None}, items : {<<>>}]
    BY <1>4 DEF Evaluation!BeginList, Evaluation!BeginGet, Evaluation!Idle, Evaluation!Directories
  <2>2. reader'.at = "config" => reader'.here \in Experiments
    BY <1>4 DEF Evaluation!BeginList, Evaluation!BeginGet, Evaluation!Idle
  <2>3. Held(reader')
    <3>1. \A S : <<>> \in Seq(S)
      OBVIOUS
    <3>2. reader'.items = <<>> /\ reader' \in [op : {"none", "list", "get"},
             workspace : Workspaces \cup {None},
             at : {"answered", "next", "config", "home", "summary", "metrics"},
             todo : SUBSET Experiments, here : Experiments \cup {None},
             config : Runs \cup {None}, summary : Runs \cup {None}, items : Seq(Items)]
      BY <2>1, <3>1
    <3> QED
      BY <3>1, <3>2
  <2>4. UNCHANGED <<target, files, outcomes>>
    BY <1>4 DEF Evaluation!BeginList, Evaluation!BeginGet
  <2> QED
    BY <1>2, <2>1, <2>2, <2>3, <2>4
<1>5. CASE Evaluation!NextDirectory
  <2>1. reader.at = "next" /\ UNCHANGED <<target, files, outcomes>>
    BY <1>5 DEF Evaluation!NextDirectory, Evaluation!Reading
  <2>2. PICK e \in Experiments :
           \/ reader' = [reader EXCEPT !.todo = reader.todo \ {e}]
           \/ reader' = [reader EXCEPT !.todo = reader.todo \ {e}, !.at = "config", !.here = e]
    BY <1>1, <1>5 DEF Evaluation!NextDirectory
  <2>3. CASE reader' = [reader EXCEPT !.todo = reader.todo \ {e}]
    <3>1. Held(reader') /\ reader'.at = "next"
      BY <1>1, <2>1, <2>3
    <3> QED
      BY <1>2, <2>1, <3>1
  <2>4. CASE reader' = [reader EXCEPT !.todo = reader.todo \ {e}, !.at = "config", !.here = e]
    <3>1. Held(reader') /\ reader'.at = "config" /\ reader'.here = e
      BY <1>1, <2>4
    <3> QED
      BY <1>2, <2>1, <3>1
  <2> QED
    BY <2>2, <2>3, <2>4
<1>6. CASE Evaluation!ReadConfig
  <2> DEFINE content == Evaluation!Content("config")
  <2>1. /\ reader.at = "config" /\ reader.here \in Experiments
        /\ UNCHANGED <<target, files, outcomes>>
    BY <1>6 DEF Evaluation!ReadConfig, Evaluation!Reading, EvaluationInv, ReaderHolds
  <2>2. content \in Runs => target[content] = reader.here
    BY <2>1 DEF Evaluation!Content, EvaluationInv, RunsApart, Evaluation!Artifacts
  <2>3. CASE content \in Runs
    <3>1. reader' = [reader EXCEPT !.config = content,
                                   !.at = IF reader.op = "get" THEN "home" ELSE "summary"]
      BY <1>6, <2>3 DEF Evaluation!ReadConfig
    <3> HIDE DEF content
    <3>2. /\ Held(reader') /\ reader'.at \in {"home", "summary"} /\ reader'.config = content
          /\ reader'.here = reader.here
      BY <1>1, <2>3, <3>1
    <3> QED
      BY <1>2, <2>1, <2>2, <2>3, <3>2
  <2>4. CASE content \notin Runs
    BY <1>2, <1>3, <1>6, <2>1, <2>4 DEF Evaluation!ReadConfig
  <2> QED
    BY <2>3, <2>4
<1>7. CASE Evaluation!CheckHome
  <2>1. /\ reader.at = "home" /\ reader.here \in Experiments
        /\ reader.config \in Runs /\ target[reader.config] = reader.here
        /\ UNCHANGED <<target, files, outcomes>>
    BY <1>7 DEF Evaluation!CheckHome, Evaluation!Reading, EvaluationInv, ReaderHolds
  <2>2. CASE reader' = [reader EXCEPT !.at = "summary"]
    <3>1. /\ Held(reader') /\ reader'.at = "summary" /\ reader'.config = reader.config
          /\ reader'.here = reader.here
      BY <1>1, <2>2
    <3> QED
      BY <1>2, <2>1, <3>1
  <2>3. CASE reader' = Evaluation!GivesUp
    BY <1>2, <1>3, <2>1, <2>3
  <2> QED
    BY <1>7, <2>2, <2>3 DEF Evaluation!CheckHome
<1>8. CASE Evaluation!ReadSummary
  <2> DEFINE content == Evaluation!Content("summary")
  <2>1. /\ reader.at = "summary" /\ reader.here \in Experiments
        /\ reader.config \in Runs /\ target[reader.config] = reader.here
        /\ UNCHANGED <<target, files, outcomes>>
    BY <1>8 DEF Evaluation!ReadSummary, Evaluation!Reading, EvaluationInv, ReaderHolds
  <2>2. content \in Runs => target[content] = reader.here /\ files[reader.here]["summary"] # None
    BY <2>1, EvaluationAssumption
       DEF Evaluation!Content, EvaluationInv, RunsApart, Evaluation!Artifacts
  <2>3. CASE content \in Runs
    <3>1. reader' = [reader EXCEPT !.summary = content, !.at = "metrics"]
      BY <1>8, <2>3 DEF Evaluation!ReadSummary
    <3> HIDE DEF content
    <3>2. /\ Held(reader') /\ reader'.at = "metrics" /\ reader'.summary = content
          /\ reader'.here = reader.here /\ reader'.config = reader.config
      BY <1>1, <2>3, <3>1
    <3> QED
      BY <1>2, <2>1, <2>2, <2>3, <3>2
  <2>4. CASE content \notin Runs
    BY <1>2, <1>3, <1>8, <2>1, <2>4 DEF Evaluation!ReadSummary
  <2> QED
    BY <2>3, <2>4
<1>9. CASE Evaluation!ReadMetrics
  <2> DEFINE c == reader.config
             item == [config |-> c, summary |-> reader.summary,
                      metrics |-> Evaluation!Content("metrics")]
  <2>1. /\ reader.here \in Experiments /\ c \in Runs /\ target[c] = reader.here
        /\ reader.summary \in Runs /\ target[reader.summary] = reader.here
        /\ files[reader.here]["summary"] # None /\ UNCHANGED <<target, files, outcomes>>
    BY <1>9 DEF Evaluation!ReadMetrics, Evaluation!Reading, EvaluationInv, ReaderHolds
  <2>2. /\ Evaluation!Content("metrics") = c /\ outcomes[c] = Questions
        /\ reader.summary = c
    BY <2>1, OneRun DEF Evaluation!Content, EvaluationInv, RunsApart
  <2>3. CASE reader' = Evaluation!GivesUp
    BY <1>2, <1>3, <2>1, <2>3
  <2>4. CASE reader' # Evaluation!GivesUp
    <3>1. Home[c] = reader.workspace /\ reader' = [Evaluation!GivesUp EXCEPT !.items = Append(@, item)]
      BY <1>9, <2>4 DEF Evaluation!ReadMetrics, Evaluation!AtHome
    <3>2. item \in Items /\ item \in Whole(reader.workspace)
      BY <2>1, <2>2, <3>1 DEF Items, Whole
    <3> HIDE DEF item
    <3>3. /\ Append(reader.items, item) \in Seq(Items)
          /\ Append(reader.items, item) \in Seq(Whole(reader.workspace))
      BY <1>1, <3>2
    <3>4. reader' = [Evaluation!GivesUp EXCEPT !.items = Append(reader.items, item)]
      BY <1>1, <3>1 DEF Evaluation!GivesUp
    <3>5. Held(reader') /\ reader'.at \in {"next", "answered"}
      BY <1>1, <3>3, <3>4 DEF Evaluation!GivesUp
    <3> QED
      BY <1>2, <2>1, <3>5
  <2> QED
    BY <2>3, <2>4
<1>10. CASE Evaluation!AnswerList
  <2>1. PICK place \in [DOMAIN reader.items -> DOMAIN reader.items] :
           reader' = [reader EXCEPT !.at = "answered", !.todo = {},
                                    !.items = [i \in DOMAIN place |-> reader.items[place[i]]]]
    BY <1>10 DEF Evaluation!AnswerList
  <2> DEFINE sorted == [i \in DOMAIN place |-> reader.items[place[i]]]
  <2>2. \A S : reader.items \in Seq(S) => sorted \in Seq(S)
    <3> SUFFICES ASSUME NEW S, reader.items \in Seq(S)
                 PROVE  sorted \in Seq(S)
      OBVIOUS
    <3>1. DOMAIN reader.items = 1..Len(reader.items) /\ Len(reader.items) \in Nat
      OBVIOUS
    <3>2. sorted \in [1..Len(reader.items) -> S]
      BY <3>1
    <3> QED
      BY <3>1, <3>2
  <2> HIDE DEF sorted
  <2>3. Held(reader') /\ reader'.at = "answered"
    BY <1>1, <2>1, <2>2 DEF sorted
  <2> QED
    BY <1>2, <1>10, <2>3 DEF Evaluation!AnswerList, Evaluation!Reading
<1> QED
  BY <1>4, <1>5, <1>6, <1>7, <1>8, <1>9, <1>10 DEF Evaluation!Read

LEMMA EvaluationStepInv ==
    ASSUME EvaluationInv, Distinct, [Evaluation!Next]_evaluationVars
    PROVE  EvaluationInv'
<1>1. CASE UNCHANGED evaluationVars
  BY <1>1 DEF evaluationVars, EvaluationInv, RunTypes, RunsApart, SummaryLast, Summary,
     ReaderHolds, Whole
<1>2. CASE Evaluation!Read
  <2>1. UNCHANGED <<at, target, outcomes, files>>
    BY <1>2 DEF Evaluation!Read, Evaluation!BeginList, Evaluation!BeginGet,
       Evaluation!NextDirectory, Evaluation!ReadConfig, Evaluation!CheckHome,
       Evaluation!ReadSummary, Evaluation!ReadMetrics, Evaluation!AnswerList, Evaluation!Reading
  <2> QED
    BY <1>2, <2>1, ReadHolds DEF EvaluationInv, RunTypes, RunsApart, SummaryLast, Summary
<1>3. ASSUME NEW r \in Runs, Evaluation!Run(r)
      PROVE  EvaluationInv'
  BY <1>3, BeginInv, FileInv, AdvanceInv DEF Evaluation!Run
<1> QED
  BY <1>1, <1>2, <1>3 DEF Evaluation!Next

\* A listing, or a request for one run, shows of each experiment one whole run of the
\* reader's workspace that answered every question, although files are written in place,
\* read one by one, and left behind by runs that raised or crashed.  Two runs must not be
\* given one name: create_config makes a new one unless the caller says it
\* (evaluation/service.py, list_runs and get_run).
THEOREM ShownWholeHolds ==
    ASSUME Distinct
    PROVE  Spec => []ShownWhole
<1> DEFINE Inv == input.part = "evaluation" => EvaluationInv
<1>1. Init => Inv
  BY ApartInit, EvaluationInitInv
<1>2. Inv /\ [Next]_operationVars => Inv'
  BY Apart, EvaluationStepInv
<1>3. EvaluationInv => Evaluation!ShownWhole
  <2> SUFFICES ASSUME EvaluationInv, NEW item \in Evaluation!Shown
               PROVE  /\ item.summary = item.config /\ item.metrics = item.config
                      /\ Home[item.config] = reader.workspace
                      /\ outcomes[item.summary] = Questions
    BY DEF Evaluation!ShownWhole
  <2>1. item \in Whole(reader.workspace)
    BY DEF EvaluationInv, ReaderHolds, Evaluation!Shown, Evaluation!Range
  <2> QED
    BY <2>1 DEF Whole
<1>4. Inv => ShownWhole
  BY <1>3 DEF ShownWhole
<1> QED
  BY <1>1, <1>2, <1>4, PTL DEF Spec, operationVars

-----------------------------------------------------------------------------
(* The pages of a listing *)

\* The documents of the listing, and those that stand before d in it.
Listed == Listings!InFolder(documents, Opened)
Newer(d) == {e \in Listed : documents[e].at > documents[d].at}

\* The number of documents on the pages before the next.
Before == (request.page - 1) * PageSize

ContentsReader ==
    [kind : {"contents"}, at : {"open", "count", "list", "end", "gone"}, page : Nat \ {0},
     total : Nat, seen : Seq(Documents), shown : {<<>>},
     todo : {Listings!Reader("contents").todo}]

ListingTypes ==
    /\ documents = [d \in DOMAIN documents |-> documents[d]]
    /\ DOMAIN documents \subseteq Documents
    /\ clock \in Nat
    /\ \A d \in DOMAIN documents :
          /\ documents[d] = [folder |-> documents[d].folder, at |-> documents[d].at]
          /\ documents[d].at \in Int /\ documents[d].at <= clock
          /\ d \notin written => documents[d].folder = Opened
    /\ request \in ContentsReader
    /\ ~tied => \A d, e \in DOMAIN documents : d # e => documents[d].at # documents[e].at

\* Whom nobody wrote is shown, or is not before the next page; a page is the last only
\* when what was counted has been shown.
Ranked ==
    ~left /\ ~tied =>
        /\ request.at \in {"open", "count", "list"} =>
              \A d \in (DOMAIN documents) \ written :
                  d \in Range(request.seen) \/ Cardinality(Newer(d)) >= Before
        /\ request.at = "list" /\ ~grown => Cardinality(Listed) <= request.total
        /\ request.at = "end" /\ ~grown => (DOMAIN documents) \ written \subseteq Range(request.seen)

\* While nothing is written, the pages shown are the beginning of the listing.
Undisturbed ==
    clock = 0 =>
        /\ ~tied /\ IsInjective(request.seen)
        /\ request.at \in {"open", "count", "list"} =>
              /\ Before <= Cardinality(Listed) /\ Len(request.seen) = Before
              /\ \A d \in Range(request.seen) : Cardinality(Newer(d)) < Before
        /\ request.at = "list" => request.total = Cardinality(Listed)
        /\ request.at = "end" => request.total = Len(request.seen)

ListingInv == request.kind = "contents" => ListingTypes /\ Ranked /\ Undisturbed

LEMMA Counted == \A S : Listings!Cardinality(S) = Cardinality(S)
BY DEF Listings!Cardinality, Cardinality

LEMMA ListedFinite ==
    ASSUME ListingTypes
    PROVE  /\ IsFiniteSet(Listed) /\ Cardinality(Listed) \in Nat
           /\ \A d : IsFiniteSet(Newer(d)) /\ Cardinality(Newer(d)) \in Nat
<1>1. IsFiniteSet(Documents) /\ Listed \in SUBSET Documents /\ \A d : Newer(d) \in SUBSET Documents
  BY ListingAssumption DEF ListingTypes, Listed, Newer, Listings!InFolder
<1>2. \A S \in SUBSET Documents : IsFiniteSet(S) /\ Cardinality(S) \in Nat
  BY <1>1, FS_Subset, FS_CardinalityType
<1> QED
  BY <1>1, <1>2

\* A document that nobody wrote has as many before it as are newer: its place in the
\* listing is the next.
LEMMA PlaceInListing ==
    ASSUME ListingTypes, ~tied, NEW order \in Listings!Orders(Listed)
    PROVE  /\ order \in Seq(Listed) /\ Len(order) = Cardinality(Listed)
           /\ \A i, j \in DOMAIN order : order[i] = order[j] => i = j
           /\ \A d \in Listed : \E i \in DOMAIN order : order[i] = d
           /\ \A i \in DOMAIN order : Cardinality(Newer(order[i])) = i - 1
<1> DEFINE n == Cardinality(Listed)
<1>0. n \in Nat /\ IsFiniteSet(Listed)
  BY ListedFinite
<1>1. /\ order \in [1..n -> Listed]
      /\ \A i, j \in 1..n : i # j => order[i] # order[j]
      /\ \A i, j \in DOMAIN order : i < j => documents[order[i]].at >= documents[order[j]].at
  BY Counted DEF Listings!Orders, Listings!SetToSeqs
<1> HIDE DEF n
<1>2. order \in Seq(Listed) /\ Len(order) = n /\ DOMAIN order = 1..n
  BY <1>0, <1>1
<1>3. order \in Injection(1..n, Listed)
  BY <1>1 DEF Injection, IsInjective
<1>4. order \in Surjection(1..n, Listed)
  <2>1. Cardinality(1..n) = n
    BY <1>0, FS_Interval
  <2> QED
    BY <1>0, <1>3, <2>1, FS_Injection DEF n
<1>5. \A d \in Listed : \E i \in 1..n : order[i] = d
  BY <1>4 DEF Surjection
<1>6. ASSUME NEW i \in 1..n PROVE Cardinality(Newer(order[i])) = i - 1
  <2> DEFINE first == [j \in 1..(i - 1) |-> order[j]]
  <2>0. i \in Nat /\ 1..(i - 1) \subseteq 1..n /\ i \notin 1..(i - 1)
    BY <1>0
  <2>1. \A j \in 1..n : order[j] \in Newer(order[i]) <=> j < i
    <3> SUFFICES ASSUME NEW j \in 1..n PROVE order[j] \in Newer(order[i]) <=> j < i
      OBVIOUS
    <3>1. order[i] \in DOMAIN documents /\ order[j] \in DOMAIN documents
      BY <1>1 DEF Listed, Listings!InFolder
    <3>2. i # j => documents[order[i]].at # documents[order[j]].at
      BY <1>1, <3>1 DEF ListingTypes
    <3> QED
      BY <1>0, <1>1, <1>2, <3>1, <3>2 DEF ListingTypes, Newer
  <2>2. first \in [1..(i - 1) -> Newer(order[i])]
    BY <2>0, <2>1
  <2>3. first \in Injection(1..(i - 1), Newer(order[i]))
    BY <1>1, <2>0, <2>2 DEF Injection, IsInjective
  <2>4. first \in Surjection(1..(i - 1), Newer(order[i]))
    <3>1. ASSUME NEW d \in Newer(order[i]) PROVE \E j \in 1..(i - 1) : first[j] = d
      <4>1. PICK j \in 1..n : order[j] = d
        BY <1>5 DEF Newer
      <4>2. j \in 1..(i - 1)
        BY <1>0, <2>1, <4>1
      <4> QED
        BY <4>1, <4>2
    <3> QED
      BY <2>2, <3>1 DEF Surjection
  <2>5. first \in Bijection(1..(i - 1), Newer(order[i]))
    BY <2>3, <2>4 DEF Bijection
  <2>6. ExistsBijection(1..(i - 1), Newer(order[i]))
    BY <2>5 DEF ExistsBijection
  <2>7. IsFiniteSet(1..(i - 1)) /\ Cardinality(1..(i - 1)) = i - 1
    BY <2>0, FS_Interval
  <2> QED
    BY <2>6, <2>7, FS_Bijection
<1> QED
  BY <1>1, <1>2, <1>5, <1>6 DEF n
-----------------------------------------------------------------------------
LEMMA PageBounds ==
    ASSUME NEW page \in Nat \ {0}
    PROVE  /\ page * PageSize \in Nat /\ (page - 1) * PageSize \in Nat
           /\ page * PageSize = (page - 1) * PageSize + PageSize
           /\ (page + 1 - 1) * PageSize = page * PageSize
<1>1. PageSize \in Nat
  BY ListingAssumption
<1>2. \A m, n \in Nat : m * n \in Nat
  OBVIOUS
<1>3. page - 1 \in Nat /\ page + 1 - 1 = page
  OBVIOUS
<1>4. \A m, n \in Nat : (m + 1) * n = m * n + n
  OBVIOUS
<1>5. (page - 1) + 1 = page
  OBVIOUS
<1> QED
  BY <1>1, <1>2, <1>3, <1>4, <1>5

LEMMA LastPage ==
    ASSUME NEW page \in Nat \ {0}, NEW total \in Nat
    PROVE  Listings!HasNext(page, total) <=> page * PageSize < total
<1>1. PageSize \in Nat /\ PageSize > 0
  BY ListingAssumption
<1>2. page * PageSize \in Nat
  BY PageBounds
<1> DEFINE q == (total + PageSize - 1) \div PageSize
           r == (total + PageSize - 1) % PageSize
<1>3. q \in Int /\ r \in 0..(PageSize - 1) /\ total + PageSize - 1 = q * PageSize + r
  BY <1>1
<1> HIDE DEF q, r
<1>4. ASSUME page < q PROVE page * PageSize < total
  <2>1. q - page - 1 \in Nat
    BY <1>3, <1>4
  <2>2. (q - page - 1) * PageSize >= 0
    BY <1>1, <2>1
  <2>3. q * PageSize = (q - page - 1) * PageSize + page * PageSize + PageSize
    BY <1>1, <1>3
  <2> QED
    BY <1>1, <1>2, <1>3, <2>2, <2>3
<1>5. ASSUME q <= page PROVE total <= page * PageSize
  <2>1. page - q \in Nat
    BY <1>3, <1>5
  <2>2. (page - q) * PageSize >= 0
    BY <1>1, <2>1
  <2>3. page * PageSize = (page - q) * PageSize + q * PageSize
    BY <1>1, <1>3
  <2> QED
    BY <1>1, <1>2, <1>3, <2>2, <2>3
<1> QED
  BY <1>2, <1>3, <1>4, <1>5 DEF Listings!HasNext, Listings!TotalPages, q

\* A page of a listing: what follows the pages before it, as long as it goes.
LEMMA PageItems ==
    ASSUME NEW S, NEW order \in Seq(S), NEW page \in Nat \ {0}
    PROVE  LET items == Listings!Limited(order, page)
               before == (page - 1) * PageSize
           IN  /\ items \in Seq(S)
               /\ Len(order) <= before => items = <<>>
               /\ before <= Len(order) =>
                    Len(items) = (IF Len(order) <= page * PageSize
                                  THEN Len(order) - before ELSE PageSize)
               /\ \A k \in 1..Len(items) : before + k \in 1..Len(order) /\ items[k] = order[before + k]
               /\ \A i \in 1..Len(order) : before < i /\ i <= page * PageSize =>
                    i - before \in 1..Len(items)
<1> DEFINE items == Listings!Limited(order, page)
           before == (page - 1) * PageSize
           last == Listings!Min({page * PageSize, Len(order)})
<1>1. /\ before \in Nat /\ page * PageSize = before + PageSize /\ Len(order) \in Nat
      /\ PageSize \in Nat \ {0}
  BY PageBounds, ListingAssumption
<1>2. last = IF page * PageSize <= Len(order) THEN page * PageSize ELSE Len(order)
  BY <1>1 DEF Listings!Min
<1>3. items = SubSeq(order, before + 1, last)
  BY DEF Listings!Limited
<1> HIDE DEF before, last, items
<1>4. items = [k \in 1..(last - before) |-> order[before + k]]
  BY <1>1, <1>2, <1>3
<1>5. \A k \in 1..(last - before) : before + k \in 1..Len(order) /\ order[before + k] \in S
  BY <1>1, <1>2
<1>6. items \in Seq(S) /\ Len(items) = IF last <= before THEN 0 ELSE last - before
  <2> DEFINE m == IF last <= before THEN 0 ELSE last - before
  <2>1. m \in Nat /\ 1..(last - before) = 1..m
    BY <1>1, <1>2
  <2> HIDE DEF m
  <2>2. items = [k \in 1..m |-> order[before + k]] /\ \A k \in 1..m : order[before + k] \in S
    BY <1>4, <1>5, <2>1
  <2>3. items \in Seq(S) /\ Len(items) = m
    BY <2>1, <2>2
  <2> QED
    BY <2>3 DEF m
<1>7. /\ Len(order) <= before => items = <<>>
      /\ before <= Len(order) => Len(items) = (IF Len(order) <= page * PageSize
                                              THEN Len(order) - before ELSE PageSize)
  BY <1>1, <1>2, <1>6
<1>8. \A k \in 1..Len(items) : before + k \in 1..Len(order) /\ items[k] = order[before + k]
  BY <1>1, <1>2, <1>4, <1>5, <1>6
<1>9. \A i \in 1..Len(order) : before < i /\ i <= page * PageSize => i - before \in 1..Len(items)
  BY <1>1, <1>2, <1>6
<1> QED
  BY <1>6, <1>7, <1>8, <1>9 DEF before, items
-----------------------------------------------------------------------------
LEMMA ListingInitInv ==
    ASSUME Listings!Init
    PROVE  "kind" \in DOMAIN request /\ ListingInv
<1>1. PICK kind \in Listings!Kinds : request = Listings!Reader(kind)
  BY DEF Listings!Init
<1>2. "kind" \in DOMAIN request /\ request.kind = kind
  BY <1>1 DEF Listings!Reader
<1>3. ASSUME kind = "contents" PROVE ListingTypes /\ Ranked /\ Undisturbed
  <2>1. /\ request.at = "open" /\ request.page = 1 /\ request.seen = <<>>
        /\ request = [kind |-> "contents", at |-> "open", page |-> 1, total |-> 0,
                      seen |-> <<>>, shown |-> <<>>, todo |-> Listings!Reader("contents").todo]
    BY <1>1, <1>3 DEF Listings!Reader
  <2>2. request \in ContentsReader
    BY <2>1 DEF ContentsReader
  <2>3. /\ documents = [d \in Present |-> [folder |-> Opened, at |-> -d]] /\ clock = 0
        /\ written = {} /\ ~left /\ ~grown /\ ~tied
    BY DEF Listings!Init
  <2>4. /\ DOMAIN documents = Present /\ Present \subseteq Documents
        /\ \A d \in Present : /\ documents[d] = [folder |-> Opened, at |-> -d]
                              /\ d \in Nat /\ (-d) \in Int /\ -d <= 0
    BY <2>3, ListingAssumption
  <2>5. ListingTypes
    <3>1. \A d, e \in DOMAIN documents : d # e => documents[d].at # documents[e].at
      BY <2>4
    <3>2. documents = [d \in DOMAIN documents |-> documents[d]]
      BY <2>3
    <3> QED
      BY <2>2, <2>3, <2>4, <3>1, <3>2 DEF ListingTypes
  <2>6. Before = 0
    BY <2>1, ListingAssumption DEF Before
  <2>7. Ranked
    BY <2>1, <2>5, <2>6, ListedFinite DEF Ranked
  <2>8. Undisturbed
    BY <2>1, <2>3, <2>5, <2>6, ListedFinite DEF Undisturbed, IsInjective, Range
  <2> QED
    BY <2>5, <2>7, <2>8
<1> QED
  BY <1>2, <1>3 DEF ListingInv

LEMMA OpenInv ==
    ASSUME ListingTypes, Ranked, Undisturbed, request.kind = "contents",
           UNCHANGED <<documents, parent, clock, written, left, grown, tied>>,
           Listings!Open \/ Listings!Count
    PROVE  ListingTypes' /\ Ranked' /\ Undisturbed'
<1>1. request \in ContentsReader /\ Cardinality(Listed) \in Nat
  BY ListedFinite DEF ListingTypes
<1>2. Listings!Cardinality(Listings!Matching(documents)) = Cardinality(Listed)
  BY Counted DEF Listings!Matching, Listed
<1>3. Listed' = Listed /\ \A d : Newer(d)' = Newer(d)
  BY DEF Listed, Newer, Listings!InFolder
<1>4. CASE Listings!Open
  BY <1>1, <1>3, <1>4 DEF ListingTypes, Ranked, Undisturbed, ContentsReader, Listings!Open, Before
<1>5. CASE Listings!Count
  <2>1. /\ request' = [request EXCEPT !.at = "list", !.total = Cardinality(Listed)]
        /\ request.at = "count" /\ UNCHANGED <<documents, clock, written, left, grown, tied>>
    BY <1>2, <1>5 DEF Listings!Count
  <2>2. /\ request' \in ContentsReader /\ request'.at = "list" /\ request'.page = request.page
        /\ request'.total = Cardinality(Listed) /\ request'.seen = request.seen
    BY <1>1, <2>1 DEF ContentsReader
  <2>3. Before' = Before /\ Listed' = Listed /\ Cardinality(Listed) \in Nat
    BY <1>1, <1>3, <2>2 DEF Before
  <2>4. ListingTypes'
    BY <2>1, <2>2 DEF ListingTypes
  <2>5. Ranked'
    BY <1>3, <2>1, <2>2, <2>3 DEF Ranked
  <2>6. Undisturbed'
    BY <1>3, <2>1, <2>2, <2>3 DEF Undisturbed
  <2> QED
    BY <2>4, <2>5, <2>6
<1> QED
  BY <1>4, <1>5

\* A page continues where the pages before it ended.
LEMMA ListInv ==
    ASSUME ListingTypes, Ranked, Undisturbed, request.kind = "contents",
           UNCHANGED <<documents, parent, clock, written, left, grown, tied>>, Listings!List
    PROVE  ListingTypes' /\ Ranked' /\ Undisturbed'
<1> DEFINE n == Cardinality(Listed)
           page == request.page
<1>1. PICK order \in Listings!Orders(Listed) :
        LET items == Listings!Limited(order, page)
            hasNext == Listings!HasNext(page, request.total)
        IN  request' = [request EXCEPT !.seen = @ \o items,
                                       !.at = IF hasNext THEN "open" ELSE "end",
                                       !.page = IF hasNext THEN @ + 1 ELSE @]
  BY DEF Listings!List, Listings!Matching, Listed
<1> DEFINE items == Listings!Limited(order, page)
           hasNext == Listings!HasNext(page, request.total)
<1>2. /\ request \in ContentsReader /\ page \in Nat \ {0} /\ request.total \in Nat /\ n \in Nat
      /\ request.at = "list" /\ request.seen \in Seq(Documents)
  BY ListedFinite DEF ListingTypes, ContentsReader, Listings!List
<1>3. /\ request'.seen = request.seen \o items
      /\ request'.at = IF hasNext THEN "open" ELSE "end"
      /\ request'.page = IF hasNext THEN page + 1 ELSE page
      /\ request'.total = request.total
      /\ request' = [request EXCEPT !.seen = request'.seen, !.at = request'.at,
                                    !.page = request'.page]
  BY <1>1, <1>2 DEF ContentsReader
<1>4. Listed' = Listed /\ \A d : Newer(d)' = Newer(d)
  BY DEF Listed, Newer, Listings!InFolder
<1>5. Listed \subseteq Documents /\ order \in Seq(Listed)
  <2>1. Listed \subseteq Documents
    BY DEF ListingTypes, Listed, Listings!InFolder
  <2>2. order \in [1..n -> Listed]
    BY Counted DEF Listings!Orders, Listings!SetToSeqs
  <2> QED
    BY <1>2, <2>1, <2>2
<1>6. /\ items \in Seq(Listed)
      /\ Len(order) <= Before => items = <<>>
      /\ Before <= Len(order) =>
            Len(items) = (IF Len(order) <= page * PageSize THEN Len(order) - Before ELSE PageSize)
      /\ \A k \in 1..Len(items) : Before + k \in 1..Len(order) /\ items[k] = order[Before + k]
      /\ \A i \in 1..Len(order) : Before < i /\ i <= page * PageSize => i - Before \in 1..Len(items)
  BY <1>2, <1>5, PageItems DEF Before
<1>7. /\ Before \in Nat /\ page * PageSize = Before + PageSize /\ PageSize \in Nat \ {0}
      /\ hasNext <=> page * PageSize < request.total
      /\ Before' = IF hasNext THEN page * PageSize ELSE Before
  <2>1. Before' = (request'.page - 1) * PageSize
    BY DEF Before
  <2>2. page \in Nat \ {0} /\ (page + 1 - 1) * PageSize = page * PageSize
    BY <1>2, PageBounds
  <2>3. Before' = IF hasNext THEN page * PageSize ELSE Before
    BY <1>3, <2>1, <2>2 DEF Before
  <2> QED
    BY <1>2, <2>3, PageBounds, LastPage, ListingAssumption DEF Before
<1> HIDE DEF items, hasNext
<1>8. request'.seen \in Seq(Documents) /\ Range(request'.seen) = Range(request.seen) \cup Range(items)
  <2>1. items \in Seq(Documents)
    BY <1>5, <1>6
  <2> QED
    BY <1>2, <1>3, <2>1, Concatenation
<1>9. ListingTypes'
  <2>1. request' \in ContentsReader
    <3>1. request'.at \in {"open", "end"} /\ request'.page \in Nat \ {0}
      BY <1>2, <1>3
    <3> QED
      BY <1>2, <1>3, <1>8, <3>1 DEF ContentsReader
  <2> QED
    BY <2>1 DEF ListingTypes
<1>10. ASSUME ~tied
       PROVE  /\ Len(order) = n
              /\ \A i, j \in 1..n : order[i] = order[j] => i = j
              /\ \A d \in Listed : \E i \in 1..n : order[i] = d
              /\ \A i \in 1..n : Cardinality(Newer(order[i])) = i - 1
  <2>1. Len(order) = n /\ DOMAIN order = 1..n
    BY <1>5, <1>10, PlaceInListing
  <2> QED
    BY <1>10, <2>1, PlaceInListing
<1>11. Ranked'
  <2> SUFFICES ASSUME ~left, ~tied, NEW d \in (DOMAIN documents) \ written, d \notin Range(request'.seen)
               PROVE  IF hasNext THEN Cardinality(Newer(d)) >= page * PageSize ELSE grown
    BY <1>3, <1>4, <1>7 DEF Ranked
  <2>1. d \in Listed /\ d \notin Range(request.seen) /\ d \notin Range(items)
    BY <1>8 DEF ListingTypes, Listed, Listings!InFolder
  <2>2. PICK i \in 1..n : order[i] = d /\ Cardinality(Newer(d)) = i - 1
    BY <1>10, <2>1
  <2>3. i - 1 >= Before
    BY <1>2, <2>1, <2>2 DEF Ranked
  <2>4. page * PageSize < i
    <3> SUFFICES ASSUME i <= page * PageSize PROVE FALSE
      BY <1>7, <2>2
    <3>0. i \in 1..Len(order) /\ Before < i
      BY <1>2, <1>7, <1>10, <2>2, <2>3
    <3>1. i - Before \in 1..Len(items)
      BY <1>6, <3>0
    <3>2. items[i - Before] = order[Before + (i - Before)]
      BY <1>6, <3>1
    <3>3. Before + (i - Before) = i
      BY <1>7, <2>2
    <3>4. d = items[i - Before]
      BY <2>2, <3>2, <3>3
    <3>5. d \in Range(items)
      BY <1>6, <3>1, <3>4 DEF Range
    <3> QED
      BY <2>1, <3>5
  <2>5. ~grown => i <= request.total
    BY <1>2, <2>2 DEF Ranked
  <2> QED
    BY <1>2, <1>7, <2>2, <2>4, <2>5
<1>12. Undisturbed'
  <2> SUFFICES ASSUME clock = 0
               PROVE  /\ IsInjective(request'.seen)
                      /\ hasNext => /\ page * PageSize <= n /\ Len(request'.seen) = page * PageSize
                                    /\ \A d \in Range(request'.seen) :
                                          Cardinality(Newer(d)) < page * PageSize
                      /\ ~hasNext => request.total = Len(request'.seen)
    BY <1>3, <1>4, <1>7 DEF Undisturbed
  <2>1. /\ ~tied /\ request.total = n /\ Before <= n /\ Len(request.seen) = Before
        /\ IsInjective(request.seen)
        /\ \A d \in Range(request.seen) : Cardinality(Newer(d)) < Before
    BY <1>2 DEF Undisturbed
  <2>2. Len(items) = IF hasNext THEN PageSize ELSE n - Before
    BY <1>2, <1>6, <1>7, <1>10, <2>1
  <2>3. \A k \in 1..Len(items) : /\ Before + k \in 1..n /\ items[k] = order[Before + k]
                                 /\ Cardinality(Newer(items[k])) = Before + k - 1
    BY <1>6, <1>10, <2>1
  <2>4. /\ items \in Seq(Documents) /\ Len(items) \in Nat /\ Len(request'.seen) = Before + Len(items)
        /\ \A i \in 1..Before : request.seen[i] \in Range(request.seen)
        /\ \A i, j \in 1..Before : request.seen[i] = request.seen[j] => i = j
    <3>1. items \in Seq(Documents)
      BY <1>5, <1>6
    <3>2. DOMAIN request.seen = 1..Before /\ \A i \in 1..Before : request.seen[i] \in Range(request.seen)
      BY <1>2, <2>1, Elements
    <3>3. Len(items) \in Nat /\ Len(request'.seen) = Before + Len(items)
      BY <1>2, <1>3, <2>1, <3>1
    <3>4. \A i, j \in 1..Before : request.seen[i] = request.seen[j] => i = j
      BY <2>1, <3>2 DEF IsInjective
    <3> QED
      BY <3>1, <3>2, <3>3, <3>4
  <2>5. \A i \in 1..Len(request'.seen) :
           \/ i \in 1..Before /\ request'.seen[i] = request.seen[i]
           \/ /\ Before < i /\ i - Before \in 1..Len(items)
              /\ request'.seen[i] = items[i - Before]
    <3>1. \A i \in 1..Len(request.seen) : (request.seen \o items)[i] = request.seen[i]
      BY <1>2, <2>4, Concatenation
    <3>2. \A i \in 1..Len(request.seen \o items) :
             i \in 1..Len(request.seen)
                \/ (Len(request.seen) < i /\ i - Len(request.seen) \in 1..Len(items)
                      /\ (request.seen \o items)[i] = items[i - Len(request.seen)])
      BY <1>2, <2>4, Concatenation
    <3> QED
      BY <1>3, <2>1, <3>1, <3>2
  <2>6. \A i \in 1..Len(request'.seen) :
           IF i \in 1..Before THEN Cardinality(Newer(request'.seen[i])) < Before
           ELSE Before < i /\ Cardinality(Newer(request'.seen[i])) = i - 1
    <3> SUFFICES ASSUME NEW i \in 1..Len(request'.seen)
                 PROVE  IF i \in 1..Before THEN Cardinality(Newer(request'.seen[i])) < Before
                        ELSE Before < i /\ Cardinality(Newer(request'.seen[i])) = i - 1
      OBVIOUS
    <3>1. CASE i \in 1..Before
      <4>1. ~(Before < i)
        BY <1>7, <3>1
      <4> QED
        BY <2>1, <2>4, <2>5, <3>1, <4>1
    <3>2. CASE i \notin 1..Before
      <4>1. Before < i /\ i - Before \in 1..Len(items) /\ request'.seen[i] = items[i - Before]
        BY <2>5, <3>2
      <4>2. Cardinality(Newer(items[i - Before])) = Before + (i - Before) - 1
        BY <2>3, <4>1
      <4>3. Before + (i - Before) - 1 = i - 1
        BY <1>7
      <4> QED
        BY <3>2, <4>1, <4>2, <4>3
    <3> QED
      BY <3>1, <3>2
  <2>7. IsInjective(request'.seen)
    <3> SUFFICES ASSUME NEW i \in 1..Len(request'.seen), NEW j \in 1..Len(request'.seen),
                        request'.seen[i] = request'.seen[j], i < j
                 PROVE  FALSE
      <4>1. DOMAIN request'.seen = 1..Len(request'.seen) /\ Len(request'.seen) \in Nat
        BY <1>8
      <4> QED
        BY <4>1 DEF IsInjective
    <3>1. i \in Nat /\ j \in Nat /\ Before \in Nat
      BY <1>7, <2>4
    <3>2. CASE j \in 1..Before
      <4>1. i \in 1..Before /\ ~(Before < i) /\ ~(Before < j)
        BY <3>1, <3>2
      <4> QED
        BY <2>4, <2>5, <3>1, <3>2, <4>1
    <3>3. CASE j \notin 1..Before
      BY <2>6, <3>1, <3>3
    <3> QED
      BY <3>2, <3>3
  <2>8. ASSUME hasNext, NEW d \in Range(request'.seen)
        PROVE  Cardinality(Newer(d)) < page * PageSize
    <3>1. CASE d \in Range(request.seen)
      <4>1. d \in Documents
        BY <1>2, <3>1 DEF Range
      <4> QED
        BY <1>7, <2>1, <3>1, ListedFinite
    <3>2. CASE d \in Range(items)
      <4>1. PICK k \in 1..Len(items) : items[k] = d
        BY <1>6, <3>2 DEF Range
      <4> QED
        BY <1>7, <2>2, <2>3, <2>8, <4>1
    <3> QED
      BY <1>8, <2>8, <3>1, <3>2
  <2> QED
    BY <1>2, <1>7, <2>1, <2>2, <2>4, <2>7, <2>8
<1> QED
  BY <1>9, <1>11, <1>12

\* A write leaves a document as it is, or makes it the newest.
LEMMA WriteDocuments ==
    ASSUME ListingTypes, Listings!Writes
    PROVE  /\ documents' = [d \in DOMAIN documents' |-> documents'[d]]
           /\ DOMAIN documents' \subseteq Documents
           /\ \A d \in DOMAIN documents' :
                 \/ d \in DOMAIN documents /\ documents'[d] = documents[d]
                 \/ documents'[d] = [folder |-> documents'[d].folder, at |-> clock']
<1> USE DEF ListingTypes
<1> DEFINE Goal == /\ documents' = [d \in DOMAIN documents' |-> documents'[d]]
                   /\ DOMAIN documents' \subseteq Documents
                   /\ \A d \in DOMAIN documents' :
                         \/ d \in DOMAIN documents /\ documents'[d] = documents[d]
                         \/ documents'[d] = [folder |-> documents'[d].folder, at |-> clock']
<1>1. ASSUME NEW d \in Documents, NEW f, Listings!Put(d, f) PROVE Goal
  <2>1. documents' = [e \in (DOMAIN documents) \cup {d} |->
                        IF e = d THEN [folder |-> f, at |-> clock'] ELSE documents[e]]
    BY <1>1 DEF Listings!Put
  <2>2. DOMAIN documents' = (DOMAIN documents) \cup {d}
    BY <2>1
  <2> QED
    BY <2>1, <2>2
<1>2. ASSUME NEW d \in Documents, Listings!Delete(d) PROVE Goal
  BY <1>2 DEF Listings!Delete
<1>3. ASSUME NEW f \in Folders, Listings!DeleteFolder(f) PROVE Goal
  <2>1. PICK S \in SUBSET (DOMAIN documents) : documents' = [d \in S |-> documents[d]]
    BY <1>3 DEF Listings!DeleteFolder
  <2>2. DOMAIN documents' = S
    BY <2>1
  <2> QED
    BY <2>1, <2>2
<1>4. CASE Listings!ArchiveAll
  BY <1>4 DEF Listings!ArchiveAll
<1>5. CASE UNCHANGED documents
  BY <1>5
<1> QED
  BY <1>1, <1>2, <1>3, <1>4, <1>5
     DEF Listings!Writes, Listings!Touch, Listings!Place, Listings!CreateFolder, Listings!MoveFolder

\* While no document leaves the listing and none are equally new, nobody who was not
\* written comes to stand before fewer: whoever is newer stays so.
LEMMA WriteInv ==
    ASSUME ListingTypes, Ranked, Undisturbed, request.kind = "contents", Listings!Writes
    PROVE  ListingTypes' /\ Ranked' /\ Undisturbed'
<1>1. /\ documents' = [d \in DOMAIN documents' |-> documents'[d]]
      /\ DOMAIN documents' \subseteq Documents
      /\ \A d \in DOMAIN documents' :
            \/ d \in DOMAIN documents /\ documents'[d] = documents[d]
            \/ documents'[d] = [folder |-> documents'[d].folder, at |-> clock']
  BY WriteDocuments
<1>2. /\ request' = request /\ clock' = clock + 1 /\ clock \in Nat /\ clock' \in Nat
      /\ request \in ContentsReader
      /\ tied' = (tied \/ \E d, e \in DOMAIN documents' :
                            d # e /\ documents'[d].at = documents'[e].at)
  <2>1. clock \in Nat /\ request \in ContentsReader
    BY DEF ListingTypes
  <2>2. /\ request' = request /\ clock' = clock + 1
        /\ tied' = (tied \/ \E d, e \in DOMAIN documents' :
                              d # e /\ documents'[d].at = documents'[e].at)
    BY DEF Listings!Writes
  <2> QED
    BY <2>1, <2>2
<1>3. /\ ~left' => ~left /\ Listed \subseteq Listed'
      /\ ~grown' => ~grown /\ (request.at = "list" => Listed' \subseteq Listed)
  BY DEF Listings!Writes, Listings!Matching, Listed, Listings!InFolder
<1>4. \A d \in (DOMAIN documents') \ written' :
         d \in (DOMAIN documents) \ written /\ documents'[d] = documents[d]
  BY <1>1 DEF Listings!Writes
<1>5. ListingTypes'
  <2>1. \A d \in DOMAIN documents' :
           /\ documents'[d] = [folder |-> documents'[d].folder, at |-> documents'[d].at]
           /\ documents'[d].at \in Int /\ documents'[d].at <= clock'
    BY <1>1, <1>2 DEF ListingTypes
  <2>2. \A d \in DOMAIN documents' : d \notin written' => documents'[d].folder = Opened
    BY <1>4 DEF ListingTypes
  <2> QED
    BY <1>1, <1>2, <2>1, <2>2 DEF ListingTypes, ContentsReader
<1>6. Before' = Before
  BY <1>2 DEF Before
<1>7. \A d : IsFiniteSet(Newer(d)') /\ Cardinality(Newer(d)') \in Nat /\ Cardinality(Newer(d)) \in Nat
  <2>1. /\ \A d : Cardinality(Newer(d)) \in Nat
        /\ IsFiniteSet(Documents) /\ \A d : Newer(d)' \in SUBSET Documents
    BY <1>1, ListedFinite, ListingAssumption DEF Newer, Listed, Listings!InFolder
  <2> QED
    BY <2>1, FS_Subset, FS_CardinalityType
<1>8. ASSUME ~left', ~tied', NEW d \in (DOMAIN documents') \ written'
      PROVE  Cardinality(Newer(d)') >= Cardinality(Newer(d))
  <2>1. Newer(d) \subseteq Newer(d)'
    <3> SUFFICES ASSUME NEW e \in Newer(d) PROVE e \in Newer(d)'
      OBVIOUS
    <3>1. e \in Listed /\ e \in Listed' /\ documents[e].at > documents[d].at
      BY <1>3, <1>8 DEF Newer
    <3>2. e \in DOMAIN documents /\ e \in DOMAIN documents' /\ d \in DOMAIN documents
      BY <1>4, <1>8, <3>1 DEF Listed, Listings!InFolder
    <3>3. documents'[e].at > documents'[d].at
      <4>1. documents'[d] = documents[d] /\ documents[d].at <= clock /\ documents[d].at \in Int
        BY <1>4, <1>8, <3>2 DEF ListingTypes
      <4>2. CASE documents'[e] = documents[e]
        BY <3>1, <4>1, <4>2
      <4>3. CASE documents'[e].at = clock'
        BY <1>2, <4>1, <4>3
      <4> QED
        BY <1>1, <3>2, <4>2, <4>3
    <3> QED
      BY <3>1, <3>3 DEF Newer
  <2> QED
    BY <1>7, <2>1, FS_Subset
<1>9. Ranked'
  <2> SUFFICES ASSUME ~left', ~tied' PROVE
        /\ request.at \in {"open", "count", "list"} =>
              \A d \in (DOMAIN documents') \ written' :
                  d \in Range(request.seen) \/ Cardinality(Newer(d)') >= Before
        /\ request.at = "list" /\ ~grown' => Cardinality(Listed') <= request.total
        /\ request.at = "end" /\ ~grown' =>
              (DOMAIN documents') \ written' \subseteq Range(request.seen)
    BY <1>2, <1>6 DEF Ranked
  <2>0. ~left /\ ~tied
    BY <1>2, <1>3
  <2>1. ASSUME request.at \in {"open", "count", "list"}, NEW d \in (DOMAIN documents') \ written'
        PROVE  d \in Range(request.seen) \/ Cardinality(Newer(d)') >= Before
    <3>1. d \in Range(request.seen) \/ Cardinality(Newer(d)) >= Before
      BY <1>4, <2>0, <2>1 DEF Ranked
    <3>2. Before \in Nat
      BY <1>2, PageBounds DEF Before, ContentsReader
    <3> QED
      BY <1>7, <1>8, <2>1, <3>1, <3>2
  <2>2. ASSUME request.at = "list", ~grown' PROVE Cardinality(Listed') <= request.total
    <3>1. Cardinality(Listed) <= request.total /\ Listed' \subseteq Listed
      BY <1>3, <2>0, <2>2 DEF Ranked
    <3>2. IsFiniteSet(Listed) /\ Cardinality(Listed) \in Nat /\ request.total \in Nat
      BY <1>2, ListedFinite DEF ContentsReader
    <3>3. Cardinality(Listed') <= Cardinality(Listed) /\ Cardinality(Listed') \in Nat
      BY <3>1, <3>2, FS_Subset, FS_CardinalityType
    <3> QED
      BY <3>1, <3>2, <3>3
  <2>3. ASSUME request.at = "end", ~grown'
        PROVE  (DOMAIN documents') \ written' \subseteq Range(request.seen)
    BY <1>3, <1>4, <2>0, <2>3 DEF Ranked
  <2> QED
    BY <2>1, <2>2, <2>3
<1>10. Undisturbed'
  <2>1. clock' # 0
    BY <1>2
  <2> QED
    BY <2>1 DEF Undisturbed
<1> QED
  BY <1>5, <1>9, <1>10

\* The pages of a folder show every document that nobody wrote meanwhile, however many
\* documents there are and whatever others create, update or move into the folder between
\* two statements of the reader; with nothing written, each is shown once and the total is
\* their number (FolderContentsHandler).  Documents may not leave the folder meanwhile, the
\* folder not grow between count and page, and times not tie.
THEOREM PagesCompleteHolds == Spec => [](input.part = "listing" => Listings!PagesComplete)
<1> DEFINE Inv == input.part = "listing" => "kind" \in DOMAIN request /\ ListingInv
           Complete == input.part = "listing" => Listings!PagesComplete
<1>1. Init => Inv
  BY ApartInit, ListingInitInv
<1>2. Inv /\ [Next]_operationVars => Inv'
  <2> SUFFICES ASSUME input.part = "listing", "kind" \in DOMAIN request, ListingInv,
                      [Listings!Next]_listingVars
               PROVE  "kind" \in DOMAIN request' /\ ListingInv'
    BY Apart
  <2>1. CASE Listings!Reads
    <3>1. DOMAIN request' = DOMAIN request /\ request'.kind = request.kind
      BY <2>1 DEF Listings!Reads, Listings!Open, Listings!Count, Listings!List,
         Listings!ReadChildren, Listings!CountDocuments, Listings!TreeEnds
    <3>2. ASSUME request.kind = "contents" PROVE Listings!Open \/ Listings!Count \/ Listings!List
      <4>1. request.at # "tree"
        BY <3>2 DEF ListingInv, ListingTypes, ContentsReader
      <4> QED
        BY <2>1, <4>1 DEF Listings!Reads, Listings!ReadChildren, Listings!CountDocuments,
           Listings!TreeEnds
    <3> QED
      BY <2>1, <3>1, <3>2, OpenInv, ListInv DEF ListingInv, Listings!Reads
  <2>2. CASE Listings!Writes
    BY <2>2, WriteInv DEF ListingInv, Listings!Writes
  <2>3. CASE UNCHANGED listingVars
    <3>1. UNCHANGED <<documents, clock, request, written, left, grown, tied>>
      BY <2>3 DEF listingVars
    <3>2. Listed' = Listed /\ Before' = Before /\ \A d : Newer(d)' = Newer(d)
      BY <3>1 DEF Listed, Before, Newer, Listings!InFolder
    <3> QED
      BY <3>1, <3>2 DEF ListingInv, ListingTypes, Ranked, Undisturbed
  <2> QED
    BY <2>1, <2>2, <2>3 DEF Listings!Next
<1>3. Inv => Complete
  <2> SUFFICES ASSUME ListingTypes, Ranked, Undisturbed, request.at = "end"
               PROVE  /\ ~left /\ ~grown /\ ~tied => Listings!Shows
                      /\ clock = 0 => /\ Listings!IsInjective(request.seen)
                                      /\ request.total = Len(request.seen)
    BY DEF ListingInv, Listings!PagesComplete
  <2> QED
    BY DEF Ranked, Undisturbed, Listings!Shows, Listings!ToSet, Range, Listings!IsInjective,
       IsInjective
<1> QED
  BY <1>1, <1>2, <1>3, PTL DEF Spec, operationVars

-----------------------------------------------------------------------------
(* The tree of a listing *)

Up(f) == Listings!Chain[f]
Parents == Folders \cup {Root}

Visits == [ask : {"children", "count"}, folder : Parents, under : Parents, depth : Nat]
Nodes == [folder : Parents, under : Parents, depth : Nat, count : Nat]

TreeReader ==
    [kind : {"tree"}, at : {"tree", "end"}, page : {1}, total : {0}, seen : {<<>>},
     shown : Seq(Nodes), todo : Seq(Visits)]

\* Every folder that is there is below the root, and a folder that nobody moved is not new.
ForestTypes ==
    /\ DOMAIN parent \subseteq Folders
    /\ \A f \in DOMAIN parent : parent[f] \in (DOMAIN parent) \cup {Root}
    /\ \E rank : IsTree(parent, Parents, rank)
    /\ DOMAIN documents \subseteq Documents
    /\ (DOMAIN documents) \ written \subseteq Present

TreeTypes == ForestTypes /\ request \in TreeReader /\ (request.at = "end" => request.todo = <<>>)

\* The folders the tree has to show, and the visits that come to them.
Unmoved(f) ==
    f \in DOMAIN parent /\ Up(f) \cap written = {} /\ Cardinality(Up(f)) <= Depth + 1
ComesTo(f) ==
    {e \in Visits : IF e.ask = "count" THEN e.folder \in Up(f)
                    ELSE e.folder \in {Root} \cup (Up(f) \ {f})}
NodesOf(f) == {n \in Nodes : n.folder = f}

\* Each is shown once, or one visit comes to it.
OnItsWay(f) ==
    /\ HasOne(request.shown, NodesOf(f)) /\ HasOne(request.todo, ComesTo(f))
    /\ Has(request.shown, NodesOf(f)) <=> ~Has(request.todo, ComesTo(f))

InPlace(n) == n.under = parent[n.folder] /\ n.depth = Cardinality(Up(n.folder)) - 1

VisitRight(e) ==
    /\ e.ask = "count" => e.folder \in Folders
    /\ e.ask = "children" /\ e.folder = Root => e.depth = 0
    /\ Unmoved(e.folder) => IF e.ask = "count" THEN InPlace(e)
                            ELSE e.depth = Cardinality(Up(e.folder))

\* While no document was written, none left and none came, the counts are those of now.
Untouched == written \subseteq Folders /\ DOMAIN documents = Present
NumberOf(f) == Cardinality(Listings!InFolder(documents, f))

TreeRight ==
    /\ \A f : Unmoved(f) => OnItsWay(f)
    /\ \A e \in Range(request.todo) : VisitRight(e)
    /\ \A n \in Range(request.shown) : Unmoved(n.folder) => InPlace(n)
    /\ Untouched => \A n \in Range(request.shown) : n.count = NumberOf(n.folder)

TreeInv == request.kind = "tree" => TreeTypes /\ TreeRight

\* The chains of the listing are those of its parents.
LEMMA UpIs ==
    ASSUME ForestTypes
    PROVE  /\ IsChain(Listings!Chain, parent, Parents)
           /\ Root \in Parents /\ IsFiniteSet(Parents)
           /\ Root \notin DOMAIN parent /\ DOMAIN parent \subseteq Parents
<1>1. \A f \in DOMAIN parent : parent[f] \in Parents
  BY DEF ForestTypes, Parents
<1>2. \E up : IsChain(up, parent, Parents)
  BY <1>1, ChainExists
<1>3. \E up : up = [f \in Folders \cup {Root} |->
                       IF f \in DOMAIN parent THEN {f} \cup up[parent[f]] ELSE {}]
  BY <1>2 DEF IsChain, Parents
<1>4. IsChain(Listings!Chain, parent, Parents)
  BY <1>3, Zenon DEF Listings!Chain, IsChain, Parents
<1>5. IsFiniteSet(Parents)
  BY ListingAssumption, FS_AddElement DEF Parents
<1> QED
  BY <1>4, <1>5, ListingAssumption DEF ForestTypes, Parents

\* What the lemmas on chains say of it.
LEMMA UpOf ==
    ASSUME ForestTypes, NEW f \in DOMAIN parent
    PROVE  /\ Up(f) = {f} \cup Up(parent[f]) /\ Up(f) \subseteq DOMAIN parent
           /\ Up(Root) = {}
           /\ Cardinality(Up(f)) \in Nat /\ Cardinality(Up(parent[f])) \in Nat
           /\ \A g \in Up(f) : Up(g) \subseteq Up(f) /\ Cardinality(Up(g)) <= Cardinality(Up(f))
           /\ f \notin Up(parent[f]) /\ Cardinality(Up(f)) = Cardinality(Up(parent[f])) + 1
           /\ \A x, y \in Up(f) : parent[x] = parent[y] => x = y
           /\ \A x \in Up(f) : x = f \/ \E y \in Up(f) : parent[y] = x
           /\ \E x \in Up(f) : parent[x] = Root
<1>1. PICK rank : IsTree(parent, Parents, rank)
  BY DEF ForestTypes
<1> DEFINE up == Listings!Chain
<1>2. /\ IsChain(up, parent, Parents) /\ IsFiniteSet(Parents) /\ Root \in Parents
      /\ Root \notin DOMAIN parent /\ f \in Parents /\ parent[f] \in Parents
  BY UpIs DEF ForestTypes, Parents
<1> HIDE DEF up
<1>3. /\ up[f] = {f} \cup up[parent[f]] /\ up[f] \subseteq DOMAIN parent
      /\ IsFiniteSet(up[f]) /\ Cardinality(up[f]) \in Nat
      /\ \A g \in up[f] : up[g] \subseteq up[f]
      /\ f \notin up[parent[f]] /\ Cardinality(up[f]) = Cardinality(up[parent[f]]) + 1
  BY <1>1, <1>2, ChainOf
<1>4. up[Root] = {} /\ Cardinality(up[parent[f]]) \in Nat
  BY <1>1, <1>2, ChainOf
<1>5. /\ \A x, y \in up[f] : parent[x] = parent[y] => x = y
      /\ \A x \in up[f] : x = f \/ \E y \in up[f] : parent[y] = x
      /\ \E x \in up[f] : parent[x] \notin DOMAIN parent
  BY <1>1, <1>2, ChainIsLine
<1>6. \E x \in up[f] : parent[x] = Root
  BY <1>3, <1>5 DEF ForestTypes
<1>7. \A g \in up[f] : Cardinality(up[g]) <= Cardinality(up[f])
  BY <1>3, FS_Subset
<1> QED
  BY <1>3, <1>4, <1>5, <1>6, <1>7 DEF Up, up

\* In a chain, whoever has it for a child is the root or further up in it.
LEMMA ParentIsUp ==
    ASSUME ForestTypes, NEW f \in DOMAIN parent, NEW g \in Up(f)
    PROVE  parent[g] \in {Root} \cup (Up(f) \ {f})
<1>1. /\ g \in DOMAIN parent /\ Up(g) \subseteq Up(f)
      /\ Cardinality(Up(g)) <= Cardinality(Up(f)) /\ Cardinality(Up(f)) \in Nat
  BY UpOf
<1>2. /\ Up(g) = {g} \cup Up(parent[g]) /\ Cardinality(Up(g)) = Cardinality(Up(parent[g])) + 1
      /\ Cardinality(Up(parent[g])) \in Nat
  BY <1>1, UpOf
<1>3. CASE parent[g] = Root
  BY <1>3
<1>4. CASE parent[g] \in DOMAIN parent
  <2>1. parent[g] \in Up(parent[g])
    BY <1>4, UpOf
  <2>2. parent[g] # f
    BY <1>1, <1>2
  <2> QED
    BY <1>1, <1>2, <2>1, <2>2
<1> QED
  BY <1>1, <1>3, <1>4 DEF ForestTypes

LEMMA UnmovedUp ==
    ASSUME ForestTypes, NEW f, Unmoved(f), NEW g \in Up(f)
    PROVE  Unmoved(g) /\ Cardinality(Up(g)) <= Cardinality(Up(f))
<1>1. /\ f \in DOMAIN parent /\ Cardinality(Up(f)) <= Depth + 1 /\ Up(f) \cap written = {}
  BY DEF Unmoved
<1>2. /\ g \in DOMAIN parent /\ Up(g) \subseteq Up(f) /\ Cardinality(Up(f)) \in Nat
      /\ Cardinality(Up(g)) <= Cardinality(Up(f))
  BY <1>1, UpOf
<1>3. Cardinality(Up(g)) \in Nat
  BY <1>2, UpOf
<1> QED
  BY <1>1, <1>2, <1>3, ListingAssumption DEF Unmoved

\* The children of a folder, each once.
LEMMA ByNameLists ==
    ASSUME NEW S \in SUBSET Folders, NEW s, s = Listings!ByName(S)
    PROVE  /\ s \in Seq(S)
           /\ \A x \in S : \E i \in DOMAIN s : s[i] = x
           /\ \A i, j \in DOMAIN s : s[i] = s[j] => i = j
<1> DEFINE R == {p \in S \X S : p[1] < p[2]}
           n == Cardinality(S)
           At(k) == CHOOSE x \in S : Cardinality(Behind(S, R, x)) = k - 1
           list == [k \in 1..n |-> At(k)]
<1>1. IsFiniteSet(S) /\ S \in SUBSET Nat
  BY ListingAssumption, FS_Subset
<1>2. IsOrder(R, S)
  BY <1>1 DEF IsOrder
<1>3. \A x, y \in S : <<x, y>> \in R => x < y
  OBVIOUS
<1> HIDE DEF R
<1>4. IsRow(list, S, R)
  <2>1. \A k \in 1..n : list[k] = At(k)
    OBVIOUS
  <2>2. \A k \in 1..n : \A x \in S : Cardinality(Behind(S, R, x)) = k - 1 =>
           At(k) \in S /\ Cardinality(Behind(S, R, At(k))) = k - 1
    OBVIOUS
  <2>3. list = [k \in 1..n |-> list[k]]
    OBVIOUS
  <2> HIDE DEF list, At
  <2> QED
    BY <2>1, <2>2, <2>3 DEF IsRow
<1> HIDE DEF list
<1>5. /\ n \in Nat /\ list \in [1..n -> S]
      /\ \A i, j \in 1..n : i < j => <<list[i], list[j]>> \in R
      /\ \A i, j \in 1..n : list[i] = list[j] => i = j
  BY <1>1, <1>2, <1>4, RowSorts
<1> DEFINE All == Listings!SetToSeqs(S)
           Sorted(t) == \A i, j \in DOMAIN t : i < j => t[i] < t[j]
<1>6. All = {t \in [1..n -> S] : \A i, j \in 1..n : i # j => t[i] # t[j]}
  BY Counted DEF Listings!SetToSeqs
<1>7. list \in All /\ Sorted(list)
  BY <1>3, <1>5, <1>6
<1>8. s = CHOOSE t \in All : Sorted(t)
  BY DEF Listings!ByName
<1> HIDE DEF All, Sorted
<1>9. s \in All
  BY <1>7, <1>8
<1>10. s \in [1..n -> S] /\ \A i, j \in 1..n : i # j => s[i] # s[j]
  BY <1>6, <1>9
<1>11. s \in Injection(1..n, S)
  BY <1>10 DEF Injection, IsInjective
<1>12. s \in Surjection(1..n, S)
  <2>1. IsFiniteSet(1..n) /\ Cardinality(1..n) = n
    BY <1>5, FS_Interval
  <2> QED
    BY <1>1, <1>11, <2>1, FS_Injection DEF n
<1> HIDE DEF n
<1>13. s \in Seq(S)
  BY <1>5, <1>10
<1> QED
  BY <1>10, <1>12, <1>13 DEF Surjection

\* A read leaves folders, documents and what was written as they are.
LEMMA ReadsSame ==
    ASSUME UNCHANGED <<documents, parent, written>>
    PROVE  /\ ForestTypes => ForestTypes'
           /\ \A f : /\ Up(f)' = Up(f) /\ Unmoved(f)' = Unmoved(f) /\ ComesTo(f)' = ComesTo(f)
                     /\ NumberOf(f)' = NumberOf(f)
           /\ \A x : InPlace(x)' = InPlace(x) /\ VisitRight(x)' = VisitRight(x)
           /\ Untouched' = Untouched
<1>1. \A f : Up(f)' = Up(f)
  BY DEF Up, Listings!Chain
<1>2. \A f : Unmoved(f)' = Unmoved(f) /\ ComesTo(f)' = ComesTo(f)
  BY <1>1 DEF Unmoved, ComesTo
<1>3. \A x : InPlace(x)' = InPlace(x)
  BY <1>1 DEF InPlace
<1>4. \A x : VisitRight(x)' = VisitRight(x)
  BY <1>1, <1>2, <1>3 DEF VisitRight
<1>5. \A f : NumberOf(f)' = NumberOf(f)
  BY DEF NumberOf, Listings!InFolder
<1> QED
  BY <1>1, <1>2, <1>3, <1>4, <1>5 DEF ForestTypes, Untouched

\* The first visit and the others.
LEMMA FirstVisit ==
    ASSUME request \in TreeReader, request.todo # <<>>
    PROVE  /\ request.todo[1] \in Visits /\ Tail(request.todo) \in Seq(Visits)
           /\ request.todo = <<request.todo[1]>> \o Tail(request.todo)
           /\ request.todo[1] \in Range(request.todo)
           /\ Range(Tail(request.todo)) \subseteq Range(request.todo)
<1> DEFINE t == request.todo
           e == t[1]
           rest == Tail(t)
<1>1. t \in Seq(Visits) /\ t # <<>>
  BY DEF TreeReader
<1> HIDE DEF t
<1>2. e \in Visits /\ rest \in Seq(Visits) /\ t = <<e>> \o rest
  BY <1>1
<1> HIDE DEF e, rest
<1>3. Range(t) = Range(<<e>>) \cup Range(rest)
  <2> DEFINE one == <<e>>
  <2>1. one \in Seq(Visits)
    BY <1>2
  <2>2. t = one \o rest
    BY <1>2
  <2> HIDE DEF one
  <2>3. Range(t) = Range(one) \cup Range(rest)
    BY <1>2, <2>1, <2>2, Concatenation
  <2> QED
    BY <2>3 DEF one
<1>4. e \in Range(<<e>>)
  <2>1. <<e>> \in Seq(Visits) /\ Len(<<e>>) = 1 /\ <<e>>[1] = e /\ 1 \in 1..1
    BY <1>2
  <2> QED
    BY <2>1, Elements
<1> QED
  BY <1>2, <1>3, <1>4 DEF t, e, rest

\* What a visit reads: of a folder that is not too deep, a visit of each child.
VisitOf(e, g) == Listings!Visit("count", g, e.folder, e.depth)
VisitsOf(e, kids) == [i \in DOMAIN kids |-> VisitOf(e, kids[i])]

LEMMA ChildrenVisits ==
    ASSUME TreeTypes, Listings!ReadChildren, NEW e, e = request.todo[1]
    PROVE  /\ e \in Visits /\ e.ask = "children" /\ request.todo # <<>> /\ request.at = "tree"
           /\ \E kids \in Seq(Listings!Children(e.folder)) :
                 /\ \A i, j \in DOMAIN kids : kids[i] = kids[j] => i = j
                 /\ e.depth <= Depth =>
                       \A g \in Listings!Children(e.folder) : \E i \in DOMAIN kids : kids[i] = g
                 /\ request' = [request EXCEPT !.todo = VisitsOf(e, kids) \o Tail(request.todo)]
<1>1. /\ request \in TreeReader /\ request.todo # <<>> /\ request.at = "tree"
      /\ e.ask = "children"
  BY DEF TreeTypes, Listings!ReadChildren
<1>2. e \in Visits
  BY <1>1, FirstVisit
<1> DEFINE S == Listings!Children(e.folder)
           kids == IF e.depth > Depth THEN <<>> ELSE Listings!ByName(S)
           Asked(g) == Listings!Visit("count", g, e.folder, e.depth)
<1>3. request' = [request EXCEPT !.todo = [i \in DOMAIN kids |-> Asked(kids[i])]
                                             \o Tail(request.todo)]
  BY DEF Listings!ReadChildren
<1>4. \A g : Asked(g) = VisitOf(e, g)
  BY DEF VisitOf
<1>5. S \in SUBSET Folders
  BY DEF Listings!Children, TreeTypes, ForestTypes
<1>6. e.depth \in Nat /\ Depth \in Nat
  BY <1>2, ListingAssumption DEF Visits
<1> HIDE DEF S
<1>7. CASE e.depth > Depth
  <2>1. kids = <<>> /\ ~(e.depth <= Depth)
    BY <1>6, <1>7
  <2> HIDE DEF kids, Asked
  <2>2. kids \in Seq(S) /\ DOMAIN kids = {}
    BY <2>1
  <2>3. request' = [request EXCEPT !.todo = VisitsOf(e, kids) \o Tail(request.todo)]
    BY <1>3, <1>4 DEF VisitsOf
  <2> QED
    BY <1>1, <1>2, <2>1, <2>2, <2>3 DEF S
<1>8. CASE ~(e.depth > Depth)
  <2>1. kids = Listings!ByName(S)
    BY <1>8
  <2> HIDE DEF kids, Asked
  <2>2. /\ kids \in Seq(S) /\ \A x \in S : \E i \in DOMAIN kids : kids[i] = x
        /\ \A i, j \in DOMAIN kids : kids[i] = kids[j] => i = j
    BY <1>5, <2>1, ByNameLists
  <2>3. request' = [request EXCEPT !.todo = VisitsOf(e, kids) \o Tail(request.todo)]
    BY <1>3, <1>4 DEF VisitsOf
  <2> QED
    BY <1>1, <1>2, <2>2, <2>3 DEF S
<1> QED
  BY <1>7, <1>8

\* Only the visits change, or also what was shown.
LEMMA NewVisits ==
    ASSUME request \in TreeReader, NEW todo1 \in Seq(Visits),
           request' = [request EXCEPT !.todo = todo1]
    PROVE  /\ request' \in TreeReader /\ request'.todo = todo1
           /\ request'.shown = request.shown /\ request'.at = request.at
<1>1. /\ request'.todo = todo1 /\ request'.shown = request.shown /\ request'.at = request.at
      /\ request'.kind = request.kind /\ request'.page = request.page
      /\ request'.total = request.total /\ request'.seen = request.seen
  BY DEF TreeReader
<1>2. request' = [kind |-> request.kind, at |-> request.at, page |-> request.page,
                  total |-> request.total, seen |-> request.seen, shown |-> request.shown,
                  todo |-> todo1]
  BY DEF TreeReader
<1> QED
  BY <1>1, <1>2 DEF TreeReader

\* A visit of a child says what is so.
LEMMA ChildRight ==
    ASSUME TreeTypes, NEW e \in Visits, VisitRight(e), e.ask = "children",
           NEW g \in Listings!Children(e.folder)
    PROVE  VisitOf(e, g) \in Visits /\ VisitRight(VisitOf(e, g))
<1>1. ForestTypes /\ g \in DOMAIN parent /\ parent[g] = e.folder /\ g \in Folders
  BY DEF TreeTypes, ForestTypes, Listings!Children
<1> DEFINE k == VisitOf(e, g)
<1>2. /\ k.ask = "count" /\ k.folder = g /\ k.under = e.folder /\ k.depth = e.depth
      /\ e.folder \in Parents /\ e.depth \in Nat
  BY DEF VisitOf, Listings!Visit, Visits
<1>3. k \in Visits
  BY <1>1, <1>2 DEF VisitOf, Listings!Visit, Visits, Parents
<1>4. ASSUME Unmoved(g)
      PROVE  e.depth = Cardinality(Up(g)) - 1
  <2>1. /\ Cardinality(Up(g)) = Cardinality(Up(e.folder)) + 1 /\ Up(Root) = {}
        /\ Cardinality(Up(e.folder)) \in Nat /\ Up(g) = {g} \cup Up(e.folder)
    BY <1>1, UpOf
  <2>2. CASE e.folder = Root
    <3>1. e.depth = 0 /\ Cardinality(Up(e.folder)) = 0
      BY <2>1, <2>2, FS_EmptySet DEF VisitRight
    <3> QED
      BY <2>1, <3>1
  <2>3. CASE e.folder # Root
    <3>1. e.folder \in DOMAIN parent
      BY <1>1, <2>3 DEF ForestTypes
    <3>2. e.folder \in Up(e.folder)
      BY <1>1, <3>1, UpOf
    <3>3. Unmoved(e.folder)
      BY <1>1, <1>4, <2>1, <3>2, UnmovedUp
    <3>4. e.depth = Cardinality(Up(e.folder))
      BY <3>3 DEF VisitRight
    <3> QED
      BY <2>1, <3>4
  <2> QED
    BY <2>2, <2>3
<1> HIDE DEF k
<1>5. VisitRight(k)
  BY <1>1, <1>2, <1>4 DEF VisitRight, InPlace
<1> QED
  BY <1>3, <1>5 DEF k

\* Of the visits of the children, one comes to a folder that the visit above came to.
LEMMA ChildrenCome ==
    ASSUME TreeTypes, NEW e \in Visits, VisitRight(e), e.ask = "children", NEW f, Unmoved(f),
           NEW kids \in Seq(Listings!Children(e.folder)),
           \A i, j \in DOMAIN kids : kids[i] = kids[j] => i = j,
           e.depth <= Depth =>
              \A g \in Listings!Children(e.folder) : \E i \in DOMAIN kids : kids[i] = g,
           NEW some, some = VisitsOf(e, kids)
    PROVE  /\ HasOne(some, ComesTo(f))
           /\ Has(some, ComesTo(f)) <=> e \in ComesTo(f)
<1>1. ForestTypes /\ f \in DOMAIN parent
  BY DEF TreeTypes, Unmoved
<1>2. \A i \in DOMAIN kids : kids[i] \in DOMAIN parent /\ parent[kids[i]] = e.folder
  BY DEF Listings!Children
<1>3. ASSUME NEW i \in DOMAIN kids
      PROVE  some[i] \in ComesTo(f) <=> kids[i] \in Up(f)
  <2>1. some[i] \in Visits /\ some[i].ask = "count" /\ some[i].folder = kids[i]
    BY ChildRight DEF VisitsOf, VisitOf, Listings!Visit
  <2> QED
    BY <2>1 DEF ComesTo
<1>4. DOMAIN some = DOMAIN kids
  BY DEF VisitsOf
<1>5. \A x, y \in Up(f) : parent[x] = parent[y] => x = y
  BY <1>1, UpOf
<1>6. HasOne(some, ComesTo(f))
  BY <1>2, <1>3, <1>4, <1>5 DEF HasOne
<1>7. ASSUME Has(some, ComesTo(f))
      PROVE  e \in ComesTo(f)
  <2>1. PICK i \in DOMAIN kids : kids[i] \in Up(f)
    BY <1>3, <1>4, <1>7 DEF Has
  <2>2. e.folder \in {Root} \cup (Up(f) \ {f})
    BY <1>1, <1>2, <2>1, ParentIsUp
  <2> QED
    BY <2>2 DEF ComesTo
<1>8. ASSUME e \in ComesTo(f)
      PROVE  Has(some, ComesTo(f))
  <2>1. e.folder \in {Root} \cup (Up(f) \ {f})
    BY <1>8 DEF ComesTo
  <2>2. \E y \in Up(f) : parent[y] = e.folder
    BY <1>1, <2>1, UpOf
  <2>3. PICK y \in Up(f) : parent[y] = e.folder
    BY <2>2
  <2>4. y \in DOMAIN parent
    BY <1>1, <2>3, UpOf
  <2>5. e.depth <= Depth
    <3>1. CASE e.folder = Root
      BY <3>1, ListingAssumption DEF VisitRight
    <3>2. CASE e.folder # Root
      <4>1. e.folder \in Up(f)
        BY <2>1, <3>2
      <4>2. e.depth = Cardinality(Up(e.folder))
        BY <1>1, <4>1, UnmovedUp DEF VisitRight
      <4>3. /\ Cardinality(Up(y)) = Cardinality(Up(e.folder)) + 1
            /\ Cardinality(Up(e.folder)) \in Nat
        BY <1>1, <2>3, <2>4, UpOf
      <4>4. Cardinality(Up(y)) <= Cardinality(Up(f)) /\ Cardinality(Up(f)) \in Nat
        BY <1>1, <2>3, UpOf
      <4>5. Cardinality(Up(f)) <= Depth + 1
        BY DEF Unmoved
      <4> QED
        BY <4>2, <4>3, <4>4, <4>5, ListingAssumption
    <3> QED
      BY <3>1, <3>2
  <2>6. y \in Listings!Children(e.folder)
    BY <2>3, <2>4 DEF Listings!Children
  <2>7. PICK i \in DOMAIN kids : kids[i] = y
    BY <2>5, <2>6
  <2> QED
    BY <1>3, <1>4, <2>3, <2>7 DEF Has
<1> QED
  BY <1>6, <1>7, <1>8

LEMMA ReadChildrenKeeps ==
    ASSUME TreeTypes, TreeRight, Listings!ReadChildren, UNCHANGED <<documents, parent, written>>
    PROVE  TreeTypes' /\ TreeRight'
<1> DEFINE e == request.todo[1]
           rest == Tail(request.todo)
<1>1. /\ request \in TreeReader /\ request.todo # <<>> /\ request.at = "tree"
      /\ e \in Visits /\ e.ask = "children"
  BY ChildrenVisits DEF TreeTypes
<1>0. e = request.todo[1]
  OBVIOUS
<1> HIDE DEF e
<1>2. PICK kids \in Seq(Listings!Children(e.folder)) :
         /\ \A i, j \in DOMAIN kids : kids[i] = kids[j] => i = j
         /\ e.depth <= Depth =>
               \A g \in Listings!Children(e.folder) : \E i \in DOMAIN kids : kids[i] = g
         /\ request' = [request EXCEPT !.todo = VisitsOf(e, kids) \o rest]
  BY <1>0, ChildrenVisits
<1> DEFINE some == VisitsOf(e, kids)
<1>3. /\ rest \in Seq(Visits) /\ request.todo = <<e>> \o rest
      /\ e \in Range(request.todo) /\ Range(rest) \subseteq Range(request.todo)
  BY <1>0, <1>1, FirstVisit
<1>4. VisitRight(e)
  BY <1>3 DEF TreeRight
<1> HIDE DEF rest
<1>5. \A i \in DOMAIN kids : VisitOf(e, kids[i]) \in Visits /\ VisitRight(VisitOf(e, kids[i]))
  BY <1>1, <1>4, ChildRight
<1>6. some \in Seq(Visits) /\ \A i \in DOMAIN some : VisitRight(some[i])
  <2>1. Len(kids) \in Nat /\ DOMAIN kids = 1..Len(kids)
    OBVIOUS
  <2> QED
    BY <1>5, <2>1 DEF VisitsOf
<1>7. \A f : Unmoved(f) =>
         /\ HasOne(some, ComesTo(f))
         /\ Has(some, ComesTo(f)) <=> e \in ComesTo(f)
  BY <1>1, <1>2, <1>4, ChildrenCome
<1>8. request' = [request EXCEPT !.todo = some \o rest]
  BY <1>2
<1> HIDE DEF some
<1>9. some \o rest \in Seq(Visits) /\ Range(some \o rest) = Range(some) \cup Range(rest)
  BY <1>3, <1>6, Concatenation
<1>10. /\ request' \in TreeReader /\ request'.todo = some \o rest
       /\ request'.shown = request.shown /\ request'.at = "tree"
  BY <1>1, <1>8, <1>9, NewVisits
<1>11. TreeTypes'
  BY <1>10, ReadsSame DEF TreeTypes
<1>12. ASSUME NEW f, Unmoved(f)
       PROVE  OnItsWay(f)'
  <2>1. OnItsWay(f)
    BY <1>12 DEF TreeRight
  <2> DEFINE X == ComesTo(f)
  <2>2. HasOne(<<e>> \o rest, X) /\ HasOne(some, X) /\ (Has(some, X) <=> e \in X)
    BY <1>3, <1>7, <1>12, <2>1 DEF OnItsWay
  <2> HIDE DEF X
  <2>3. /\ HasOne(some \o rest, X)
        /\ Has(<<e>> \o rest, X) <=> e \in X \/ Has(rest, X)
        /\ Has(some \o rest, X) <=> Has(some, X) \/ Has(rest, X)
    BY <1>1, <1>3, <1>6, <2>2, FirstReplaced
  <2>4. ComesTo(f)' = X /\ NodesOf(f)' = NodesOf(f)
    BY ReadsSame DEF X, NodesOf
  <2> QED
    BY <1>3, <1>10, <2>1, <2>2, <2>3, <2>4 DEF OnItsWay, X
<1>13. \A k \in Range(request'.todo) : VisitRight(k)
  <2>1. \A k \in Range(some) : VisitRight(k)
    BY <1>6, Elements
  <2> QED
    BY <1>3, <1>9, <1>10, <2>1 DEF TreeRight
<1> QED
  BY <1>10, <1>11, <1>12, <1>13, ReadsSame DEF TreeRight

\* What a count adds: the folder is shown, and a visit of its children follows.
LEMMA CountVisits ==
    ASSUME TreeTypes, Listings!CountDocuments, NEW e, e = request.todo[1]
    PROVE  /\ e \in Visits /\ e.ask = "count" /\ request.todo # <<>>
           /\ \E h \in Visits, n \in Nodes :
                 /\ h.ask = "children" /\ h.folder = e.folder /\ h.depth = e.depth + 1
                 /\ n.folder = e.folder /\ n.under = e.under /\ n.depth = e.depth
                 /\ n.count = NumberOf(e.folder)
                 /\ request' \in TreeReader /\ request'.at = "tree"
                 /\ request'.todo = <<h>> \o Tail(request.todo)
                 /\ request'.shown = request.shown \o <<n>>
<1>1. /\ request \in TreeReader /\ request.todo # <<>> /\ request.at = "tree"
      /\ e.ask = "count"
  BY DEF TreeTypes, Listings!CountDocuments
<1>2. e \in Visits /\ Tail(request.todo) \in Seq(Visits)
  BY <1>1, FirstVisit
<1>3. /\ e.folder \in Parents /\ e.under \in Parents /\ e.depth \in Nat
  BY <1>2 DEF Visits
<1>4. NumberOf(e.folder) \in Nat
  <2>1. Listings!InFolder(documents, e.folder) \subseteq Documents
    BY DEF Listings!InFolder, TreeTypes, ForestTypes
  <2> QED
    BY <2>1, ListingAssumption, FS_Subset, FS_CardinalityType DEF NumberOf
<1> DEFINE h == Listings!Visit("children", e.folder, e.under, e.depth + 1)
           n == [folder |-> e.folder, under |-> e.under, depth |-> e.depth,
                 count |-> NumberOf(e.folder)]
           shown1 == Append(request.shown, n)
           todo1 == <<h>> \o Tail(request.todo)
<1>5. request' = [request EXCEPT !.todo = todo1, !.shown = shown1]
  <2> DEFINE d == request.todo[1]
  <2>1. request' = [request EXCEPT
           !.todo = <<Listings!Visit("children", d.folder, d.under, d.depth + 1)>>
                        \o Tail(request.todo),
           !.shown = Append(request.shown,
              [folder |-> d.folder, under |-> d.under, depth |-> d.depth,
               count |-> NumberOf(d.folder)])]
    BY Counted DEF Listings!CountDocuments, NumberOf
  <2>2. d = e
    OBVIOUS
  <2> HIDE DEF d
  <2> QED
    BY <2>1, <2>2
<1>6. /\ h \in Visits /\ h.ask = "children" /\ h.folder = e.folder /\ h.depth = e.depth + 1
  BY <1>3 DEF Listings!Visit, Visits
<1>7. /\ n \in Nodes /\ n.folder = e.folder /\ n.under = e.under /\ n.depth = e.depth
      /\ n.count = NumberOf(e.folder)
  BY <1>3, <1>4 DEF Nodes
<1> HIDE DEF h, n
<1>8. request.shown \in Seq(Nodes)
  BY <1>1 DEF TreeReader
<1>9. shown1 \in Seq(Nodes) /\ shown1 = request.shown \o <<n>> /\ todo1 \in Seq(Visits)
  BY <1>2, <1>6, <1>7, <1>8
<1> HIDE DEF todo1, shown1
<1> DEFINE mid == [request EXCEPT !.todo = todo1]
<1>10. mid = [kind |-> request.kind, at |-> request.at, page |-> request.page,
              total |-> request.total, seen |-> request.seen, shown |-> request.shown,
              todo |-> todo1]
  BY <1>1 DEF TreeReader
<1>11. request' = [mid EXCEPT !.shown = shown1]
  BY <1>5
<1> HIDE DEF mid
<1>12. request' = [kind |-> request.kind, at |-> request.at, page |-> request.page,
                   total |-> request.total, seen |-> request.seen, shown |-> shown1,
                   todo |-> todo1]
  BY <1>10, <1>11
<1>13. request' \in TreeReader
  BY <1>1, <1>9, <1>12 DEF TreeReader
<1> QED
  BY <1>1, <1>2, <1>6, <1>7, <1>9, <1>12, <1>13 DEF todo1

LEMMA CountKeeps ==
    ASSUME TreeTypes, TreeRight, Listings!CountDocuments, UNCHANGED <<documents, parent, written>>
    PROVE  TreeTypes' /\ TreeRight'
<1> DEFINE e == request.todo[1]
           rest == Tail(request.todo)
<1>1. request \in TreeReader /\ request.todo # <<>> /\ e \in Visits /\ e.ask = "count"
  BY CountVisits DEF TreeTypes
<1>2. PICK h \in Visits, n \in Nodes :
         /\ h.ask = "children" /\ h.folder = e.folder /\ h.depth = e.depth + 1
         /\ n.folder = e.folder /\ n.under = e.under /\ n.depth = e.depth
         /\ n.count = NumberOf(e.folder)
         /\ request' \in TreeReader /\ request'.at = "tree"
         /\ request'.todo = <<h>> \o rest
         /\ request'.shown = request.shown \o <<n>>
  BY CountVisits
<1>3. /\ rest \in Seq(Visits) /\ request.todo = <<e>> \o rest
      /\ e \in Range(request.todo) /\ Range(rest) \subseteq Range(request.todo)
  BY <1>1, FirstVisit
<1>4. VisitRight(e) /\ e.folder \in Folders /\ e.folder # Root /\ e.depth \in Nat
  <2>1. VisitRight(e)
    BY <1>3 DEF TreeRight
  <2> QED
    BY <1>1, <2>1, ListingAssumption DEF VisitRight, Visits
<1> HIDE DEF e, rest
<1>5. TreeTypes'
  BY <1>2, ReadsSame DEF TreeTypes
<1>6. Unmoved(e.folder) => InPlace(e)
  BY <1>1, <1>4 DEF VisitRight
<1>7. ASSUME Unmoved(e.folder)
      PROVE  InPlace(n) /\ h.depth = Cardinality(Up(e.folder))
  <2>1. Cardinality(Up(e.folder)) \in Nat
    BY <1>7, UpOf DEF TreeTypes, Unmoved
  <2> QED
    BY <1>2, <1>4, <1>6, <1>7, <2>1 DEF InPlace
<1>8. VisitRight(h)
  BY <1>2, <1>4, <1>7 DEF VisitRight
<1> DEFINE one == <<h>>
           last == <<n>>
<1>9. /\ one \in Seq(Visits) /\ last \in Seq(Nodes) /\ request.shown \in Seq(Nodes)
      /\ DOMAIN one = {1} /\ one[1] = h /\ DOMAIN last = {1} /\ last[1] = n
  BY <1>1, <1>2 DEF TreeReader
<1>10. request'.todo = one \o rest /\ request'.shown = request.shown \o last
  BY <1>2
<1> HIDE DEF one, last
<1>11. ASSUME NEW f, Unmoved(f)
       PROVE  OnItsWay(f)'
  <2>1. OnItsWay(f)
    BY <1>11 DEF TreeRight
  <2> DEFINE X == ComesTo(f)
             N == NodesOf(f)
  <2>2. /\ e \in X <=> e.folder \in Up(f)
        /\ h \in X <=> e.folder \in Up(f) \ {f}
        /\ n \in N <=> e.folder = f
    BY <1>1, <1>2, <1>4 DEF ComesTo, NodesOf
  <2>3. f \in Up(f)
    BY <1>11, UpOf DEF TreeTypes, Unmoved
  <2>4. /\ HasOne(<<e>> \o rest, X) /\ HasOne(request.shown, N)
        /\ Has(request.shown, N) <=> ~Has(<<e>> \o rest, X)
    BY <1>3, <2>1 DEF OnItsWay
  <2> HIDE DEF X, N
  <2>5. HasOne(one, X) /\ (Has(one, X) <=> h \in X) /\ HasOne(last, N) /\ (Has(last, N) <=> n \in N)
    BY <1>9 DEF Has, HasOne
  <2>6. /\ HasOne(one \o rest, X)
        /\ Has(<<e>> \o rest, X) <=> e \in X \/ Has(rest, X)
        /\ Has(one \o rest, X) <=> Has(one, X) \/ Has(rest, X)
        /\ ~(e \in X /\ Has(rest, X))
    <3>1. Has(one, X) => e \in X
      BY <2>2, <2>5
    <3> QED
      BY <1>1, <1>3, <1>9, <2>4, <2>5, <3>1, FirstReplaced
  <2>7. /\ Has(request.shown \o last, N) <=> Has(request.shown, N) \/ Has(last, N)
        /\ HasOne(request.shown \o last, N) <=>
              /\ HasOne(request.shown, N) /\ HasOne(last, N)
              /\ ~(Has(request.shown, N) /\ Has(last, N))
    BY <1>9, HasOfTwo
  <2>8. /\ HasOne(request.shown \o last, N)
        /\ Has(request.shown \o last, N) <=> ~Has(one \o rest, X)
    BY <2>2, <2>3, <2>4, <2>5, <2>6, <2>7
  <2>9. ComesTo(f)' = X /\ NodesOf(f)' = N
    BY ReadsSame DEF X, N, NodesOf
  <2> QED
    BY <1>10, <2>6, <2>8, <2>9 DEF OnItsWay
<1>12. Range(one \o rest) = Range(one) \cup Range(rest)
  BY <1>3, <1>9, Concatenation
<1>13. Range(request.shown \o last) = Range(request.shown) \cup Range(last)
  BY <1>9, Concatenation
<1>14. Range(one) = {h} /\ Range(last) = {n}
  BY <1>9 DEF Range
<1>15. \A k \in Range(request'.todo) : VisitRight(k)
  BY <1>3, <1>8, <1>10, <1>12, <1>14 DEF TreeRight
<1>16. \A k \in Range(request'.shown) : Unmoved(k.folder) => InPlace(k)
  BY <1>2, <1>7, <1>10, <1>13, <1>14 DEF TreeRight
<1>17. Untouched => \A k \in Range(request'.shown) : k.count = NumberOf(k.folder)
  BY <1>2, <1>10, <1>13, <1>14 DEF TreeRight
<1> QED
  BY <1>5, <1>11, <1>15, <1>16, <1>17, ReadsSame DEF TreeRight

LEMMA EndKeeps ==
    ASSUME TreeTypes, TreeRight, Listings!TreeEnds, UNCHANGED <<documents, parent, written>>
    PROVE  TreeTypes' /\ TreeRight'
<1>1. /\ request' = [request EXCEPT !.at = "end"] /\ request \in TreeReader
      /\ request.todo = <<>>
  BY DEF TreeTypes, Listings!TreeEnds
<1>2. request'.todo = <<>> /\ request'.todo = request.todo /\ request'.shown = request.shown
  BY <1>1 DEF TreeReader
<1>3. request' = [kind |-> request.kind, at |-> "end", page |-> request.page,
                  total |-> request.total, seen |-> request.seen, shown |-> request.shown,
                  todo |-> request.todo]
  BY <1>1 DEF TreeReader
<1>4. request' \in TreeReader
  BY <1>1, <1>3 DEF TreeReader
<1>5. \A f : NodesOf(f)' = NodesOf(f)
  BY DEF NodesOf
<1>6. \A f : Unmoved(f) => OnItsWay(f)'
  BY <1>2, <1>5, ReadsSame DEF OnItsWay, TreeRight
<1> QED
  BY <1>2, <1>4, <1>6, ReadsSame DEF TreeTypes, TreeRight

\* The same of the parents after a step.
LEMMA UpIsThen ==
    ForestTypes' => /\ IsChain(Listings!Chain', parent', Parents)
                    /\ Root \notin DOMAIN parent' /\ DOMAIN parent' \subseteq Parents
<1> DEFINE Right == /\ IsChain(Listings!Chain, parent, Parents)
                    /\ Root \notin DOMAIN parent /\ DOMAIN parent \subseteq Parents
<1>1. ForestTypes => Right
  BY UpIs
<1>2. ForestTypes' => Right'
  BY <1>1, PTL
<1> QED
  BY <1>2

\* Whatever is not written is as it was.
LEMMA WritesTell ==
    ASSUME DOMAIN documents \subseteq Documents, Listings!Writes
    PROVE  /\ written \subseteq written' /\ request' = request
           /\ DOMAIN documents' \subseteq Documents
           /\ \A d \in (DOMAIN documents') \ written' :
                 d \in DOMAIN documents /\ documents'[d] = documents[d]
           /\ \A f \in (DOMAIN parent) \cup (DOMAIN parent') : f \notin written' =>
                 f \in DOMAIN parent /\ f \in DOMAIN parent' /\ parent'[f] = parent[f]
<1>1. DOMAIN documents' \subseteq Documents
  <2>1. ASSUME NEW d \in Documents, NEW f, Listings!Put(d, f)
        PROVE  DOMAIN documents' \subseteq Documents
    BY <2>1 DEF Listings!Put
  <2>2. ASSUME NEW d \in Documents, Listings!Delete(d)
        PROVE  DOMAIN documents' \subseteq Documents
    BY <2>2 DEF Listings!Delete
  <2>3. ASSUME NEW f \in Folders, Listings!DeleteFolder(f)
        PROVE  DOMAIN documents' \subseteq Documents
    BY <2>3 DEF Listings!DeleteFolder
  <2>4. CASE Listings!ArchiveAll
    BY <2>4 DEF Listings!ArchiveAll
  <2>5. CASE UNCHANGED documents
    BY <2>5
  <2> QED
    BY <2>1, <2>2, <2>3, <2>4, <2>5
       DEF Listings!Writes, Listings!Touch, Listings!Place, Listings!CreateFolder,
           Listings!MoveFolder
<1>2. /\ request' = request
      /\ written' = written
            \cup {d \in Documents : d \in DOMAIN documents' /\
                    ~(d \in (DOMAIN documents) \cap (DOMAIN documents')
                        /\ documents[d] = documents'[d])}
            \cup {f \in (DOMAIN parent) \cup (DOMAIN parent') :
                    ~(f \in (DOMAIN parent) \cap (DOMAIN parent') /\ parent[f] = parent'[f])}
  BY DEF Listings!Writes
<1> QED
  BY <1>1, <1>2

\* Parents are there or the root, and no cycle comes to be.
ParentsRight(new) ==
    /\ DOMAIN new \subseteq Folders
    /\ \A f \in DOMAIN new : new[f] \in (DOMAIN new) \cup {Root}
    /\ \E rank : IsTree(new, Parents, rank)

LEMMA MoveFolderKeeps ==
    ASSUME ForestTypes, NEW f \in Folders, NEW p, Listings!MoveFolder(f, p)
    PROVE  ParentsRight(parent')
<1>1. PICK rank : IsTree(parent, Parents, rank)
  BY DEF ForestTypes
<1>2. /\ f \in DOMAIN parent /\ p \in (DOMAIN parent) \cup {Root} /\ f \notin Up(p)
      /\ parent' = [parent EXCEPT ![f] = p]
  BY DEF Listings!MoveFolder, Up
<1>3. /\ DOMAIN parent' = DOMAIN parent /\ parent'[f] = p
      /\ \A g \in DOMAIN parent : g # f => parent'[g] = parent[g]
  BY <1>2
<1>4. DOMAIN parent \subseteq Folders /\ \A g \in DOMAIN parent : parent[g] \in (DOMAIN parent) \cup {Root}
  BY DEF ForestTypes
<1>5. rank \in [Parents -> Nat] /\ \A g \in DOMAIN parent : rank[parent[g]] < rank[g]
  BY <1>1 DEF IsTree
<1>6. \A g \in DOMAIN parent : Up(g) = {g} \cup Up(parent[g])
  BY UpOf
<1>7. p \in Parents /\ rank[p] \in Nat
  BY <1>2, <1>4, <1>5 DEF Parents
<1> DEFINE Below(g) == f \in Up(g)
           later == [g \in Parents |-> IF Below(g) THEN rank[g] + rank[p] + 1 ELSE rank[g]]
<1>8. /\ later \in [Parents -> Nat] /\ DOMAIN parent' \subseteq Parents
      /\ \A g \in DOMAIN parent' : parent'[g] \in Parents
  <2>1. \A g \in Parents : rank[g] + rank[p] + 1 \in Nat
    BY <1>5, <1>7
  <2> QED
    BY <1>2, <1>3, <1>4, <1>5, <1>7, <2>1 DEF Parents
<1>9. ASSUME NEW g \in DOMAIN parent'
      PROVE  later[parent'[g]] < later[g]
  <2>1. g \in DOMAIN parent /\ g \in Parents /\ rank[g] \in Nat
    BY <1>3, <1>4, <1>5 DEF Parents
  <2>2. CASE g = f
    <3>1. Below(f) /\ ~Below(p)
      BY <1>2, <1>6
    <3>2. later[f] = rank[f] + rank[p] + 1 /\ later[p] = rank[p]
      BY <1>7, <2>1, <2>2, <3>1
    <3> QED
      BY <1>3, <1>7, <2>1, <2>2, <3>2
  <2>3. CASE g # f
    <3>1. parent'[g] = parent[g] /\ (Below(g) <=> Below(parent[g]))
      BY <1>3, <1>6, <2>1, <2>3
    <3>2. parent[g] \in Parents /\ rank[parent[g]] < rank[g] /\ rank[parent[g]] \in Nat
      BY <1>4, <1>5, <2>1 DEF Parents
    <3> HIDE DEF Below
    <3>3. \/ later[g] = rank[g] /\ later[parent[g]] = rank[parent[g]]
          \/ later[g] = rank[g] + rank[p] + 1 /\ later[parent[g]] = rank[parent[g]] + rank[p] + 1
      BY <2>1, <3>1, <3>2
    <3> HIDE DEF later
    <3> QED
      BY <1>7, <2>1, <3>1, <3>2, <3>3
  <2> QED
    BY <2>2, <2>3
<1> HIDE DEF later
<1>10. IsTree(parent', Parents, later)
  BY <1>8, <1>9 DEF IsTree
<1> QED
  BY <1>2, <1>3, <1>4, <1>10 DEF ParentsRight

LEMMA DeleteFolderKeeps ==
    ASSUME ForestTypes, NEW f \in Folders, Listings!DeleteFolder(f)
    PROVE  ParentsRight(parent')
<1>1. PICK rank : IsTree(parent, Parents, rank)
  BY DEF ForestTypes
<1> DEFINE gone == {g \in DOMAIN parent : f \in Up(g)}
<1>2. parent' = [g \in (DOMAIN parent) \ gone |-> parent[g]]
  BY DEF Listings!DeleteFolder, Up
<1>3. DOMAIN parent' = (DOMAIN parent) \ gone /\ \A g \in DOMAIN parent' : parent'[g] = parent[g]
  BY <1>2
<1>4. \A g \in DOMAIN parent : parent[g] \in gone => g \in gone
  BY UpOf
<1> HIDE DEF gone
<1>5. \A g \in DOMAIN parent' : parent'[g] \in (DOMAIN parent') \cup {Root}
  BY <1>3, <1>4 DEF ForestTypes
<1>6. IsTree(parent', Parents, rank)
  BY <1>1, <1>3 DEF IsTree
<1> QED
  BY <1>3, <1>5, <1>6 DEF ParentsRight, ForestTypes

LEMMA CreateFolderKeeps ==
    ASSUME ForestTypes, NEW f \in Folders, Listings!CreateFolder(f)
    PROVE  ParentsRight(parent')
<1>1. PICK rank : IsTree(parent, Parents, rank)
  BY DEF ForestTypes
<1>2. PICK p \in (DOMAIN parent) \cup {Root} :
         parent' = [g \in (DOMAIN parent) \cup {f} |-> IF g = f THEN p ELSE parent[g]]
  BY DEF Listings!CreateFolder
<1>3. f \notin DOMAIN parent /\ f # Root /\ p # f /\ f \in Parents
  BY ListingAssumption DEF Listings!CreateFolder, Parents
<1>4. /\ DOMAIN parent' = (DOMAIN parent) \cup {f} /\ parent'[f] = p
      /\ \A g \in DOMAIN parent : parent'[g] = parent[g]
  BY <1>2, <1>3
<1>5. /\ DOMAIN parent \subseteq Folders
      /\ \A g \in DOMAIN parent : parent[g] \in (DOMAIN parent) \cup {Root}
  BY DEF ForestTypes
<1>6. p \in Parents
  BY <1>5 DEF Parents
<1>7. rank \in [Parents -> Nat] /\ \A g \in DOMAIN parent : rank[parent[g]] < rank[g]
  BY <1>1 DEF IsTree
<1> DEFINE later == [rank EXCEPT ![f] = rank[p] + 1]
<1>8. /\ later \in [Parents -> Nat] /\ later[f] = rank[p] + 1
      /\ \A g \in Parents : g # f => later[g] = rank[g]
  <2>1. rank[p] + 1 \in Nat
    BY <1>6, <1>7
  <2> QED
    BY <1>3, <1>7, <2>1
<1> HIDE DEF later
<1>9. \A g \in DOMAIN parent : g # f /\ parent[g] # f /\ g \in Parents /\ parent[g] \in Parents
  BY <1>3, <1>5 DEF Parents
<1>10. \A g \in DOMAIN parent' : parent'[g] \in Parents /\ later[parent'[g]] < later[g]
  <2>1. \A g \in DOMAIN parent : later[parent[g]] < later[g] /\ parent[g] \in Parents
    BY <1>7, <1>8, <1>9
  <2>2. later[p] < later[f]
    <3>1. later[p] = rank[p] /\ rank[p] \in Nat
      BY <1>3, <1>6, <1>7, <1>8
    <3> QED
      BY <1>8, <3>1
  <2> QED
    BY <1>4, <1>6, <2>1, <2>2
<1>11. DOMAIN parent' \subseteq Parents
  BY <1>3, <1>4, <1>9
<1>12. IsTree(parent', Parents, later)
  BY <1>8, <1>10, <1>11 DEF IsTree
<1> QED
  BY <1>4, <1>5, <1>12 DEF ParentsRight

LEMMA ForestKeeps ==
    ASSUME ForestTypes, Listings!Writes
    PROVE  ForestTypes'
<1>1. ParentsRight(parent')
  <2>1. CASE UNCHANGED parent
    BY <2>1 DEF ForestTypes, ParentsRight
  <2> QED
    BY <2>1, MoveFolderKeeps, DeleteFolderKeeps, CreateFolderKeeps
       DEF Listings!Writes, Listings!Touch, Listings!Delete, Listings!Place, Listings!ArchiveAll
<1>2. /\ DOMAIN documents' \subseteq Documents /\ written \subseteq written'
      /\ \A d \in (DOMAIN documents') \ written' : d \in DOMAIN documents
  BY WritesTell DEF ForestTypes
<1>3. (DOMAIN documents') \ written' \subseteq Present
  BY <1>2 DEF ForestTypes
<1> QED
  BY <1>1, <1>2, <1>3 DEF ForestTypes, ParentsRight

\* A folder that nobody moved, nor any above it, is where it was.
LEMMA UnmovedStays ==
    ASSUME ForestTypes, Listings!Writes, NEW f, Unmoved(f)'
    PROVE  Unmoved(f) /\ Up(f)' = Up(f) /\ parent'[f] = parent[f]
<1>1. ForestTypes'
  BY ForestKeeps
<1>2. /\ f \in DOMAIN parent' /\ Listings!Chain'[f] \cap written' = {}
      /\ Cardinality(Listings!Chain'[f]) <= Depth + 1
  BY DEF Unmoved, Up
<1>3. /\ IsChain(Listings!Chain, parent, Parents) /\ IsFiniteSet(Parents) /\ Root \in Parents
      /\ Root \notin DOMAIN parent
  BY UpIs
<1>4. IsChain(Listings!Chain', parent', Parents) /\ Root \notin DOMAIN parent'
  BY <1>1, UpIsThen
<1>5. PICK rank : IsTree(parent', Parents, rank)
  BY <1>1 DEF ForestTypes
<1> DEFINE before == Listings!Chain
           after == Listings!Chain'
           new == parent'
<1>6. /\ DOMAIN new \subseteq Parents
      /\ \A g \in DOMAIN new : new[g] \in DOMAIN new \cup {Root}
  BY <1>1 DEF ForestTypes, Parents
<1>7. \A g \in (DOMAIN parent) \cup (DOMAIN new) : g \notin written' =>
         g \in DOMAIN parent /\ new[g] = parent[g]
  BY WritesTell DEF ForestTypes
<1> HIDE DEF before, after, new
<1>8. after[f] \subseteq DOMAIN new /\ f \in after[f]
  BY <1>2, <1>3, <1>4, <1>5, <1>6, ChainOf DEF after, new
<1>9. \A g \in after[f] : g \in DOMAIN parent /\ parent[g] = new[g]
  BY <1>2, <1>7, <1>8 DEF after
<1>10. before[f] = after[f]
  BY <1>2, <1>3, <1>4, <1>5, <1>6, <1>9, SameChain DEF before, after, new
<1>11. written \subseteq written'
  BY WritesTell DEF ForestTypes
<1> QED
  BY <1>2, <1>8, <1>9, <1>10, <1>11 DEF before, after, new, Unmoved, Up

LEMMA WritesKeepTree ==
    ASSUME TreeTypes, TreeRight, Listings!Writes
    PROVE  TreeTypes' /\ TreeRight'
<1>1. /\ written \subseteq written' /\ request' = request
      /\ DOMAIN documents \subseteq Documents /\ DOMAIN documents' \subseteq Documents
      /\ \A d \in (DOMAIN documents') \ written' :
            d \in DOMAIN documents /\ documents'[d] = documents[d]
  BY WritesTell DEF TreeTypes, ForestTypes
<1>2. TreeTypes'
  BY <1>1, ForestKeeps DEF TreeTypes
<1>3. \A f : Unmoved(f)' => Unmoved(f) /\ Up(f)' = Up(f) /\ parent'[f] = parent[f]
  BY UnmovedStays DEF TreeTypes
<1>4. ASSUME NEW f, Unmoved(f)'
      PROVE  OnItsWay(f)'
  <2>1. OnItsWay(f) /\ Up(f)' = Up(f)
    BY <1>3, <1>4 DEF TreeRight
  <2>2. ComesTo(f)' = ComesTo(f) /\ NodesOf(f)' = NodesOf(f)
    BY <2>1 DEF ComesTo, NodesOf
  <2> QED
    BY <1>1, <2>1, <2>2 DEF OnItsWay
<1>5. \A k : Unmoved(k.folder)' => Unmoved(k.folder) /\ (InPlace(k) => InPlace(k)')
  BY <1>3 DEF InPlace
<1>6. \A e \in Range(request.todo) : VisitRight(e)'
  <2> TAKE e \in Range(request.todo)
  <2>1. VisitRight(e)
    BY DEF TreeRight
  <2>2. Unmoved(e.folder)' => Up(e.folder)' = Up(e.folder)
    BY <1>3
  <2> QED
    BY <1>5, <2>1, <2>2 DEF VisitRight
<1>7. \A n \in Range(request.shown) : Unmoved(n.folder)' => InPlace(n)'
  BY <1>5 DEF TreeRight
<1>8. ASSUME Untouched'
      PROVE  Untouched /\ \A f : NumberOf(f)' = NumberOf(f)
  <2>1. written' \subseteq Folders /\ DOMAIN documents' = Present
    BY <1>8 DEF Untouched
  <2>2. \A d \in Documents : d \notin Folders
    BY ListingAssumption
  <2>3. \A d \in DOMAIN documents' : d \in DOMAIN documents /\ documents'[d] = documents[d]
    BY <1>1, <2>1, <2>2
  <2>4. DOMAIN documents \subseteq Present
    BY <1>1, <2>1, <2>2 DEF TreeTypes, ForestTypes
  <2>5. DOMAIN documents = DOMAIN documents'
    BY <2>1, <2>3, <2>4
  <2>6. \A f : NumberOf(f)' = NumberOf(f)
    BY <2>3, <2>5 DEF NumberOf, Listings!InFolder
  <2> QED
    BY <1>1, <2>1, <2>5, <2>6 DEF Untouched
<1>9. Untouched' => \A n \in Range(request.shown) : n.count = NumberOf(n.folder)'
  BY <1>8 DEF TreeRight
<1> QED
  BY <1>1, <1>2, <1>4, <1>6, <1>7, <1>9 DEF TreeRight

LEMMA TreeInitInv ==
    ASSUME Listings!Init
    PROVE  TreeInv
<1>1. PICK kind \in Listings!Kinds : request = Listings!Reader(kind)
  BY DEF Listings!Init
<1> SUFFICES ASSUME request.kind = "tree"
             PROVE  TreeTypes /\ TreeRight
  BY DEF TreeInv
<1> DEFINE v == Listings!Visit("children", Root, Root, 0)
<1>2. kind = "tree"
  BY <1>1 DEF Listings!Reader
<1>3. request = [kind |-> "tree", at |-> "tree", page |-> 1, total |-> 0, seen |-> <<>>,
                 shown |-> <<>>, todo |-> <<v>>]
  BY <1>1, <1>2 DEF Listings!Reader
<1>4. /\ v \in Visits /\ v.ask = "children" /\ v.folder = Root /\ v.depth = 0
  BY DEF Listings!Visit, Visits, Parents
<1> HIDE DEF v
<1>5. request \in TreeReader /\ request.at = "tree" /\ request.shown = <<>> /\ request.todo = <<v>>
  <2>1. <<v>> \in Seq(Visits) /\ <<>> \in Seq(Nodes)
    BY <1>4
  <2> QED
    BY <1>3, <2>1 DEF TreeReader
<1>6. /\ parent \in [Folders -> Folders \cup {Root}]
      /\ \A f \in Folders : parent[f] = Root \/ parent[f] < f
      /\ documents = [d \in Present |-> [folder |-> Opened, at |-> -d]] /\ written = {}
  BY DEF Listings!Init
<1>7. DOMAIN documents = Present /\ DOMAIN parent = Folders /\ Root \notin Folders
  BY <1>6, ListingAssumption
<1> DEFINE rank == [x \in Parents |-> IF x = Root THEN 0 ELSE x + 1]
<1>8. IsTree(parent, Parents, rank)
  <2>1. rank \in [Parents -> Nat] /\ DOMAIN parent \subseteq Parents
    <3>1. \A x \in Parents : (IF x = Root THEN 0 ELSE x + 1) \in Nat
      BY ListingAssumption DEF Parents
    <3> QED
      BY <1>7, <3>1 DEF Parents
  <2>2. ASSUME NEW f \in Folders
        PROVE  parent[f] \in Parents /\ rank[parent[f]] < rank[f]
    <3>1. f \in Nat /\ f \in Parents /\ parent[f] \in Parents /\ rank[f] = f + 1
      BY <1>6, <1>7, ListingAssumption DEF Parents
    <3>2. CASE parent[f] = Root
      <4>1. rank[parent[f]] = 0
        BY <3>1, <3>2
      <4> QED
        BY <3>1, <4>1
    <3>3. CASE parent[f] # Root
      <4>1. parent[f] < f /\ parent[f] \in Nat /\ rank[parent[f]] = parent[f] + 1
        BY <1>6, <3>1, <3>3, ListingAssumption DEF Parents
      <4> QED
        BY <3>1, <4>1
    <3> QED
      BY <3>1, <3>2, <3>3
  <2> HIDE DEF rank
  <2> QED
    BY <1>7, <2>1, <2>2 DEF IsTree
<1>9. ForestTypes
  BY <1>6, <1>7, <1>8, ListingAssumption DEF ForestTypes
<1>10. \A f : Unmoved(f) => OnItsWay(f)
  <2> TAKE f
  <2>1. v \in ComesTo(f)
    BY <1>4 DEF ComesTo
  <2> QED
    BY <1>5, <2>1 DEF OnItsWay, Has, HasOne
<1>11. VisitRight(v)
  BY <1>4, <1>7 DEF VisitRight, Unmoved
<1>12. Range(request.todo) = {v} /\ Range(request.shown) = {}
  BY <1>5 DEF Range
<1> QED
  BY <1>5, <1>9, <1>10, <1>11, <1>12 DEF TreeTypes, TreeRight

LEMMA TreeShows ==
    ASSUME TreeTypes, TreeRight, request.at = "end"
    PROVE  Listings!TreeComplete
<1> SUFFICES ASSUME NEW f \in DOMAIN parent, Listings!Chain[f] \cap written = {},
                    Listings!Cardinality(Listings!Chain[f]) <= Depth + 1
             PROVE  \E i \in DOMAIN request.shown :
                       LET node == request.shown[i]
                       IN  /\ \A j \in DOMAIN request.shown :
                                 request.shown[j].folder = f <=> j = i
                           /\ node.under = parent[f]
                           /\ node.depth = Listings!Cardinality(Listings!Chain[f]) - 1
                           /\ written \subseteq Folders /\ DOMAIN documents = Present =>
                                 node.count = Listings!Cardinality(Listings!InFolder(documents, f))
  BY DEF Listings!TreeComplete
<1>1. Unmoved(f)
  BY Counted DEF Unmoved, Up
<1>2. request.todo = <<>> /\ request.shown \in Seq(Nodes)
  BY DEF TreeTypes, TreeReader
<1>3. Has(request.shown, NodesOf(f)) /\ HasOne(request.shown, NodesOf(f))
  BY <1>1, <1>2 DEF TreeRight, OnItsWay, Has
<1>4. PICK i \in DOMAIN request.shown : request.shown[i] \in NodesOf(f)
  BY <1>3 DEF Has
<1> DEFINE shown == request.shown
<1>5. \A j \in DOMAIN shown : shown[j] \in Nodes /\ shown[j] \in Range(shown)
  BY <1>2, Elements
<1>6. \A j \in DOMAIN shown : shown[j].folder = f <=> j = i
  BY <1>3, <1>4, <1>5 DEF HasOne, NodesOf
<1>7. shown[i].folder = f
  BY <1>6
<1>8. InPlace(shown[i]) /\ (Untouched => shown[i].count = NumberOf(f))
  BY <1>1, <1>5, <1>7 DEF TreeRight
<1> QED
  BY <1>6, <1>7, <1>8, Counted DEF InPlace, Up, Untouched, NumberOf

\* A tree shows every folder that nobody moved, nor any above it, once, under its parent and
\* at its level, down to one level more than asked for, whatever is written between two
\* statements of build_node; and how many documents it has, while no document is written,
\* created or deleted (TreeViewHandler).  Folders never come to be in a cycle.
THEOREM TreeCompleteHolds == Spec => [](input.part = "listing" => Listings!TreeComplete)
<1> DEFINE Inv == input.part = "listing" => "kind" \in DOMAIN request /\ TreeInv
           Complete == input.part = "listing" => Listings!TreeComplete
<1>1. Init => Inv
  BY ApartInit, ListingInitInv, TreeInitInv
<1>2. Inv /\ [Next]_operationVars => Inv'
  <2> SUFFICES ASSUME input.part = "listing", "kind" \in DOMAIN request, TreeInv,
                      [Listings!Next]_listingVars
               PROVE  "kind" \in DOMAIN request' /\ TreeInv'
    BY Apart
  <2>1. CASE Listings!Reads
    <3>1. DOMAIN request' = DOMAIN request /\ request'.kind = request.kind
      BY <2>1 DEF Listings!Reads, Listings!Open, Listings!Count, Listings!List,
         Listings!ReadChildren, Listings!CountDocuments, Listings!TreeEnds
    <3>2. UNCHANGED <<documents, parent, written>>
      BY <2>1 DEF Listings!Reads
    <3>3. ASSUME request.kind = "tree"
          PROVE  Listings!ReadChildren \/ Listings!CountDocuments \/ Listings!TreeEnds
      <4>1. request.at \in {"tree", "end"}
        BY <3>3 DEF TreeInv, TreeTypes, TreeReader
      <4> QED
        BY <2>1, <4>1 DEF Listings!Reads, Listings!Open, Listings!Count, Listings!List
    <3> QED
      BY <3>1, <3>2, <3>3, ReadChildrenKeeps, CountKeeps, EndKeeps DEF TreeInv
  <2>2. CASE Listings!Writes
    <3>1. request' = request
      BY <2>2 DEF Listings!Writes
    <3> QED
      BY <2>2, <3>1, WritesKeepTree DEF TreeInv
  <2>3. CASE UNCHANGED listingVars
    <3>1. request' = request /\ UNCHANGED <<documents, parent, written>>
      BY <2>3 DEF listingVars
    <3>2. \A f : OnItsWay(f)' = OnItsWay(f)
      BY <3>1, ReadsSame DEF OnItsWay, NodesOf
    <3> QED
      BY <3>1, <3>2, ReadsSame DEF TreeInv, TreeTypes, TreeRight
  <2> QED
    BY <2>1, <2>2, <2>3 DEF Listings!Next
<1>3. Inv => Complete
  <2> SUFFICES ASSUME input.part = "listing", TreeInv, request.kind = "tree", request.at = "end"
               PROVE  Listings!TreeComplete
    BY DEF Listings!TreeComplete
  <2> QED
    BY TreeShows DEF TreeInv
<1> QED
  BY <1>1, <1>2, <1>3, PTL DEF Spec, operationVars

\* What a run checks of the listings: their pages and their trees.
THEOREM ListingsCompleteHolds == Spec => []ListingsComplete
<1> DEFINE InPages == input.part = "listing" => Listings!PagesComplete
           InTree == input.part = "listing" => Listings!TreeComplete
<1>1. InPages /\ InTree => ListingsComplete
  BY DEF ListingsComplete
<1> QED
  BY <1>1, PagesCompleteHolds, TreeCompleteHolds, PTL

-----------------------------------------------------------------------------
(* The algorithms, of every input that is tried *)

\* So the run's property holds of every environment that it tries.
THEOREM ConfigurationSoundHolds == Spec => []ConfigurationSound
<1> DEFINE Inv == input.part = "configuration" => input.env \in AnyEnvironment
<1>1. Init => Inv
  <2>1. PartsInit /\ input.part = "configuration" => input.env \in Environments
    BY DEF PartsInit, EvidenceInputs, RetrievalInputs, AnsweringInputs, MetricsInputs
  <2> QED
    BY <2>1, TriedEnvironments DEF Init, Only
<1>2. Inv /\ [Next]_operationVars => Inv'
  BY Apart
<1>3. Inv => ConfigurationSound
  BY ValidStartsHolds, AliasesAgreeHolds, VectorsFit DEF ConfigurationSound, Done
<1> QED
  BY <1>1, <1>2, <1>3, PTL DEF Spec, operationVars
\* So the metrics agree, and a better run passes, in every run of an experiment that is tried.
THEOREM MetricsSoundHolds == Spec => []MetricsSound
<1> DEFINE Inv == input.part = "metrics" => input \in MetricsInputs
<1>1. Init => Inv
  <2>1. PartsInit /\ input.part = "metrics" => input \in MetricsInputs
    BY DEF PartsInit, EvidenceInputs, RetrievalInputs, AnsweringInputs
  <2> QED
    BY <2>1 DEF Init, Only
<1>2. Inv /\ [Next]_operationVars => Inv'
  BY Apart
<1>3. Inv => MetricsSound
  BY ThreeChunks, TriedRuns, MetricsAgreeHolds, BetterStillPassesHolds DEF MetricsSound, Done
<1> QED
  BY <1>1, <1>2, <1>3, PTL DEF Spec, operationVars

\* EvidenceSound: what a search finds and what a selection takes.
THEOREM EvidenceSoundHolds == Spec => []EvidenceSound
<1> DEFINE Found == Retrieval!Retrieve(input.query, input.chunks, input.topK)
           Selected == Evidence!Select(input.query, input.chunks)
           Inv == /\ input.part = "retrieval" =>
                        input \in RetrievalInputs /\ (result = <<>> \/ result = <<Found>>)
                  /\ input.part = "evidence" =>
                        input \in EvidenceInputs /\ (result = <<>> \/ result = <<Selected>>)
<1>1. Init => Inv
  <2>1. PartsInit => /\ input.part = "retrieval" => input \in RetrievalInputs
                     /\ input.part = "evidence" => input \in EvidenceInputs
                     /\ result = <<>>
    BY DEF PartsInit, EvidenceInputs, RetrievalInputs, AnsweringInputs, MetricsInputs
  <2> QED
    BY <2>1 DEF Init, Only
<1>2. Inv /\ [Next]_operationVars => Inv'
  <2> SUFFICES ASSUME Inv, [Next]_operationVars PROVE Inv'
    OBVIOUS
  <2>1. UNCHANGED input
    BY Apart
  <2>2. \/ UNCHANGED result
        \/ /\ input.part = "retrieval" => result' = <<Found>>
           /\ input.part = "evidence" => result' = <<Selected>>
    BY DEF Next, Computes, PartsNext, Split, Select, Retrieve, Answer, Measure, Configure,
           Normalize, Extract, Launches, Evaluates, Lists, Uploads, operationVars
  <2> QED
    BY <2>1, <2>2
<1>3. Inv => EvidenceSound
  <2> SUFFICES ASSUME Inv PROVE EvidenceSound
    OBVIOUS
  <2>1. ASSUME Done("retrieval")
        PROVE  /\ Retrieval!CommonWordsFound(input.query, input.chunks, result[1])
               /\ Retrieval!FusionFair(result[1]) /\ Retrieval!NoLeapfrog(result[1])
    <3>1. input \in RetrievalInputs /\ result[1] = Found
      BY <2>1 DEF Done
    <3> QED
      BY <3>1, TriedRetrieval
  <2>2. ASSUME Done("evidence")
        PROVE  /\ Evidence!SelectionSound(input.query, input.chunks, result[1])
               /\ Evidence!FirstHitSuffices(input.query, input.chunks, result[1])
    <3>1. input \in EvidenceInputs /\ result[1] = Selected
      BY <2>2 DEF Done
    <3> QED
      BY <3>1, TriedEvidence
  <2> QED
    BY <2>1, <2>2 DEF EvidenceSound
<1> QED
  BY <1>1, <1>2, <1>3, PTL DEF Spec, operationVars

LEMMA TriedText == \A text \in Texts : \E n \in Nat : \E C : text \in [0..n - 1 -> C]
<1> TAKE text \in Texts
<1> DEFINE Basic == {"word", "space", "newline", "stop"}
           Marked == {"word", "head", "item", "question", "newline"}
           Titled == {"word", "stop", "head", "title", "numbered", "item", "newline"}
           White == {"word", "space", "newline"}
<1>1. \/ \E n \in 1..6 : text \in [0..n - 1 -> Basic]
      \/ text \in [0..5 - 1 -> Marked]
      \/ text \in [0..4 - 1 -> Titled]
      \/ text \in [0..8 - 1 -> White]
  BY DEF Texts
<1>2. CASE \E n \in 1..6 : text \in [0..n - 1 -> Basic]
  <2>1. PICK n \in 1..6 : text \in [0..n - 1 -> Basic]
    BY <1>2
  <2>2. n \in Nat
    OBVIOUS
  <2> HIDE DEF Basic
  <2> QED
    BY <2>1, <2>2
<1>3. CASE text \in [0..5 - 1 -> Marked]
  BY <1>3
<1>4. CASE text \in [0..8 - 1 -> White]
  BY <1>4
<1>5. CASE text \in [0..4 - 1 -> Titled]
  BY <1>5
<1> QED
  BY <1>1, <1>2, <1>3, <1>4, <1>5

\* SplitCovers: the chunks of a text.
THEOREM SplitCoversHolds == Spec => []SplitCovers
<1> DEFINE Chunks == Text!Split(input.text)
           Inv == input.part = "split" =>
                     input.text \in Texts /\ (result = <<>> \/ result = <<Chunks>>)
<1>1. Init => Inv
  <2>1. PartsInit /\ input.part = "split" => input.text \in Texts /\ result = <<>>
    BY DEF PartsInit, EvidenceInputs, RetrievalInputs, AnsweringInputs, MetricsInputs
  <2> QED
    BY <2>1 DEF Init, Only
<1>2. Inv /\ [Next]_operationVars => Inv'
  <2> SUFFICES ASSUME Inv, [Next]_operationVars PROVE Inv'
    OBVIOUS
  <2>1. UNCHANGED input
    BY Apart
  <2>2. UNCHANGED result \/ (input.part = "split" => result' = <<Chunks>>)
    BY DEF Next, Computes, PartsNext, Split, Select, Retrieve, Answer, Measure, Configure,
           Normalize, Extract, Launches, Evaluates, Lists, Uploads, operationVars
  <2> QED
    BY <2>1, <2>2
<1>3. Inv => SplitCovers
  <2> SUFFICES ASSUME Inv, Done("split")
               PROVE  Text!ChunksCover(input.text, result[1])
    BY DEF SplitCovers
  <2>1. input.text \in Texts /\ result[1] = Chunks
    BY DEF Done
  <2>2. PICK n \in Nat : \E C : input.text \in [0..n - 1 -> C]
    BY <2>1, TriedText
  <2>3. PICK C : input.text \in [0..n - 1 -> C]
    BY <2>2
  <2>4. Text!ChunksCover(input.text, Chunks)
    BY <2>3, SplitAssumption, SplitCoversText
  <2> QED
    BY <2>1, <2>4
<1> QED
  BY <1>1, <1>2, <1>3, PTL DEF Spec, operationVars
=============================================================================
