---------------------------- MODULE OperationsMC ----------------------------
(***************************************************************************)
(* Values for TLC: the algorithms of PartsMC, the developer launcher, the  *)
(* experiments, a reader of listings and the upload drawer, each on its    *)
(* own.                                                                    *)
(***************************************************************************)
EXTENDS PartsMC

CONSTANTS
    MaxSignals,
    Runs, Experiments, Workspaces, Home, Questions, Limit, Distinct, None, Torn,
    Documents, Present, Folders, Root, Opened, PageSize, Depth, MaxWrites,
    Rows, Loops

VARIABLES
    step, shuttingDown, docker, child, known, reuse, stopFile, signals, downFailed, abandoned,
    upLeft, at, target, outcomes, files, reader,
    documents, parent, clock, request, written, left, grown, tied,
    status, running, controller, aborted, calls, row, todo, taken, versions, unheard

Launcher == INSTANCE Launcher
Evaluation == INSTANCE Evaluation
Listings == INSTANCE Listings WITH reader <- request
UploadDrawer == INSTANCE UploadDrawer WITH at <- calls

\* Files and loops are counted as they come.
ASSUME UploadAssumption == Rows \subseteq Nat /\ Loops \subseteq Nat /\ None \notin Rows

\* Neither None nor Torn is a run.
ASSUME EvaluationAssumption ==
    Questions \in Nat /\ None \notin Runs \cup Experiments /\ Torn \notin Runs /\ None # Torn

\* Documents are numbered by their age at first, folders as they are created; a page has
\* room for one at least.
ASSUME ListingAssumption ==
    /\ Documents \in SUBSET Nat /\ IsFiniteSet(Documents) /\ Present \subseteq Documents
    /\ Folders \in SUBSET Nat /\ IsFiniteSet(Folders) /\ Folders \cap Documents = {}
    /\ Root \notin Folders /\ Depth \in Nat /\ PageSize \in Nat \ {0}

HomeMC == [r \in Runs |-> "w1"]

launcherVars ==
    <<step, shuttingDown, docker, child, known, reuse, stopFile, signals, downFailed, abandoned,
      upLeft>>
evaluationVars == <<at, target, outcomes, files, reader>>
listingVars == <<documents, parent, clock, request, written, left, grown, tied>>
uploadVars ==
    <<status, running, controller, aborted, calls, row, todo, taken, versions, unheard>>

NoLauncher ==
    /\ step = "off" /\ shuttingDown = FALSE /\ docker = FALSE /\ child = <<>> /\ known = <<>>
    /\ reuse = <<>> /\ stopFile = FALSE /\ signals = 0 /\ downFailed = FALSE /\ abandoned = FALSE
    /\ upLeft = FALSE

NoEvaluation ==
    at = <<>> /\ target = <<>> /\ outcomes = <<>> /\ files = <<>> /\ reader = <<>>

NoListing ==
    /\ documents = <<>> /\ parent = <<>> /\ clock = 0 /\ request = [kind |-> "none"]
    /\ written = {} /\ left = FALSE /\ grown = FALSE /\ tied = FALSE

NoUpload ==
    /\ status = <<>> /\ running = FALSE /\ controller = None /\ aborted = {} /\ calls = <<>>
    /\ row = <<>> /\ todo = <<>> /\ taken = {} /\ versions = {} /\ unheard = {}

Only(name) == input = [part |-> name] /\ result = <<>>

Init ==
    \/ PartsInit /\ NoLauncher /\ NoEvaluation /\ NoListing /\ NoUpload
    \/ Only("launcher") /\ Launcher!Init /\ NoEvaluation /\ NoListing /\ NoUpload
    \/ Only("evaluation") /\ Evaluation!Init /\ NoLauncher /\ NoListing /\ NoUpload
    \/ Only("listing") /\ Listings!Init /\ NoLauncher /\ NoEvaluation /\ NoUpload
    \/ Only("upload") /\ UploadDrawer!Init /\ NoLauncher /\ NoEvaluation /\ NoListing

Launches ==
    /\ input.part = "launcher" /\ Launcher!Next
    /\ UNCHANGED <<input, result, evaluationVars, listingVars, uploadVars>>
Evaluates ==
    /\ input.part = "evaluation" /\ Evaluation!Next
    /\ UNCHANGED <<input, result, launcherVars, listingVars, uploadVars>>
Lists ==
    /\ input.part = "listing" /\ Listings!Next
    /\ UNCHANGED <<input, result, launcherVars, evaluationVars, uploadVars>>
Uploads ==
    /\ input.part = "upload" /\ UploadDrawer!Next
    /\ UNCHANGED <<input, result, launcherVars, evaluationVars, listingVars>>

Computes == PartsNext /\ UNCHANGED <<launcherVars, evaluationVars, listingVars, uploadVars>>

Next == Computes \/ Launches \/ Evaluates \/ Lists \/ Uploads

\* The launcher goes on, but where it runs a command in the foreground.
Spec == Init /\ [][Next]_<<input, result, launcherVars, evaluationVars, listingVars, uploadVars>>
          /\ WF_launcherVars(input.part = "launcher" /\ Launcher!Program)

-----------------------------------------------------------------------------
(* The properties of these modules *)

\* Launcher: an exit leaves nothing behind that the launcher holds.
CleanExit == input.part = "launcher" => Launcher!CleanExit

\* Launcher: no wait of its own is endless.
LauncherEnds == input.part = "launcher" => Launcher!LauncherEnds

\* Launcher: Ctrl+C stops the backend and the frontend.
CtrlCStopsServers == input.part = "launcher" => Launcher!CtrlCStopsServers

\* Launcher: Ctrl+C stops the services.
CtrlCStopsServices == input.part = "launcher" => Launcher!CtrlCStopsServices

\* Evaluation: what is shown of an experiment is one whole run.
ShownWhole == input.part = "evaluation" => Evaluation!ShownWhole

\* Listings: pages and trees miss nothing that nobody wrote.
ListingsComplete == input.part = "listing" => Listings!PagesComplete /\ Listings!TreeComplete

\* UploadDrawer: what a row says is true.
RowsTrue == input.part = "upload" => UploadDrawer!RowsTrue

\* UploadDrawer: a file is uploaded once.
UploadedOnce == input.part = "upload" => UploadDrawer!UploadedOnce

\* Listings: stronger forms that the code does not keep.
PagesCompleteAlways == input.part = "listing" => Listings!PagesCompleteAlways
SearchComplete == input.part = "listing" => Listings!SearchComplete
DepthIsLevels == input.part = "listing" => Listings!DepthIsLevels

\* Evaluation: a listing shows the newest runs.
NewestListed == input.part = "evaluation" => Evaluation!NewestListed
=============================================================================
