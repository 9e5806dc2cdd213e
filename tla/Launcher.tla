------------------------------ MODULE Launcher ------------------------------
(***************************************************************************)
(* The developer launcher: tools/dev_launcher/launcher.py with docker.py,  *)
(* processes.py, ports.py, bootstrap.py and checks.py.                     *)
(*                                                                         *)
(* The main program walks through its steps, each of which may fail and so *)
(* end it.  A signal interrupts it anywhere: the handler shuts down and    *)
(* raises SystemExit.  So does the end of the program, by its finally      *)
(* clause, an except clause or atexit; but only the first caller of        *)
(* _shutdown does the work, and what interrupts it interrupts the work.    *)
(* A server is the process that the launcher starts, not what that starts. *)
(***************************************************************************)
EXTENDS Integers

CONSTANTS MaxSignals

VARIABLES
    step,           \* the step of the program
    shuttingDown, \* state.shutting_down
    docker,       \* whether the services of the compose file run
    child,        \* what was started, and whether it lives
    known,        \* whether state.backend, state.frontend hold it
    reuse,        \* state.reuse_backend, state.reuse_frontend
    stopFile, signals,
    downFailed,   \* docker compose down did not do its work
    abandoned,    \* a shutdown was cut short
    upLeft        \* a docker compose up that nothing waits for may still go on

vars == <<step, shuttingDown, docker, child, known, reuse, stopFile, signals, downFailed, abandoned, upLeft>>

Servers == {"backend", "frontend"}

Start(n) == IF n = "backend" THEN "start_backend" ELSE "start_frontend"
Assign(n) == IF n = "backend" THEN "assign_backend" ELSE "assign_frontend"
Await(n) == IF n = "backend" THEN "await_backend" ELSE "await_frontend"
Confirm(n) == IF n = "backend" THEN "confirm_backend" ELSE "confirm_frontend"
Stop(n) == IF n = "backend" THEN "stop_backend" ELSE "stop_frontend"
Reap(n) == IF n = "backend" THEN "reap_backend" ELSE "reap_frontend"

\* What follows a server that has been stopped.
AfterStop(n) == IF n = "frontend" THEN Stop("backend") ELSE "compose_down"

Init ==
    /\ step = "tools" /\ shuttingDown = FALSE
    /\ docker \in BOOLEAN
    /\ child = [n \in Servers |-> "none"] /\ known = [n \in Servers |-> FALSE]
    /\ reuse = [n \in Servers |-> FALSE]
    /\ stopFile \in BOOLEAN /\ signals = 0 /\ downFailed = FALSE /\ abandoned = FALSE
    /\ upLeft = FALSE

-----------------------------------------------------------------------------
(* Startup *)

Fail == step' = "leave"

\* A check passes, or the program ends.
Passes(here, next) ==
    /\ step = here
    /\ step' = next \/ Fail
    /\ UNCHANGED <<shuttingDown, docker, child, known, reuse, stopFile, signals, downFailed, abandoned, upLeft>>

ValidateTools == Passes("tools", "repository")
ValidateRepository == Passes("repository", "ports")
EnsureEngine == Passes("engine", "compose")
WaitForHealthyServices == Passes("health", "backend_deps")
EnsureBackendDeps == Passes("backend_deps", "frontend_deps")
EnsureFrontendDeps == Passes("frontend_deps", "alembic")
RunAlembic == Passes("alembic", Start("backend"))

\* What a port is found to be: free, held by what answers as ours (any server below
\* status 500 passes for the frontend), held by another program, or not to be bound.
PortStates == {"free", "ours", "foreign", "unbindable"}

ReportPorts ==
    /\ step = "ports"
    /\ \E port \in [Servers -> PortStates] :
        IF \A n \in Servers : port[n] \in {"free", "ours"}
        THEN step' = "engine" /\ reuse' = [n \in Servers |-> port[n] = "ours"]
        ELSE Fail /\ UNCHANGED reuse
    /\ UNCHANGED <<shuttingDown, docker, child, known, stopFile, signals, downFailed, abandoned, upLeft>>

\* compose_up: services may run before the command ends.
ServicesAppear ==
    /\ step = "compose" \/ upLeft
    /\ docker' = TRUE
    /\ UNCHANGED <<step, shuttingDown, child, known, reuse, stopFile, signals, downFailed, abandoned, upLeft>>

\* The command has succeeded, or failed, or been given up when its time was over.
ComposeUp ==
    /\ step = "compose"
    /\ \/ step' = "health" /\ docker' = TRUE /\ UNCHANGED upLeft
       \/ Fail /\ UNCHANGED docker /\ upLeft' \in BOOLEAN
    /\ UNCHANGED <<shuttingDown, child, known, reuse, stopFile, signals, downFailed, abandoned>>

\* spawn: the process runs before the launcher's state holds it.
Spawn(n) ==
    /\ step = Start(n)
    /\ IF reuse[n] THEN step' = Await(n) /\ UNCHANGED child
       ELSE step' = Assign(n) /\ child' = [child EXCEPT ![n] = "alive"]
    /\ UNCHANGED <<shuttingDown, docker, known, reuse, stopFile, signals, downFailed, abandoned, upLeft>>

Hold(n) ==
    /\ step = Assign(n)
    /\ step' = Await(n)
    /\ known' = [known EXCEPT ![n] = TRUE]
    /\ UNCHANGED <<shuttingDown, docker, child, reuse, stopFile, signals, downFailed, abandoned, upLeft>>

\* _wait_http_ready of the backend: it answers 200, or it has exited, or it could not
\* bind, or the time is over.  A backend to reuse may be gone, too.
AwaitBackend ==
    /\ step = Await("backend")
    /\ \/ (reuse["backend"] \/ child["backend"] = "alive") /\ step' = Start("frontend")
       \/ Fail
    /\ UNCHANGED <<shuttingDown, docker, child, known, reuse, stopFile, signals, downFailed, abandoned, upLeft>>

\* _wait_for_vite_url: the address is printed, or something answers at the usual one,
\* or the time is over, which is no error; an exit is.  One to reuse is taken at once.
AwaitVite ==
    /\ step = Await("frontend")
    /\ \/ step' = IF reuse["frontend"] THEN "ready" ELSE Confirm("frontend")
       \/ child["frontend"] = "dead" /\ Fail
    /\ UNCHANGED <<shuttingDown, docker, child, known, reuse, stopFile, signals, downFailed, abandoned, upLeft>>

\* _wait_http_ready of the frontend: something answers, or the time is over.
ConfirmFrontend == Passes(Confirm("frontend"), "ready")

\* The banner is printed; a stop file of before is removed.
Ready ==
    /\ step = "ready"
    /\ step' = "watch"
    /\ stopFile' = FALSE
    /\ UNCHANGED <<shuttingDown, docker, child, known, reuse, signals, downFailed, abandoned, upLeft>>

Asked == stopFile \/ \E n \in Servers : known[n] /\ child[n] = "dead"

\* Mutant: only the stop file ends the loop.
Watch_StopFileOnly ==
    /\ step = "watch" /\ stopFile
    /\ Fail
    /\ stopFile' = FALSE
    /\ UNCHANGED <<shuttingDown, docker, child, known, reuse, signals, downFailed, abandoned, upLeft>>

\* The loop ends by the stop file, or by the end of a server it started.
Watch ==
    /\ step = "watch" /\ Asked
    /\ Fail
    /\ stopFile' = FALSE
    /\ UNCHANGED <<shuttingDown, docker, child, known, reuse, signals, downFailed, abandoned, upLeft>>

-----------------------------------------------------------------------------
(* Shutdown *)

\* _shutdown is called: the first call does the work, later ones return.
Leave ==
    /\ step = "leave"
    /\ step' = IF shuttingDown THEN "exited" ELSE Stop("frontend")
    /\ shuttingDown' = TRUE
    /\ UNCHANGED <<docker, child, known, reuse, stopFile, signals, downFailed, abandoned, upLeft>>

Mine(n) == known[n] /\ ~reuse[n] /\ child[n] = "alive"

\* terminate: a server that lives is asked to stop...
AskToStop(n) ==
    /\ step = Stop(n)
    /\ step' = IF Mine(n) THEN Reap(n) ELSE AfterStop(n)
    /\ UNCHANGED <<shuttingDown, docker, child, known, reuse, stopFile, signals, downFailed, abandoned, upLeft>>

\* ... and killed if it has not stopped within the grace period.
ReapServer(n) ==
    /\ step = Reap(n)
    /\ step' = AfterStop(n)
    /\ child' = [child EXCEPT ![n] = "dead"]
    /\ UNCHANGED <<shuttingDown, docker, known, reuse, stopFile, signals, downFailed, abandoned, upLeft>>

\* compose_down: whatever it returns or raises, the shutdown is complete.
ComposeDown ==
    /\ step = "compose_down"
    /\ step' = "leave"
    /\ \/ docker' = FALSE /\ UNCHANGED downFailed
       \/ downFailed' = TRUE /\ docker' \in {docker, FALSE}
    /\ UNCHANGED <<shuttingDown, child, known, reuse, stopFile, signals, abandoned, upLeft>>

\* Mutant: the handler ends the program without a shutdown.
Signal_JustExits ==
    /\ step # "exited" /\ signals < MaxSignals /\ signals' = signals + 1
    /\ step' = "exited"
    /\ abandoned' = (abandoned \/ (shuttingDown /\ step # "leave"))
    /\ upLeft' = (upLeft \/ step = "compose")
    /\ UNCHANGED <<shuttingDown, docker, child, known, reuse, stopFile, downFailed>>

\* _handle_signal: _shutdown, then SystemExit, which ends what it interrupted; during
\* docker compose up, the command goes on meanwhile.
Signal ==
    /\ step # "exited" /\ signals < MaxSignals /\ signals' = signals + 1
    /\ step' = IF shuttingDown THEN "exited" ELSE Stop("frontend")
    /\ shuttingDown' = TRUE
    /\ abandoned' = (abandoned \/ (shuttingDown /\ step # "leave"))
    /\ upLeft' = (upLeft \/ step = "compose")
    /\ UNCHANGED <<docker, child, known, reuse, stopFile, downFailed>>

-----------------------------------------------------------------------------
(* The world *)

ServerExits(n) ==
    /\ child[n] = "alive" /\ child' = [child EXCEPT ![n] = "dead"]
    /\ UNCHANGED <<step, shuttingDown, docker, known, reuse, stopFile, signals, downFailed, abandoned, upLeft>>

StopFileAppears ==
    /\ step \in {"ready", "watch"} /\ ~stopFile /\ stopFile' = TRUE
    /\ UNCHANGED <<step, shuttingDown, docker, child, known, reuse, signals, downFailed, abandoned, upLeft>>

\* Steps that run a command for as long as it takes.
Foreground == EnsureBackendDeps \/ EnsureFrontendDeps \/ RunAlembic

\* The others: what they wait for has a timeout.
Program ==
    \/ ValidateTools \/ ValidateRepository \/ ReportPorts
    \/ EnsureEngine \/ ComposeUp \/ WaitForHealthyServices
    \/ AwaitBackend \/ AwaitVite \/ ConfirmFrontend
    \/ Ready \/ Watch \/ Leave \/ ComposeDown
    \/ \E n \in Servers : Spawn(n) \/ Hold(n) \/ AskToStop(n) \/ ReapServer(n)

Next ==
    \/ Program \/ Foreground \/ Signal
    \/ ServicesAppear \/ StopFileAppears \/ \E n \in Servers : ServerExits(n)

Spec == Init /\ [][Next]_vars

\* The program goes on, but where it runs a command in the foreground.
Fairness == WF_vars(Program)

FairSpec == Spec /\ Fairness

-----------------------------------------------------------------------------
(* Properties *)

TypeOK ==
    /\ step \in {"tools", "repository", "ports", "engine", "compose", "health", "backend_deps",
                "frontend_deps", "alembic", "ready", "watch", "leave", "compose_down", "exited"}
               \cup UNION {{Start(n), Assign(n), Await(n), Confirm(n), Stop(n), Reap(n)} :
                             n \in Servers}
    /\ child \in [Servers -> {"none", "alive", "dead"}]

Exited == step = "exited"

\* However the program ends, the servers it holds have ended and the services are down,
\* unless a second signal cut the shutdown short, docker compose down failed, or a
\* docker compose up that a signal or its timeout interrupted still goes on.  A server
\* that was started when a signal fell, and not yet assigned, is not held.
CleanExit ==
    Exited /\ ~abandoned => /\ \A n \in Servers : ~Mine(n)
                            /\ docker => downFailed \/ upLeft

\* "Press **Ctrl+C** to stop the backend and frontend and run `docker compose down`"
\* (docs/FIRST_RUN.md:26): no server goes on, whenever the one signal falls.
CtrlCStopsServers ==
    Exited /\ ~abandoned => \A n \in Servers : child[n] # "alive"

\* The same sentence, of the services: none runs when docker compose down succeeded.
CtrlCStopsServices == Exited /\ ~abandoned /\ docker => downFailed

\* Startup ends in the watch loop or in an exit, unless a command in the foreground
\* never ends; from the loop, a stop file and the end of a server that was started
\* lead to the exit, as shutdown does.
LauncherEnds ==
    /\ \/ <>(step = "watch" \/ Exited)
       \/ \E s \in {"backend_deps", "frontend_deps", "alembic"} : <>[](step = s)
    /\ (step = "watch" /\ Asked) ~> Exited
    /\ shuttingDown ~> Exited
=============================================================================
