----------------------------- MODULE Evaluation -----------------------------
(***************************************************************************)
(* Experiments and their files: evaluation/runner, evaluation/storage and  *)
(* the readers of evaluation/service.py and evaluation/api/routes.py.      *)
(*                                                                         *)
(* A runner writes the configuration first and the summary last, each file *)
(* in place: it is opened, and so torn, then written.  It may end in       *)
(* between, by an error or with its process.  Readers list and load the    *)
(* files of any runner meanwhile, one read after the other.                *)
(*                                                                         *)
(* The content of a file is the run that wrote it; a run carries its       *)
(* workspace and the time of its configuration.                            *)
(***************************************************************************)
EXTENDS Integers, Sequences, FiniteSets, Functions

CONSTANTS
    Runs,           \* numbers, in the order in which their configurations are made
    Experiments,    \* numbers, in the order of their names
    Workspaces, Home,
    Questions,      \* of the dataset
    Limit,          \* of a listing
    Distinct,       \* whether no two runs are given the same experiment
    None, Torn

VARIABLES
    at,         \* the step of each run
    target,     \* the experiment of each run
    outcomes,   \* how many questions each run has an outcome of
    files,      \* what the directory of each experiment holds
    reader      \* one request for a listing or a run

vars == <<at, target, outcomes, files, reader>>

Artifacts == {"config", "results", "metrics", "summary"}
Writing(name) ==
    CASE name = "config" -> "write_config" [] name = "results" -> "write_results"
      [] name = "metrics" -> "write_metrics" [] name = "summary" -> "write_summary"
Ended == {"done", "raised", "crashed"}

\* Mutant: the summary is written before the metrics.
AfterFile_SummaryFirst(name) ==
    CASE name = "config" -> "load" [] name = "results" -> "summary"
      [] name = "summary" -> "metrics" [] name = "metrics" -> "done"

\* write_results, write_metrics, write_summary follow each other.
AfterFile(name) ==
    CASE name = "config" -> "load" [] name = "results" -> "metrics"
      [] name = "metrics" -> "summary" [] name = "summary" -> "done"

Here(e) == \E name \in Artifacts : files[e][name] # None

Idle == [op |-> "none", workspace |-> None, at |-> "answered", todo |-> {}, here |-> None,
         config |-> None, summary |-> None, items |-> <<>>]

Init ==
    /\ at = [r \in Runs |-> "new"] /\ target = [r \in Runs |-> None]
    /\ outcomes = [r \in Runs |-> 0]
    /\ files = [e \in Experiments |-> [name \in Artifacts |-> None]]
    /\ reader = Idle

-----------------------------------------------------------------------------
(* ExperimentRunner.run *)

\* create_config: a new identifier, or the one the caller names.
Begin(r) ==
    /\ at[r] = "new"
    /\ \E e \in Experiments :
        /\ Distinct => \A s \in Runs : target[s] # e
        /\ target' = [target EXCEPT ![r] = e]
    /\ at' = [at EXCEPT ![r] = "config"]
    /\ UNCHANGED <<outcomes, files, reader>>

\* path.write_text truncates the file before it writes it.
Open(r) ==
    /\ at[r] \in Artifacts
    /\ files' = [files EXCEPT ![target[r]][at[r]] = Torn]
    /\ at' = [at EXCEPT ![r] = Writing(at[r])]
    /\ UNCHANGED <<target, outcomes, reader>>

Write(r) ==
    \E name \in Artifacts :
        /\ at[r] = Writing(name)
        /\ files' = [files EXCEPT ![target[r]][name] = r]
        /\ at' = [at EXCEPT ![r] = AfterFile(name)]
        /\ UNCHANGED <<target, outcomes, reader>>

\* load_dataset, and the comparison of its identifier and version.
Load(r) ==
    /\ at[r] = "load"
    /\ at' = [at EXCEPT ![r] = "questions"]
    /\ UNCHANGED <<target, outcomes, files, reader>>

\* _run_question: an answer, or an error that is recorded.
Question(r) ==
    /\ at[r] = "questions" /\ outcomes[r] < Questions
    /\ outcomes' = [outcomes EXCEPT ![r] = @ + 1]
    /\ UNCHANGED <<at, target, files, reader>>

\* The metrics are aggregated over the outcomes of every question.
Score(r) ==
    /\ at[r] = "questions" /\ outcomes[r] = Questions
    /\ at' = [at EXCEPT ![r] = "results"]
    /\ UNCHANGED <<target, outcomes, files, reader>>

\* An invalid dataset, or a knowledge base that is not available, ends the run.
Raise(r) ==
    /\ at[r] \in {"load", "questions"}
    /\ at' = [at EXCEPT ![r] = "raised"]
    /\ UNCHANGED <<target, outcomes, files, reader>>

\* The process ends, also within a file.
Crash(r) ==
    /\ at[r] \notin Ended \cup {"new"}
    /\ at' = [at EXCEPT ![r] = "crashed"]
    /\ UNCHANGED <<target, outcomes, files, reader>>

-----------------------------------------------------------------------------
(* EvaluationService.list_runs, get_run *)

\* list_experiment_ids: the directories there are.
Directories == {e \in Experiments : Here(e)}

BeginList(w) ==
    /\ reader.at = "answered"
    /\ reader' = [Idle EXCEPT !.op = "list", !.workspace = w, !.at = "next", !.todo = Directories]
    /\ UNCHANGED <<at, target, outcomes, files>>

BeginGet(w, e) ==
    /\ reader.at = "answered"
    /\ reader' = IF Here(e)
                 THEN [Idle EXCEPT !.op = "get", !.workspace = w, !.at = "config", !.here = e]
                 ELSE [Idle EXCEPT !.op = "get", !.workspace = w]
    /\ UNCHANGED <<at, target, outcomes, files>>

Reading(step) ==
    /\ reader.at = step
    /\ UNCHANGED <<at, target, outcomes, files>>

\* A directory that cannot be read is left out of a listing, and ends a get.
GivesUp == [reader EXCEPT !.at = IF reader.op = "list" THEN "next" ELSE "answered",
                          !.here = None, !.config = None, !.summary = None]

Content(name) == files[reader.here][name]

\* The last name first; a directory without a configuration or a summary is passed over.
NextDirectory ==
    /\ Reading("next") /\ Len(reader.items) < Limit
    /\ \E e \in reader.todo :
        /\ \A f \in reader.todo : f <= e
        /\ reader' = IF files[e]["config"] = None \/ files[e]["summary"] = None
                     THEN [reader EXCEPT !.todo = @ \ {e}]
                     ELSE [reader EXCEPT !.todo = @ \ {e}, !.at = "config", !.here = e]

ReadConfig ==
    /\ Reading("config")
    /\ reader' = IF Content("config") \in Runs
                 THEN [reader EXCEPT !.config = Content("config"),
                                     !.at = IF reader.op = "get" THEN "home" ELSE "summary"]
                 ELSE GivesUp

\* The runs of another workspace are not shown: a listing checks this last.
AtHome == Home[reader.config] = reader.workspace

CheckHome ==
    /\ Reading("home")
    /\ reader' = IF AtHome THEN [reader EXCEPT !.at = "summary"] ELSE GivesUp

ReadSummary ==
    /\ Reading("summary")
    /\ reader' = IF Content("summary") \in Runs
                 THEN [reader EXCEPT !.summary = Content("summary"), !.at = "metrics"]
                 ELSE GivesUp

ReadMetrics ==
    /\ Reading("metrics")
    /\ LET content == Content("metrics")
           item == [config |-> reader.config, summary |-> reader.summary, metrics |-> content]
       IN  reader' = IF ~AtHome \/ content = Torn \/ (content = None /\ reader.op = "get")
                     THEN GivesUp
                     ELSE [GivesUp EXCEPT !.items = Append(@, item)]

\* The items, at most Limit of them, are sorted by the time of their configuration.
AnswerList ==
    /\ Reading("next") /\ (reader.todo = {} \/ Len(reader.items) >= Limit)
    /\ \E place \in [DOMAIN reader.items -> DOMAIN reader.items] :
        LET item(i) == reader.items[place[i]]
        IN  /\ IsInjective(place)
            /\ \A i, j \in DOMAIN place : i < j => item(i).config >= item(j).config
            /\ reader' = [reader EXCEPT !.at = "answered", !.todo = {},
                                        !.items = [i \in DOMAIN place |-> item(i)]]

-----------------------------------------------------------------------------

Run(r) ==
    Begin(r) \/ Open(r) \/ Write(r) \/ Load(r) \/ Question(r) \/ Score(r) \/ Raise(r) \/ Crash(r)

Read ==
    \/ \E w \in Workspaces : BeginList(w) \/ \E e \in Experiments : BeginGet(w, e)
    \/ NextDirectory \/ ReadConfig \/ CheckHome \/ ReadSummary \/ ReadMetrics \/ AnswerList

Next == Read \/ \E r \in Runs : Run(r)

Spec == Init /\ [][Next]_vars

-----------------------------------------------------------------------------
(* Properties *)

Shown == IF reader.at = "answered" THEN Range(reader.items) ELSE {}

\* What is shown of an experiment is the work of one run of the reader's
\* workspace that answered every question, although files are written in place,
\* read one by one, and left behind by runs that ended early.
ShownWhole ==
    \A item \in Shown :
        /\ item.summary = item.config /\ item.metrics = item.config
        /\ Home[item.config] = reader.workspace
        /\ outcomes[item.summary] = Questions

\* A listing shows the newest runs there are.
NewestListed ==
    reader.op = "list" /\ reader.at = "answered" =>
        \A e \in Experiments :
            LET c == files[e]["config"]
            IN  (c \in Runs /\ Home[c] = reader.workspace /\ at[c] = "done"
                   /\ Len(reader.items) = Limit) =>
                    \/ \E item \in Shown : item.config = c
                    \/ \A item \in Shown : item.config > c
=============================================================================
