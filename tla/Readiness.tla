----------------------------- MODULE Readiness -----------------------------
(***************************************************************************)
(* Startup, shutdown and the readiness probe of the server, with the       *)
(* Ollama provider they ask: lifespan.py, core/dependencies/providers.py,  *)
(* core/health.py, generation/providers/ollama.py and factory.py.          *)
(*                                                                         *)
(* The world around the server (Ollama and its models, the database, the   *)
(* disk, the embedding model, the stored vectors) changes until it is      *)
(* calm.  A probe is a request of many awaits, and two probes share one    *)
(* probe file; a chat asks the selected model.                             *)
(***************************************************************************)
EXTENDS Integers, FiniteSets

CONSTANTS
    Models,         \* numbers, in the order in which Ollama sorts the names
    Keys,           \* what LLM_MODEL_KEY may say: a model, or AutoKey
    AutoKey,
    NoModel,
    Probers,        \* who asks /ready at the same time
    Monitor,        \* the one of them who never stops asking
    Chatters,
    VectorStates,   \* the sets of rows the index may hold
    Unmigrated,     \* the index of a database without tables
    MayBeEmpty,     \* whether Ollama may run without any model
    MaxChanges      \* of the world, before it is calm

ASSUME ReadinessAssumption ==
    /\ Models \subseteq Nat
    /\ NoModel \notin Models /\ AutoKey \notin Models
    /\ Keys \subseteq Models \cup {AutoKey}
    /\ MayBeEmpty \in BOOLEAN

VARIABLES ollama, works, vectors, changes, calm,
          requested, phase, provider,
          pc, failed, report, held, file, linked, asked

world == <<ollama, works, vectors, changes, calm>>
server == <<requested, phase, provider>>
probes == <<pc, failed, report, file, linked>>
vars == <<world, server, probes, held, asked>>

Parts == {"database", "disk", "embedding"}

InstalledSets == IF MayBeEmpty THEN SUBSET Models ELSE (SUBSET Models) \ {{}}

-----------------------------------------------------------------------------
(* The stored vectors against the live provider *)

\* What check_index_embedding_alignment may answer: it embeds one stored chunk
\* again, one of the configured model if there is any.
Alignments ==
    IF vectors = Unmigrated \/ "database" \notin works THEN {"failed"}
    ELSE IF vectors = {} THEN {"compatible"}
    ELSE LET ours == vectors \ {"foreign"}
             Verdict(sample) == IF ours # {} /\ "other_size" \notin vectors /\ sample = "match"
                                THEN "compatible" ELSE "reindex"
         IN  (IF "embedding" \in works THEN {} ELSE {"failed"})
               \cup {Verdict(s) : s \in IF "embedding" \notin works THEN {}
                                        ELSE IF ours # {} THEN ours ELSE vectors}

-----------------------------------------------------------------------------
(* The Ollama provider *)

\* select_ollama_model: the model requested, or the first one.
Selectable == ollama.installed # {} /\ requested \in ollama.installed \cup {AutoKey}

Selection ==
    IF requested = AutoKey THEN CHOOSE m \in ollama.installed : \A n \in ollama.installed : m <= n
    ELSE requested

\* A chat with a model is answered by an Ollama that runs and has it.
Answers(model) == ollama.up /\ model \in ollama.installed

-----------------------------------------------------------------------------
(* Startup and shutdown *)

\* lifespan begins; the configuration is valid, and the container is made.
Start ==
    /\ phase \in {"down", "exited"}
    /\ phase' = "listing"
    /\ provider' = [selected |-> NoModel, closed |-> FALSE]
    /\ UNCHANGED <<world, requested, probes, asked>>

\* OllamaProvider.initialize: unreachable is survived, no usable model is fatal.
ListAtStart ==
    /\ phase = "listing"
    /\ \/ ~ollama.up /\ phase' = "preparing" /\ UNCHANGED provider
       \/ /\ ollama.up /\ Selectable
          /\ phase' = "preparing"
          /\ provider' = [provider EXCEPT !.selected = Selection]
       \/ /\ ollama.up /\ ~Selectable
          /\ phase' = "exited"
          /\ provider' = [provider EXCEPT !.closed = TRUE]
    /\ UNCHANGED <<world, requested, probes, asked>>

\* The services are built and the container is set, whatever the index holds.
Prepare ==
    /\ phase = "preparing"
    /\ phase' = "serving"
    /\ UNCHANGED <<world, requested, provider, probes, asked>>

\* Shutdown, after the server has let its requests end.
Stop ==
    /\ phase = "serving" /\ ~calm
    /\ \A p \in Probers : pc[p] = "idle"
    /\ \A c \in Chatters : asked[c] = NoModel
    /\ phase' = "down"
    /\ provider' = [provider EXCEPT !.closed = TRUE]
    /\ UNCHANGED <<world, requested, probes, asked>>

-----------------------------------------------------------------------------
(* One probe: evaluate_readiness *)

At(p, step) == pc[p] = step /\ UNCHANGED <<world, requested, phase, asked>>

\* Mutant: the last check alone decides.
Go_LastDecides(p, ok, step) ==
    /\ failed' = [failed EXCEPT ![p] = ~ok]
    /\ pc' = [pc EXCEPT ![p] = step]

Go(p, ok, step) ==
    /\ failed' = [failed EXCEPT ![p] = @ \/ ~ok]
    /\ pc' = [pc EXCEPT ![p] = step]

\* While the world is not calm, a wait may also end by its timeout.
MayEnd(ok, works_) == (ok <=> works_) \/ (~calm /\ ~ok)

BeginProbe(p) ==
    /\ At(p, "idle") /\ phase = "serving"
    /\ pc' = [pc EXCEPT ![p] = "database"]
    /\ failed' = [failed EXCEPT ![p] = FALSE]
    /\ report' = [report EXCEPT ![p] = "none"]
    /\ UNCHANGED <<provider, file, linked>>

CheckDatabase(p) ==
    /\ At(p, "database")
    /\ \E ok \in BOOLEAN : MayEnd(ok, "database" \in works) /\ Go(p, ok, "evaluation")
    /\ UNCHANGED <<provider, report, file, linked>>

\* The evaluation directory is tried with a file that another probe may remove;
\* then put: the probe file is opened, and so emptied, before it is written.
CheckEvaluation(p) ==
    /\ At(p, "evaluation")
    /\ IF "disk" \in works
       THEN /\ Go(p, TRUE, "write")
            /\ file' = "empty"
            /\ linked' = [linked EXCEPT ![p] = TRUE]
       ELSE Go(p, FALSE, "models") /\ UNCHANGED <<file, linked>>
    /\ UNCHANGED <<provider, report>>

\* A file removed meanwhile is written, but no longer found.
WriteProbeFile(p) ==
    /\ At(p, "write")
    /\ Go(p, TRUE, "get")
    /\ file' = IF linked[p] THEN "ready" ELSE file
    /\ UNCHANGED <<provider, report, linked>>

GetProbeFile(p) ==
    /\ At(p, "get")
    /\ IF file = "ready" THEN Go(p, TRUE, "delete") ELSE Go(p, FALSE, "models")
    /\ UNCHANGED <<provider, report, file, linked>>

DeleteProbeFile(p) ==
    /\ At(p, "delete")
    /\ Go(p, TRUE, "models")
    /\ file' = "none"
    /\ linked' = [q \in Probers |-> FALSE]
    /\ UNCHANGED <<provider, report>>

\* The storage is slow: the probe is given up, and its file may stay.  The thread
\* that the step began goes on in the code; here its work is done or never is.
StorageTimesOut(p) ==
    /\ pc[p] \in {"write", "get", "delete"} /\ At(p, pc[p]) /\ ~calm
    /\ Go(p, FALSE, "models")
    /\ UNCHANGED <<provider, report, file, linked>>

\* Mutant: each probe selects a model.
ListModels_SelectAgain(p) ==
    /\ At(p, "models")
    /\ \E listed \in BOOLEAN :
        /\ MayEnd(listed, ollama.up)
        /\ \/ ~listed /\ Go(p, FALSE, "embedding") /\ UNCHANGED provider
           \/ /\ listed /\ Selectable
              /\ provider' = [provider EXCEPT !.selected = Selection]
              /\ Go(p, TRUE, "ping")
           \/ listed /\ ~Selectable /\ Go(p, FALSE, "embedding") /\ UNCHANGED provider
    /\ UNCHANGED <<report, file, linked>>

\* Mutant: a model is selected when the server starts, and not again.
ListModels_NoSelection(p) ==
    /\ At(p, "models")
    /\ \E listed \in BOOLEAN :
        /\ MayEnd(listed, ollama.up)
        /\ IF listed /\ provider.selected # NoModel THEN Go(p, TRUE, "ping")
           ELSE Go(p, FALSE, "embedding")
    /\ UNCHANGED <<provider, report, file, linked>>

\* health_probe: the models are listed, and one is selected if none was yet.
ListModels(p) ==
    /\ At(p, "models")
    /\ \E listed \in BOOLEAN :
        /\ MayEnd(listed, ollama.up)
        /\ \/ ~listed /\ Go(p, FALSE, "embedding") /\ UNCHANGED provider
           \/ /\ listed /\ provider.selected # NoModel
              /\ Go(p, TRUE, "ping") /\ UNCHANGED provider
           \/ /\ listed /\ provider.selected = NoModel /\ Selectable
              /\ provider' = [provider EXCEPT !.selected = Selection]
              /\ Go(p, TRUE, "ping")
           \/ /\ listed /\ provider.selected = NoModel /\ ~Selectable
              /\ Go(p, ollama.installed = {}, "embedding") /\ UNCHANGED provider
    /\ UNCHANGED <<report, file, linked>>

Ping(p) ==
    /\ At(p, "ping")
    /\ \E ok \in BOOLEAN : MayEnd(ok, Answers(provider.selected)) /\ Go(p, ok, "embedding")
    /\ UNCHANGED <<provider, report, file, linked>>

CheckEmbedding(p) ==
    /\ At(p, "embedding")
    /\ \E ok \in BOOLEAN : MayEnd(ok, "embedding" \in works) /\ Go(p, ok, "index")
    /\ UNCHANGED <<provider, report, file, linked>>

\* The alignment is checked again, and the report is ready if nothing failed.
CheckIndex(p) ==
    /\ At(p, "index")
    /\ \E a \in Alignments : Go(p, a = "compatible", "idle")
    /\ report' = [report EXCEPT ![p] = IF failed'[p] THEN "not_ready" ELSE "ready"]
    /\ UNCHANGED <<provider, file, linked>>

-----------------------------------------------------------------------------
(* A completion: the model is read when it is asked and when it is named *)

Ask(c) ==
    /\ phase = "serving" /\ asked[c] = NoModel /\ provider.selected # NoModel
    /\ asked' = [asked EXCEPT ![c] = provider.selected]
    /\ UNCHANGED <<world, server, probes>>

Reply(c) ==
    /\ asked[c] # NoModel
    /\ asked' = [asked EXCEPT ![c] = NoModel]
    /\ UNCHANGED <<world, server, probes>>

-----------------------------------------------------------------------------
(* The world *)

Change ==
    /\ ~calm /\ changes < MaxChanges /\ changes' = changes + 1
    /\ \/ \E up \in BOOLEAN, installed \in InstalledSets :
            ollama' = [up |-> up, installed |-> installed] /\ UNCHANGED <<works, vectors>>
       \/ \E part \in Parts :
            /\ works' = IF part \in works THEN works \ {part} ELSE works \cup {part}
            /\ UNCHANGED <<ollama, vectors>>
       \/ vectors' \in VectorStates /\ UNCHANGED <<ollama, works>>
    /\ UNCHANGED <<calm, server, probes, asked>>

\* Everything works, the model in use is installed, and it stays so.
Settle ==
    /\ ~calm /\ calm' = TRUE
    /\ \E installed \in InstalledSets \ {{}} :
        /\ requested \in installed \cup {AutoKey}
        /\ provider.selected \in installed \cup {NoModel}
        /\ ollama' = [up |-> TRUE, installed |-> installed]
    /\ works' = Parts
    /\ vectors' \in VectorStates \cap {{}, {"match"}, {"match", "foreign"}}
    /\ UNCHANGED <<changes, server, probes, asked>>

-----------------------------------------------------------------------------
(* Which dependencies work now; a probe that has not failed collects *)
(* those it has lived to see                                               *)

Dependencies == Parts \cup {"llm", "index"}

Working ==
    works \cup (IF provider.selected # NoModel /\ Answers(provider.selected) THEN {"llm"} ELSE {})
          \cup (IF "compatible" \in Alignments THEN {"index"} ELSE {})

Witness ==
    held' = [p \in Probers |-> IF failed'[p] THEN {}
                               ELSE IF pc'[p] = "idle" THEN held[p]
                               ELSE IF pc[p] = "idle" THEN Working'
                               ELSE held[p] \cup Working']

Init ==
    /\ ollama \in [up : BOOLEAN, installed : InstalledSets]
    /\ works = Parts /\ vectors \in VectorStates /\ changes = 0 /\ calm = FALSE
    /\ requested \in Keys /\ phase = "down"
    /\ provider = [selected |-> NoModel, closed |-> TRUE]
    /\ pc = [p \in Probers |-> "idle"] /\ failed = [p \in Probers |-> FALSE]
    /\ report = [p \in Probers |-> "none"] /\ held = [p \in Probers |-> {}]
    /\ file = "none" /\ linked = [p \in Probers |-> FALSE]
    /\ asked = [c \in Chatters |-> NoModel]

Startup == Start \/ ListAtStart \/ Prepare

ProbeStep(p) ==
    \/ CheckDatabase(p) \/ CheckEvaluation(p)
    \/ WriteProbeFile(p) \/ GetProbeFile(p) \/ DeleteProbeFile(p)
    \/ ListModels(p) \/ Ping(p) \/ CheckEmbedding(p) \/ CheckIndex(p)

Next ==
    /\ \/ Startup \/ Stop \/ Change \/ Settle
       \/ \E p \in Probers : BeginProbe(p) \/ ProbeStep(p) \/ StorageTimesOut(p)
       \/ \E c \in Chatters : Ask(c) \/ Reply(c)
    /\ Witness

Spec == Init /\ [][Next]_vars

\* Awaits end, the server is restarted, and the monitor goes on asking.
Fairness ==
    /\ WF_vars(Startup /\ Witness)
    /\ WF_vars(BeginProbe(Monitor) /\ Witness)
    /\ \A p \in Probers : WF_vars(ProbeStep(p) /\ Witness)

FairSpec == Spec /\ Fairness

-----------------------------------------------------------------------------
(* Properties *)

TypeOK ==
    /\ ollama \in [up : BOOLEAN, installed : InstalledSets]
    /\ works \subseteq Parts /\ vectors \in VectorStates
    /\ phase \in {"down", "listing", "preparing", "serving", "exited"}
    /\ provider \in [selected : Models \cup {NoModel}, closed : BOOLEAN]
    /\ file \in {"none", "empty", "ready"}
    /\ asked \in [Chatters -> Models \cup {NoModel}]
    /\ held \in [Probers -> SUBSET Dependencies]

\* A probe that says ready has lived to see each dependency work: no answer of
\* an earlier probe, and no check cut short, stands in for one.
ReadyIsTrue ==
    \A p \in Probers : pc[p] = "idle" /\ report[p] = "ready" => held[p] = Dependencies

\* A model that was asked is still the one that the answer will name, over a
\* client that is still open, whatever probes select and Ollama installs.
AnswersNameTheirModel ==
    \A c \in Chatters : asked[c] # NoModel => asked[c] = provider.selected /\ ~provider.closed

\* Once the world is calm and the monitor probes alone, it is told ready again
\* and again, also if Ollama was away or had nothing usable when the server
\* started.
Recovers ==
    <>[](calm /\ \A p \in Probers \ {Monitor} : pc[p] = "idle") => []<>(report[Monitor] = "ready")
=============================================================================
