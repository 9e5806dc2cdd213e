-------------------------- MODULE ReadinessProofs --------------------------
(***************************************************************************)
(* For any number of models, probes and chats: a probe that says ready has *)
(* seen every dependency work, and a reply names the model that was asked. *)
(***************************************************************************)
EXTENDS Readiness, FiniteSetTheorems, WellFoundedInduction, TLAPS

ProbeSteps == {"idle", "database", "evaluation", "write", "get", "delete", "models", "ping",
               "embedding", "index"}

\* The types of what the proofs below follow.
Types ==
    /\ ollama \in [up : BOOLEAN, installed : InstalledSets]
    /\ works \subseteq Parts /\ vectors \in VectorStates
    /\ requested \in Keys
    /\ phase \in {"down", "listing", "preparing", "serving", "exited"}
    /\ provider \in [selected : Models \cup {NoModel}, closed : BOOLEAN]
    /\ pc \in [Probers -> ProbeSteps]
    /\ failed \in [Probers -> BOOLEAN]
    /\ report \in [Probers -> {"none", "ready", "not_ready"}]
    /\ file \in {"none", "empty", "ready"}
    /\ asked \in [Chatters -> Models \cup {NoModel}]
    /\ held \in [Probers -> SUBSET Dependencies]

\* Models are numbers in the order of their names: of some models one is first.
LEMMA FirstModel ==
    ASSUME NEW S \in SUBSET Nat, S # {}
    PROVE  \E m \in S : \A n \in S : m <= n
<1>1. PICK R : IsWellFoundedOn(R, Nat) /\ \A x, y \in Nat : y < x => <<y, x>> \in R
  <2> DEFINE R == OpToRel(<, Nat)
  <2>1. IsWellFoundedOn(R, Nat)
    BY NatLessThanWellFounded
  <2>2. \A x, y \in Nat : y < x => <<y, x>> \in R
    BY DEF OpToRel
  <2> HIDE DEF R
  <2> QED
    BY <2>1, <2>2
<1>2. PICK m \in S : \A y \in S : ~ (<<y, m>> \in R)
  BY <1>1, WFMin
<1>3. \A n \in S : ~ (n < m)
  BY <1>1, <1>2
<1> QED
  BY <1>3

\* What is selected is installed.
LEMMA SelectionInstalled ==
    ASSUME Types, Selectable
    PROVE  Selection \in ollama.installed /\ Selection \in Models
<1>1. ollama.installed \in SUBSET Nat /\ ollama.installed \subseteq Models
  BY ReadinessAssumption DEF ReadinessAssumption, Types, InstalledSets
<1>2. CASE requested = AutoKey
  <2>1. \E m \in ollama.installed : \A n \in ollama.installed : m <= n
    BY <1>1, FirstModel DEF Selectable
  <2> QED
    BY <1>1, <1>2, <2>1 DEF Selection
<1>3. CASE requested # AutoKey
  BY <1>1, <1>3 DEF Selection, Selectable
<1> QED
  BY <1>2, <1>3

LEMMA WorkingTyped ==
    ASSUME works \subseteq Parts
    PROVE  Working \subseteq Dependencies
BY DEF Working, Dependencies

\* The steps of a probe, apart from what they do to the probe file.
LEMMA GoTypes ==
    ASSUME Types, NEW p \in Probers, NEW ok \in BOOLEAN, NEW step \in ProbeSteps, Go(p, ok, step)
    PROVE  pc' \in [Probers -> ProbeSteps] /\ failed' \in [Probers -> BOOLEAN]
BY DEF Types, Go

Moves(p) == BeginProbe(p) \/ ProbeStep(p) \/ StorageTimesOut(p)

LEMMA MoveTypes ==
    ASSUME Types, NEW p \in Probers, Moves(p)
    PROVE  /\ UNCHANGED <<world, requested, phase, asked>>
           /\ provider' \in [selected : Models \cup {NoModel}, closed : BOOLEAN]
           /\ pc' \in [Probers -> ProbeSteps]
           /\ failed' \in [Probers -> BOOLEAN]
           /\ report' \in [Probers -> {"none", "ready", "not_ready"}]
           /\ file' \in {"none", "empty", "ready"}
<1> USE DEF At, ProbeSteps
<1>2. CASE BeginProbe(p)
  BY <1>2 DEF Types, BeginProbe
<1>3. CASE CheckDatabase(p)
  BY <1>3, GoTypes DEF Types, CheckDatabase
<1>4. CASE CheckEvaluation(p)
  BY <1>4, GoTypes DEF Types, CheckEvaluation
<1>5. CASE WriteProbeFile(p)
  BY <1>5, GoTypes DEF Types, WriteProbeFile
<1>6. CASE GetProbeFile(p)
  BY <1>6, GoTypes DEF Types, GetProbeFile
<1>7. CASE DeleteProbeFile(p)
  BY <1>7, GoTypes DEF Types, DeleteProbeFile
<1>8. CASE StorageTimesOut(p)
  BY <1>8, GoTypes DEF Types, StorageTimesOut
<1>9. CASE ListModels(p)
  BY <1>9, GoTypes, SelectionInstalled DEF Types, ListModels
<1>10. CASE Ping(p)
  BY <1>10, GoTypes DEF Types, Ping
<1>11. CASE CheckEmbedding(p)
  BY <1>11, GoTypes DEF Types, CheckEmbedding
<1>12. CASE CheckIndex(p)
  BY <1>12, GoTypes DEF Types, CheckIndex
<1> QED
  BY <1>2, <1>3, <1>4, <1>5, <1>6, <1>7, <1>8, <1>9, <1>10, <1>11, <1>12 DEF Moves, ProbeStep

LEMMA StepTypes ==
    ASSUME Types, [Next]_vars
    PROVE  Types'
<1> DEFINE RestTyped == /\ ollama \in [up : BOOLEAN, installed : InstalledSets]
                        /\ works \subseteq Parts /\ vectors \in VectorStates
                        /\ requested \in Keys
                        /\ phase \in {"down", "listing", "preparing", "serving", "exited"}
                        /\ provider \in [selected : Models \cup {NoModel}, closed : BOOLEAN]
                        /\ pc \in [Probers -> ProbeSteps]
                        /\ failed \in [Probers -> BOOLEAN]
                        /\ report \in [Probers -> {"none", "ready", "not_ready"}]
                        /\ file \in {"none", "empty", "ready"}
                        /\ asked \in [Chatters -> Models \cup {NoModel}]
<1>1. ASSUME NEW p \in Probers, Moves(p) PROVE RestTyped'
  BY <1>1, MoveTypes DEF Types, world
<1>2. ASSUME Start PROVE RestTyped'
  BY <1>2 DEF Types, Start, world, probes
<1>3. ASSUME ListAtStart PROVE RestTyped'
  BY <1>3, SelectionInstalled DEF Types, ListAtStart, world, probes
<1>4. ASSUME Prepare \/ Stop PROVE RestTyped'
  BY <1>4 DEF Types, Prepare, Stop, world, probes
<1>5. ASSUME Change PROVE RestTyped'
  BY <1>5 DEF Types, Change, server, probes
<1>6. ASSUME Settle PROVE RestTyped'
  BY <1>6 DEF Types, Settle, server, probes
<1>7. ASSUME NEW c \in Chatters, Ask(c) \/ Reply(c) PROVE RestTyped'
  BY <1>7 DEF Types, Ask, Reply, world, server, probes
<1>8. ASSUME Witness, works' \subseteq Parts PROVE held' \in [Probers -> SUBSET Dependencies]
  <2>1. Working' \subseteq Dependencies
    BY <1>8 DEF Working, Dependencies
  <2> QED
    BY <1>8, <2>1 DEF Types, Witness
<1>9. CASE Next
  <2>1. RestTyped'
    BY <1>1, <1>2, <1>3, <1>4, <1>5, <1>6, <1>7, <1>9 DEF Next, Startup, Moves
  <2>2. held' \in [Probers -> SUBSET Dependencies]
    BY <1>8, <1>9, <2>1 DEF Next
  <2> QED
    BY <2>1, <2>2 DEF Types
<1>10. CASE UNCHANGED vars
  BY <1>10 DEF Types, vars, world, server, probes
<1> QED
  BY <1>9, <1>10

LEMMA InitTypes == Init => Types
<1>1. {} \subseteq Parts /\ NoModel \in Models \cup {NoModel} /\ {} \in SUBSET Dependencies
  OBVIOUS
<1> QED
  BY <1>1 DEF Init, Types, ProbeSteps

THEOREM ReadinessTypes == Spec => []Types
BY InitTypes, StepTypes, PTL DEF Spec
-----------------------------------------------------------------------------
\* While a chat waits the server serves, with an open client, the model asked.
Answering ==
    /\ phase \in {"listing", "preparing", "serving"} => ~provider.closed
    /\ \A c \in Chatters : asked[c] # NoModel => phase = "serving" /\ asked[c] = provider.selected

\* A probe changes the provider only to select where none was selected.
LEMMA MoveKeepsSelected ==
    ASSUME Types, NEW p \in Probers, Moves(p)
    PROVE  /\ provider'.closed = provider.closed
           /\ provider.selected # NoModel => provider'.selected = provider.selected
BY DEF Types, Moves, ProbeStep, BeginProbe, CheckDatabase, CheckEvaluation, WriteProbeFile, GetProbeFile,
       DeleteProbeFile, StorageTimesOut, ListModels, Ping, CheckEmbedding, CheckIndex

LEMMA StepAnswering ==
    ASSUME Types, Answering, [Next]_vars
    PROVE  Answering'
<1> USE DEF Answering
<1>1. ASSUME NEW p \in Probers, Moves(p) PROVE Answering'
  BY <1>1, MoveTypes, MoveKeepsSelected
<1>2. CASE Start
  BY <1>2 DEF Types, Start
<1>3. CASE ListAtStart
  BY <1>3 DEF Types, ListAtStart
<1>4. CASE Prepare
  BY <1>4 DEF Types, Prepare
<1>5. CASE Stop
  BY <1>5 DEF Types, Stop
<1>6. CASE Change \/ Settle
  BY <1>6 DEF Types, Change, Settle, server
<1>7. ASSUME NEW c \in Chatters, Ask(c) \/ Reply(c) PROVE Answering'
  BY <1>7 DEF Types, Ask, Reply, server
<1> QED
  BY <1>1, <1>2, <1>3, <1>4, <1>5, <1>6, <1>7 DEF Next, Startup, Moves, vars, server

\* The model that a chat asked is the one its answer names, over a client that
\* is still open: probes select a model only where none was, and the server
\* stops only when nobody waits.
THEOREM AnswersNameTheirModelHolds == Spec => []AnswersNameTheirModel
<1>1. Init => Answering
  BY DEF Init, Answering
<1>2. Types /\ Answering /\ [Next]_vars => Answering'
  BY StepAnswering
<1>3. Answering => AnswersNameTheirModel
  BY DEF Answering, AnswersNameTheirModel
<1> QED
  BY <1>1, <1>2, <1>3, ReadinessTypes, PTL DEF Spec
-----------------------------------------------------------------------------
\* The dependencies that a probe at this step has found to work.
Passed(step) ==
    {d \in Dependencies :
        \/ d = "database"  /\ step \notin {"idle", "database"}
        \/ d = "disk"      /\ step \notin {"idle", "database", "evaluation"}
        \/ d = "llm"       /\ step \in {"embedding", "index"}
        \/ d = "embedding" /\ step = "index"}

\* A probe that has not failed has seen at work what it has checked, and what
\* works now.
Seen ==
    \A p \in Probers :
        /\ pc[p] # "idle" => report[p] = "none"
        /\ pc[p] # "idle" /\ ~failed[p] => Working \subseteq held[p] /\ Passed(pc[p]) \subseteq held[p]
        /\ report[p] = "ready" => ~failed[p] /\ held[p] = Dependencies

\* A check that succeeds finds its dependency at work: with no model installed
\* at all, the listing alone would pass.
LEMMA CheckSees ==
    ASSUME ~MayBeEmpty, Types, NEW p \in Probers, ProbeStep(p) \/ StorageTimesOut(p), ~failed'[p]
    PROVE  /\ pc[p] # "idle" /\ ~failed[p]
           /\ pc'[p] # "idle" => /\ report'[p] = report[p]
                                 /\ Passed(pc'[p]) \subseteq Passed(pc[p]) \cup Working
           /\ pc'[p] = "idle" => Dependencies = Passed(pc[p]) \cup Working
<1> USE DEF At, Go, MayEnd
<1> DEFINE Goal == /\ pc[p] # "idle" /\ ~failed[p]
                   /\ pc'[p] # "idle" => /\ report'[p] = report[p]
                                         /\ Passed(pc'[p]) \subseteq Passed(pc[p]) \cup Working
                   /\ pc'[p] = "idle" => Dependencies = Passed(pc[p]) \cup Working
<1>0. works \subseteq Working /\ Working \subseteq Dependencies
  BY DEF Types, Working, Dependencies
<1>1. CASE CheckDatabase(p)
  BY <1>0, <1>1 DEF Types, CheckDatabase, Passed
<1>2. CASE CheckEvaluation(p)
  BY <1>0, <1>2 DEF Types, CheckEvaluation, Passed
<1>3. CASE WriteProbeFile(p)
  BY <1>3 DEF Types, WriteProbeFile, Passed
<1>4. CASE GetProbeFile(p)
  BY <1>4 DEF Types, GetProbeFile, Passed
<1>5. CASE DeleteProbeFile(p)
  BY <1>5 DEF Types, DeleteProbeFile, Passed
<1>6. CASE StorageTimesOut(p)
  BY <1>6 DEF Types, StorageTimesOut, Passed
<1>7. CASE ListModels(p)
  <2>1. ollama.installed # {}
    BY DEF Types, InstalledSets
  <2> QED
    BY <1>7, <2>1 DEF Types, ListModels, Passed
<1>8. CASE Ping(p)
  <2>1. provider.selected \in Models => provider.selected # NoModel
    BY ReadinessAssumption DEF ReadinessAssumption
  <2>2. ollama.installed \subseteq Models
    BY DEF Types, InstalledSets
  <2>3. Answers(provider.selected) => "llm" \in Working
    BY <2>1, <2>2 DEF Answers, Working
  <2> QED
    BY <1>8, <2>3 DEF Types, Ping, Passed
<1>9. CASE CheckEmbedding(p)
  BY <1>0, <1>9 DEF Types, CheckEmbedding, Passed
<1>10. CASE CheckIndex(p)
  <2>1. ~failed[p] /\ pc'[p] = "idle" /\ pc[p] = "index" /\ "compatible" \in Alignments
    BY <1>10 DEF Types, CheckIndex
  <2>2. "index" \in Working
    BY <2>1 DEF Working
  <2>3. Dependencies = Passed("index") \cup Working
    BY <1>0, <2>2 DEF Passed, Dependencies, Parts
  <2> QED
    BY <2>1, <2>3
<1> QED
  BY <1>1, <1>2, <1>3, <1>4, <1>5, <1>6, <1>7, <1>8, <1>9, <1>10 DEF ProbeStep

LEMMA StepSeen ==
    ASSUME ~MayBeEmpty, Types, Types', Seen, [Next]_vars
    PROVE  Seen'
<1>0. Working' \subseteq Dependencies
  BY DEF Types, Working, Dependencies
<1>1. ASSUME Witness, NEW q \in Probers, pc'[q] = pc[q], failed'[q] = failed[q], report'[q] = report[q]
      PROVE  /\ pc'[q] # "idle" => report'[q] = "none"
             /\ pc'[q] # "idle" /\ ~failed'[q] => Working' \subseteq held'[q] /\ Passed(pc'[q]) \subseteq held'[q]
             /\ report'[q] = "ready" => ~failed'[q] /\ held'[q] = Dependencies
  BY <1>1 DEF Seen, Witness, Passed
<1>2. ASSUME Witness, NEW p \in Probers, Moves(p) PROVE Seen'
  <2>1. \A q \in Probers \ {p} : pc'[q] = pc[q] /\ failed'[q] = failed[q] /\ report'[q] = report[q]
    BY <1>2 DEF Types, Moves, ProbeStep, BeginProbe, CheckDatabase, CheckEvaluation, WriteProbeFile,
                GetProbeFile, DeleteProbeFile, StorageTimesOut, ListModels, Ping, CheckEmbedding,
                CheckIndex, Go
  <2>2. ASSUME BeginProbe(p)
        PROVE  /\ pc'[p] # "idle" => report'[p] = "none"
               /\ pc'[p] # "idle" /\ ~failed'[p] => Working' \subseteq held'[p] /\ Passed(pc'[p]) \subseteq held'[p]
               /\ report'[p] = "ready" => ~failed'[p] /\ held'[p] = Dependencies
    <3>1. pc[p] = "idle" /\ pc'[p] = "database" /\ failed'[p] = FALSE /\ report'[p] = "none"
      BY <2>2 DEF Types, BeginProbe, At
    <3>2. held'[p] = Working' /\ Passed("database") = {}
      BY <1>2, <3>1 DEF Witness, Passed
    <3> QED
      BY <3>1, <3>2
  <2>3. ASSUME ProbeStep(p) \/ StorageTimesOut(p)
        PROVE  /\ pc'[p] # "idle" => report'[p] = "none"
               /\ pc'[p] # "idle" /\ ~failed'[p] => Working' \subseteq held'[p] /\ Passed(pc'[p]) \subseteq held'[p]
               /\ report'[p] = "ready" => ~failed'[p] /\ held'[p] = Dependencies
    <3>1. /\ pc[p] # "idle"
          /\ pc'[p] # "idle" => report'[p] = report[p]
          /\ pc'[p] = "idle" => report'[p] = IF failed'[p] THEN "not_ready" ELSE "ready"
      BY <2>3 DEF Types, ProbeStep, CheckDatabase, CheckEvaluation, WriteProbeFile,
                  GetProbeFile, DeleteProbeFile, StorageTimesOut, ListModels, Ping, CheckEmbedding,
                  CheckIndex, Go, At
    <3>2. CASE failed'[p]
      BY <3>1, <3>2 DEF Seen
    <3>3. CASE ~failed'[p]
      <4>1. ~failed[p] /\ Working \subseteq held[p] /\ Passed(pc[p]) \subseteq held[p]
        BY <2>3, <3>1, <3>3, CheckSees DEF Seen
      <4>2. CASE pc'[p] # "idle"
        <5>1. Passed(pc'[p]) \subseteq held[p]
          BY <2>3, <3>3, <4>1, <4>2, CheckSees
        <5>2. held'[p] = held[p] \cup Working'
          BY <1>2, <3>1, <3>3, <4>2 DEF Witness
        <5> QED
          BY <3>1, <4>2, <5>1, <5>2 DEF Seen
      <4>3. CASE pc'[p] = "idle"
        <5>1. held'[p] = held[p] /\ held[p] \subseteq Dependencies
          BY <1>2, <3>1, <3>3, <4>3 DEF Witness, Types
        <5>2. Dependencies \subseteq held[p]
          BY <2>3, <3>3, <4>1, <4>3, CheckSees
        <5> QED
          BY <3>1, <3>3, <4>3, <5>1, <5>2
      <4> QED
        BY <4>2, <4>3
    <3> QED
      BY <3>2, <3>3
  <2> QED
    BY <1>1, <1>2, <2>1, <2>2, <2>3 DEF Moves, Seen
<1>3. CASE UNCHANGED vars
  BY <1>3 DEF Seen, vars, world, server, probes, Working, Answers, Alignments
<1>4. ASSUME Witness, UNCHANGED <<pc, failed, report>> PROVE Seen'
  BY <1>1, <1>4 DEF Seen
<1>5. ASSUME Witness, Startup \/ Stop \/ Change \/ Settle \/ \E c \in Chatters : Ask(c) \/ Reply(c)
      PROVE  Seen'
  BY <1>4, <1>5 DEF Startup, Start, ListAtStart, Prepare, Stop, Change, Settle, Ask, Reply, probes
<1> QED
  BY <1>2, <1>3, <1>4, <1>5 DEF Next, Moves

\* A probe that says ready has seen the database, the disk, the language model,
\* the embedding model and the index at work since it began, whatever the others
\* do with the probe file and however the world changes, while Ollama has a model.
THEOREM ReadyIsTrueHolds ==
    ASSUME ~MayBeEmpty
    PROVE  Spec => []ReadyIsTrue
<1>1. Init => Seen
  BY DEF Init, Seen
<1>2. Types /\ Types' /\ Seen /\ [Next]_vars => Seen'
  BY StepSeen
<1>3. Seen => ReadyIsTrue
  BY DEF Seen, ReadyIsTrue
<1> QED
  BY <1>1, <1>2, <1>3, ReadinessTypes, PTL DEF Spec
=============================================================================
