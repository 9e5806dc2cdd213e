------------------------------ MODULE PartsMC ------------------------------
(***************************************************************************)
(* Values for TLC: the algorithms of the program, each over its own inputs.*)
(***************************************************************************)
EXTENDS Integers, Sequences, FiniteSets, Functions, TLC

CONSTANTS
    MaxChars, MinChars, Overlap, TargetChars,
    Stopwords, Numbers, Persian, Distractors, Browsers, Pool, Cap, MaxTopK,
    Similar, MaxPrompt, Excerpt, MaxHistory, Frame, Header,
    MaxErrors, ColumnSize, PageWidth, MarginLines

VARIABLES input, result

\* Lengths are counted in characters, and a chunk may hold one.
ASSUME SplitAssumption ==
    MaxChars \in Nat \ {0} /\ MinChars \in Nat /\ Overlap \in Nat /\ TargetChars \in Nat
\* The channels bring some chunks, and few enough for millionths to tell their votes apart.
ASSUME RetrievalAssumption == Pool \in 1..900 /\ Cap \in Nat /\ MaxTopK \in Nat \ {0}
\* A rate of errors is a fraction.
ASSUME MetricsAssumption == MaxErrors \in Nat \X (Nat \ {0})

Text == INSTANCE TextParts
Evidence == INSTANCE Evidence
Retrieval == INSTANCE Retrieval
Metrics == INSTANCE Metrics
Configuration == INSTANCE Configuration

Pending == "pending"

\* Splitter: all texts over the basic classes, and those over the marks of lines.
Texts ==
    LET Over(n, classes) == [0..n - 1 -> classes]
    IN  (UNION {Over(n, {"word", "space", "newline", "stop"}) : n \in 1..6})
          \cup Over(5, {"word", "head", "item", "question", "newline"})
          \cup Over(4, {"word", "stop", "head", "title", "numbered", "item", "newline"})
          \cup Over(8, {"word", "space", "newline"})

\* Evidence and Retrieval
Line(words, question) == [words |-> words, question |-> question]

DistractorsMC == {<<{"pin"}, {"reset"}>>}

Bodies == {<<>>, <<Line(<<"key", "pin">>, TRUE)>>, <<Line(<<"key">>, FALSE)>>,
           <<Line(<<"reset">>, TRUE), Line(<<"777">>, FALSE)>>, <<Line(<<"777", "the">>, FALSE)>>}
Headings == {<<>>, <<Line(<<"key">>, FALSE)>>}
Queries == {<<Line(<<"key", "777">>, FALSE)>>, <<Line(<<"key", "pin">>, TRUE)>>}

Hit(body, heading, document, index, score) ==
    [text |-> body, heading |-> heading, document |-> document, index |-> index, score |-> score]

Hits ==
    {<<Hit(b1, h1, 1, 1, 90), Hit(b2, h2, d, 2, s)>> :
        b1, b2 \in Bodies, h1, h2 \in Headings, d \in 1..2, s \in {10, 80}}
      \cup {[i \in 1..6 |-> Hit(f[(i % 3) + 1], <<>>, 1, i, 90 - 10 * i)] : f \in [1..3 -> Bodies]}

EvidenceInputs == [part : {"evidence"}, query : Queries, chunks : Hits]

Chunk(body, heading, index, cosine, live, known) ==
    [text |-> body, heading |-> heading, document |-> 3 - index, index |-> index,
     cosine |-> cosine, live |-> live, known |-> known]

Corpora ==
    {<<Chunk(b[1], h, 1, c[1], TRUE, TRUE), Chunk(b[2], <<>>, 2, c[2], live, known),
       Chunk(b[3], <<>>, 0, c[3], TRUE, TRUE)>> :
        b \in {f \in [1..3 -> Bodies] : f[3] \in {<<>>, f[1]}}, h \in Headings,
        c \in {f \in [1..3 -> {200, 650}] : f[3] = 200},
        live \in BOOLEAN, known \in BOOLEAN}

RetrievalInputs == [part : {"retrieval"}, query : Queries, chunks : Corpora, topK : {1, 3}]

\* Answering: four places, of which three follow each other.
Places == {<<1, 1>>, <<1, 2>>, <<1, 3>>, <<2, 2>>}
TextsOf == {<<"a", "b">>, <<"b", "a", "a">>, <<"a", "c">>, <<"b", "d">>}
SimilarMC == {{<<"a", "b">>, <<"a", "c">>}}

Selections ==
    UNION {{[i \in 1..n |-> [version |-> p[i][1], index |-> p[i][2], score |-> s[i], text |-> t[i]]] :
               p \in {p \in [1..n -> Places] : IsInjective(p)},
               s \in {f \in [1..n -> 1..2] : f[1] = 1}, t \in [1..n -> TextsOf]} : n \in 1..3}

Replies == [echo : BOOLEAN, abstain : {"no", "leads", "within"}, prose : {"none", "short", "long"},
            markers : {<<>>, <<1>>, <<2, 1>>, <<7, 2>>}]

Short == {s \in Selections : Len(s) <= 2 /\ s[1].index = 2 /\ \A i \in DOMAIN s : s[i].score = 1}

AnsweringInputs ==
    [part : {"answering"}, chunks : Selections, history : {<<2, 0, 3, 2>>},
     reply : {[echo |-> FALSE, abstain |-> "no", prose |-> "long", markers |-> <<2>>]}]
      \cup [part : {"answering"}, chunks : Short, history : {<<>>}, reply : Replies]

\* Metrics: an error or a plain outcome, another one, and any third one.
Outcome(ok, abstention, expected, retrieved, cited, reply) ==
    [ok |-> ok, expectAbstention |-> abstention, expected |-> expected,
     retrieved |-> retrieved, cited |-> cited, reply |-> reply,
     ms |-> Len(retrieved) + Cardinality(cited)]

Errors == {Outcome(FALSE, a, e, <<>>, {}, "none") : a \in BOOLEAN, e \in {{}, {1, 3}}}
Endings ==
    {<<c, "completed">> : c \in {{}, {1}, {1, 2}, {1, 3}}} \cup {<<{}, "abstained">>, <<{}, "failed">>}
Fine ==
    {Outcome(TRUE, a, e, r, c[1], c[2]) :
        a \in BOOLEAN, e \in {{}, {1, 3}}, r \in {<<>>, <<1, 3>>, <<2, 3, 1>>}, c \in Endings}
Plain == {o \in Fine : o.expected # {} /\ o.retrieved # <<>> /\ o.cited \in {{}, {1}}}

MaxErrorsMC == <<1, 2>>

MetricsInputs ==
    [part : {"metrics"},
     outcomes : {<<>>} \cup {<<a, b, c>> : a \in {o \in Errors : ~o.expectAbstention},
                                         b \in Errors \cup Plain, c \in Fine},
     includeAbstain : BOOLEAN,
     threshold : {[g \in Metrics!Gates |-> f] : f \in {<<1, 2>>, <<1, 1>>}}]

\* Configuration: everything about the model, the directories, or the rest.
Good ==
    [backend |-> "mock", openaiKey |-> "absent", openaiUrl |-> "absent", llmKey |-> "absent",
     llmUrl |-> "absent", ollamaUrl |-> "set", modelKey |-> "absent", url |-> "absent",
     embedding |-> "deterministic", dimensions |-> 3, topK |-> 8, evaluation |-> "directory",
     uploads |-> "directory", bad |-> {}]

Given == {"absent", "blank", "set"}
Paths == {"blank", "file", "missing", "sealed", "directory", "readonly"}

OfModel(b, k1, u1, k2, u2, o) ==
    [Good EXCEPT !.backend = b, !.openaiKey = k1, !.openaiUrl = u1, !.llmKey = k2, !.llmUrl = u2,
                 !.ollamaUrl = o]
OfPlaces(e, u, d, f) == [Good EXCEPT !.evaluation = e, !.uploads = u, !.url = d, !.bad = f]
OfVectors(e, n, k, m) ==
    [Good EXCEPT !.embedding = e, !.dimensions = n, !.topK = k, !.modelKey = m]

Environments ==
    {OfModel(b, k1, u1, k2, u2, o) :
        b \in {"local", "api", "mock", "echo", "http", "other"},
        k1, u1, k2, u2 \in Given, o \in {"blank", "set"}}
      \cup {OfPlaces(e, u, d, f) :
              e, u \in Paths, d \in {"absent", "bare", "async", "sync", "other"},
              f \in {{}} \cup {{g} : g \in DOMAIN Configuration!Group}}
      \cup {OfVectors(e, n, k, m) :
              e \in {"deterministic", "flag", "sentence_transformers"}, n \in 2..4,
              k \in {8, 51}, m \in Given}

\* Normalization: short texts over all classes, longer ones over those of half-spaces.
Characters ==
    {"alef", "madda", "arabicYeh", "tatweel", "zwnj", "format", "diacritic", "control", "return",
     "newline", "space", "mark", "ellipsis"}
RawTexts ==
    (UNION {[1..n -> Characters] : n \in 0..3})
      \cup [1..4 -> {"alef", "zwnj", "tatweel", "space", "control"}]
      \cup [1..2 -> Characters \cup {"persianDigit", "nbsp", "fullwidth", "tab"}]

\* Pdf: pages of up to eight blocks in two columns, those of blocks of several lines, rows
\* of runs, and margins.
Box(kind, y) ==
    LET x == CASE kind = "left" -> <<5, 45>> [] kind = "right" -> <<55, 95>>
               [] kind = "full" -> <<5, 95>> [] kind = "some" -> <<30, 70>>
               [] kind = "center" -> <<44, 56>>
    IN  [x0 |-> x[1], x1 |-> x[2], y0 |-> 10 * y, y1 |-> 10 * y + 10]
Ending(bullet, end) == [bullet |-> bullet, end |-> end]
Block(kind, y, arabic, lines) == [arabic |-> arabic, lines |-> lines] @@ Box(kind, y)

Across == {<<>>, <<"right">>, <<"right", "left">>, <<"full">>, <<"some">>, <<"center">>}
InRow(kinds, y, arabic) ==
    [i \in DOMAIN kinds |-> Block(kinds[i], y, arabic, <<Ending(FALSE, "none")>>)]
Grids ==
    {InRow(a, 1, x) \o InRow(b, 0, FALSE) \o InRow(c, 2, x) \o InRow(e, 3, FALSE) :
        a, b, c, e \in Across, x \in BOOLEAN}

OneLine == {<<Ending(b, e)>> : b \in BOOLEAN, e \in {"none", "stop", "question"}}
SomeLines == OneLine \cup {a \o b : a, b \in OneLine} \cup {a \o b \o a : a, b \in OneLine}
Stacks ==
    {<<Block("full", 0, x, ab[1]), Block(k, 1, FALSE, ab[2]),
       Block("full", y, FALSE, <<Ending(FALSE, "none")>>)>> :
        ab \in (SomeLines \X OneLine) \cup (OneLine \X SomeLines),
        x \in BOOLEAN, k \in {"full", "left"}, y \in {2, 3}}

RunsOfGlyphs ==
    {[i \in 1..3 |-> [x0 |-> x[i], y0 |-> y[i], y1 |-> y[i] + 4]] :
        x \in {f \in [1..3 -> {0, 10, 20}] : IsInjective(f)}, y \in [1..3 -> {0, 1, 2, 3, 4, 6}]}

Printed == [key : {"head", "a", "b"}, length : {10}] \cup [key : {"#"}, length : {1, 2}]
HeadLine == [key |-> "head", length |-> 10]
Tall == {<<HeadLine, a, [key |-> "a", length |-> 3], b, c>> : a, b, c \in Printed}
Pages ==
    {<<a, b>> : a \in Tall, b \in UNION {[1..n -> Printed] : n \in 0..2}}
      \cup {<<a, b, <<HeadLine>>>> : a, b \in [1..2 -> Printed]}

PartsInit ==
    /\ \/ input \in [part : {"split"}, text : Texts]
       \/ input \in [part : {"normalize"}, text : RawTexts]
       \/ input \in [part : {"blocks"}, blocks : Grids]
       \/ input \in [part : {"blocks"}, blocks : Stacks]
       \/ input \in [part : {"runs"}, runs : RunsOfGlyphs, arabic : BOOLEAN]
       \/ input \in [part : {"margins"}, pages : Pages]
       \/ input \in [part : {"configuration"}, env : Environments]
       \/ input \in EvidenceInputs
       \/ input \in RetrievalInputs
       \/ input \in AnsweringInputs
       \/ input \in MetricsInputs
    /\ result = <<>>

Split == input.part = "split" /\ result' = <<Text!Split(input.text)>>
Select == input.part = "evidence" /\ result' = <<Evidence!Select(input.query, input.chunks)>>
Retrieve == input.part = "retrieval"
              /\ result' = <<Retrieval!Retrieve(input.query, input.chunks, input.topK)>>
Answer == input.part = "answering"
            /\ result' = <<Text!Turn(input.chunks, input.history, input.reply)>>

Measure ==
    /\ input.part = "metrics"
    /\ result' = <<Metrics!Passed(input.outcomes, input.includeAbstain, input.threshold)>>

Configure ==
    /\ input.part = "configuration"
    /\ result' = <<Configuration!Valid(input.env)>>

Normalize ==
    /\ input.part = "normalize"
    /\ result' = <<Text!Normalize(input.text)>>

Extract ==
    \/ input.part = "blocks" /\ result' = <<Text!PageText(input.blocks)>>
    \/ input.part = "runs" /\ result' = <<Text!BlockRows(input.runs, input.arabic)>>
    \/ input.part = "margins" /\ result' = <<Text!RemoveMargins(input.pages)>>

PartsNext ==
    /\ result = <<>>
    /\ \/ Split \/ Select \/ Retrieve \/ Answer \/ Measure \/ Configure \/ Normalize \/ Extract
    /\ UNCHANGED input

Done(part) == result # <<>> /\ input.part = part

-----------------------------------------------------------------------------
(* The properties of the modules, of every result *)

\* Splitter: no word is lost and no chunk is too long.
SplitCovers == Done("split") => Text!ChunksCover(input.text, result[1])

\* Splitter: chunks start in the order of their numbers (what the specification asks).
SplitInOrder == Done("split") => Text!ChunkOrder(result[1])

\* Evidence, Retrieval: whatever shares a word is found, fusion is fair to both channels,
\* bonuses reorder near ties only; what is selected is relevant, and the best hit is enough.
EvidenceSound ==
    /\ Done("retrieval") =>
        /\ Retrieval!CommonWordsFound(input.query, input.chunks, result[1])
        /\ Retrieval!FusionFair(result[1]) /\ Retrieval!NoLeapfrog(result[1])
    /\ Done("evidence") =>
        /\ Evidence!SelectionSound(input.query, input.chunks, result[1])
        /\ Evidence!FirstHitSuffices(input.query, input.chunks, result[1])

\* Answering: the prompt shows what it refers to, and the answer cites the prompt.
PromptFaithful ==
    Done("answering") => /\ Text!PromptSound(input.chunks, result[1])
                         /\ Text!AnswerGrounded(result[1])

\* Metrics: the numbers agree with each other, and a better run does not fail.
MetricsSound ==
    Done("metrics") =>
        /\ Metrics!MetricsAgree(input.outcomes, input.includeAbstain)
        /\ Metrics!BetterStillPasses(input.outcomes, input.includeAbstain, input.threshold)

\* Configuration: what is valid starts, under old names as under new ones.
ConfigurationSound ==
    Done("configuration") =>
        /\ Configuration!ValidStarts(input.env) /\ Configuration!AliasesAgree(input.env)
        /\ \A size \in 2..4 : Configuration!VectorsAsConfigured(input.env, size)

\* Normalization: the surface is uniform, no letter is lost, and no half-space of a word but
\* beside a control character.
TextNormal ==
    Done("normalize") =>
        /\ Text!Uniform(input.text) /\ Text!LettersKept(input.text)
        /\ Text!HalfSpacesKept(input.text) /\ Text!Settles(input.text)

\* Normalization: normalizing twice is normalizing once (what its docstring says).
Idempotent == Done("normalize") => Text!Idempotent(input.text)

\* Normalization: no half-space is lost beside a control character either.
HalfSpacesAmongControls == Done("normalize") => Text!HalfSpacesAmongControls(input.text)

\* Pdf: what is printed is read in the order of a reader, but for headers and footers.
PdfRead ==
    /\ Done("blocks") => Text!BlocksKept(input.blocks) /\ Text!AnswersApart(input.blocks)
    /\ Done("runs") => Text!RunsKept(input.runs, input.arabic)
    /\ Done("margins") => Text!BodyKept(input.pages)

\* Pdf: a question is a line of its own.
QuestionsApart == Done("blocks") => Text!QuestionsApart(input.blocks)

\* Pdf: no block is read twice.
BlocksOnce == Done("blocks") => Text!BlocksOnce(input.blocks)

\* Configuration: what is valid also runs.
ValidWorks == Done("configuration") => Configuration!ValidWorks(input.env, ColumnSize)

\* Configuration: the defaults written for blank variables count (settings.py:211).
NormalizationCounts == Done("configuration") => Configuration!NormalizationCounts(input.env)

\* Answering: no question and no directive to abstain is returned as an answer.
AnswerNoEcho == Done("answering") => Text!AnswerIsOne(result[1])
=============================================================================
