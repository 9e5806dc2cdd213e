--------------------------- MODULE Configuration ---------------------------
(***************************************************************************)
(* From the environment to a server that can start: core/config/settings,  *)
(* database and validation, and the factories that build what was chosen   *)
(* (generation/providers/factory, indexing/providers, db/session).         *)
(*                                                                         *)
(* The environment is a record.  A text is "absent", "blank" or "set": an  *)
(* empty one is blank where the variable has a default of its own, and as  *)
(* good as absent where a legacy variable can stand in.  A directory is    *)
(* also a "file", "missing" below a parent that is writable or "sealed",   *)
(* or "readonly".  The fields whose check is only a range, an enumeration  *)
(* or not being blank are those in "bad" if they fail it.                  *)
(***************************************************************************)
EXTENDS Integers, FiniteSets, TLC

CONSTANTS
    ColumnSize,     \* of the stored vectors (code: 1024)
    MaxTopK         \* of a search (code: 50)

\* The fields whose check stands alone, with the group it is reported in.
DatabaseGroup ==
    [f \in {"POSTGRES_HOST", "POSTGRES_PORT", "POSTGRES_USER", "POSTGRES_DB", "DATABASE_POOL_SIZE",
            "DATABASE_MAX_OVERFLOW", "DATABASE_POOL_TIMEOUT", "DATABASE_POOL_RECYCLE"} |->
        "Database"]
LlmGroup == [f \in {"LLM_TIMEOUT_SECONDS", "GENERATION_MIN_EVIDENCE_SCORE"} |-> "LLM"]
EmbeddingGroup ==
    [f \in {"EMBEDDING_MODEL_KEY", "EMBEDDING_DIMENSIONS", "EMBEDDING_BATCH_SIZE",
            "RETRIEVAL_DEFAULT_TOP_K"} |-> "Embedding"]
OtherGroups ==
    [UPLOAD_MAX_FILE_SIZE_BYTES |-> "Upload", UPLOAD_MAX_BULK_FILES |-> "Upload",
     UPLOAD_SESSION_TTL_HOURS |-> "Upload", LOG_LEVEL |-> "Logging",
     BACKEND_PORT |-> "Environment", API_V1_PREFIX |-> "Environment"]

Group == DatabaseGroup @@ LlmGroup @@ EmbeddingGroup @@ OtherGroups

-----------------------------------------------------------------------------
(* Settings *)

\* Literal fields admit no other value: Settings() raises.
Loads(env) == env.backend \in {"local", "api", "mock", "echo", "http"}

Backend(name) == CASE name = "echo" -> "mock" [] name = "http" -> "api" [] OTHER -> name

\* What _normalize_llm_settings writes for a variable that is absent or blank.
Prefer(value, legacy) == IF value = "set" \/ legacy = "absent" THEN value ELSE legacy

Normalized(env) ==
    [env EXCEPT !.openaiUrl = Prefer(@, env.llmUrl),
                !.openaiKey = Prefer(@, env.llmKey),
                !.modelKey = IF @ = "set" THEN "set" ELSE "absent"]

\* It writes them under the names of the fields, which are read by their aliases
\* only, and extra names are ignored: what is set stays as the environment has it.
Settings(env) == [env EXCEPT !.backend = Backend(@)]

\* resolved_openai_base_url, resolved_openai_api_key: the legacy variable stands in
\* for one that is absent or empty.
Resolved(value, legacy) == (IF value # "absent" THEN value ELSE legacy) = "set"

\* resolved_url: the bare scheme is given an asynchronous driver.
ResolvedUrl(url) == IF url \in {"absent", "bare"} THEN "async" ELSE url

-----------------------------------------------------------------------------
(* validate_configuration *)

\* A missing directory is made.
Made(path) == IF path = "missing" THEN "directory" ELSE path

EvaluationIssues(s) ==
    {<<"Evaluation", "EVALUATION_STORAGE_ROOT">> :
        x \in {Made(s.evaluation)} \cap {"blank", "file", "sealed"}}

\* Mutant: the directory of uploads is not tried either.
UploadIssues_NoProbe(s) ==
    {<<"Upload", "FILE_STORAGE_ROOT">> : x \in {Made(s.uploads)} \cap {"blank", "file", "sealed"}}

\* Only the directory of uploads is tried with a file.
UploadIssues(s) ==
    {<<"Upload", "FILE_STORAGE_ROOT">> :
        x \in {Made(s.uploads)} \cap {"blank", "file", "sealed", "readonly"}}

DatabaseIssues(s) ==
    {<<"Database", "DATABASE_URL">> : x \in {ResolvedUrl(s.url)} \cap {"other"}}

LlmIssues(s) ==
    (IF s.modelKey = "blank" THEN {<<"LLM", "LLM_MODEL_KEY">>} ELSE {})
    \cup (IF s.backend = "local" /\ s.ollamaUrl # "set" THEN {<<"LLM", "OLLAMA_BASE_URL">>} ELSE {})
    \cup (IF s.backend = "api" /\ ~Resolved(s.openaiKey, s.llmKey)
          THEN {<<"LLM", "OPENAI_API_KEY">>} ELSE {})
    \cup (IF s.backend = "api" /\ ~Resolved(s.openaiUrl, s.llmUrl)
          THEN {<<"LLM", "OPENAI_BASE_URL">>} ELSE {})

Issues(s) ==
    {<<Group[f], f>> : f \in s.bad} \cup DatabaseIssues(s) \cup LlmIssues(s)
        \cup EvaluationIssues(s) \cup UploadIssues(s)

Valid(env) == Loads(env) /\ Issues(Settings(env)) = {}

-----------------------------------------------------------------------------
(* What is built from it *)

\* create_async_engine refuses a driver that is not asynchronous.
EngineStarts(s) == ResolvedUrl(s.url) = "async"

\* create_llm_provider: which provider it makes, or the error it raises.
Provider(s) ==
    CASE s.backend = "local" -> "ollama"
      [] s.backend = "mock" -> "echo"
      [] s.backend = "api" -> IF Resolved(s.openaiUrl, s.llmUrl) THEN "openai" ELSE "ValueError"

\* The size of the vectors of a provider, or 0 if it raises.  The first hashes, or
\* loads a model that must have the size asked for.
BgeM3Size(s, modelSize) ==
    IF s.embedding = "deterministic" \/ modelSize = s.dimensions THEN s.dimensions ELSE 0

\* The vectors of the other are cut to the size asked for.
SentenceTransformerSize(s, modelSize) == IF modelSize < s.dimensions THEN 0 ELSE s.dimensions

VectorSize(s, modelSize) ==
    IF s.embedding = "sentence_transformers" THEN SentenceTransformerSize(s, modelSize)
    ELSE BgeM3Size(s, modelSize)

\* The column takes vectors of one size.
Stores(s, modelSize) == VectorSize(s, modelSize) = ColumnSize

Writable(path) == Made(path) = "directory"

-----------------------------------------------------------------------------
(* Properties *)

\* With a configuration that passes, the provider is made, uploads can be written,
\* and the engine starts unless a driver was named that is not asynchronous.
ValidStarts(env) ==
    Valid(env) =>
        LET s == Settings(env)
        IN  /\ Provider(s) # "ValueError"
            /\ Writable(s.uploads)
            /\ s.url # "sync" => EngineStarts(s)

\* The legacy names mean what they were replaced by: echo is mock, http is api, and
\* LLM_BASE_URL and LLM_API_KEY count where the OPENAI variable is absent or empty.
AliasesAgree(env) ==
    LET Now(value, legacy) == IF value = "absent" THEN legacy ELSE value
        modern == [env EXCEPT !.backend = Backend(@),
                              !.openaiUrl = Now(@, env.llmUrl), !.llmUrl = "absent",
                              !.openaiKey = Now(@, env.llmKey), !.llmKey = "absent"]
    IN  /\ Valid(env) = Valid(modern)
        /\ Valid(env) => Provider(Settings(env)) = Provider(Settings(modern))

\* Vectors of a provider that does not raise have the size that was configured.
VectorsAsConfigured(env, modelSize) ==
    VectorSize(env, modelSize) \in {0, env.dimensions}

\* What a configuration that passes may still not do: start the engine, write
\* experiments, store a vector, or search for as many chunks as it says.
ValidWorks(env, modelSize) ==
    Valid(env) =>
        /\ EngineStarts(Settings(env)) /\ Writable(env.evaluation)
        /\ Stores(env, modelSize) /\ env.topK <= MaxTopK

\* "Empty LLM_MODEL_KEY is equivalent to auto" (core/config/settings.py:211), and
\* LLM_BASE_URL and LLM_API_KEY stand in for an OPENAI variable that is blank: what
\* the normalization writes makes no difference to what it was to replace.
NormalizationCounts(env) == Valid(env) = Valid(Normalized(env))
=============================================================================
