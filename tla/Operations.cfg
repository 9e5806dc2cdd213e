SPECIFICATION Spec
CONSTANTS
    MaxChars = 4
    MinChars = 2
    Overlap = 2
    TargetChars = 3
    Stopwords = {"the"}
    Numbers = {"777"}
    Persian = {"pin", "reset"}
    Distractors <- DistractorsMC
    Browsers = {"reset"}
    Pool = 3
    Cap = 2
    MaxTopK = 50
    Similar <- SimilarMC
    MaxPrompt = 12
    Excerpt = 4
    MaxHistory = 2
    Frame = 3
    Header = 2
    MaxErrors <- MaxErrorsMC
    ColumnSize = 3
    PageWidth = 100
    MarginLines = 2
    MaxSignals = 2
    Runs = {1, 2}
    Experiments = {1, 2}
    Workspaces = {"w1", "w2"}
    Home <- HomeMC
    Questions = 1
    Limit = 1
    Distinct = TRUE
    None = None
    Torn = Torn
    Documents = {1, 2, 3}
    Present = {1, 2}
    Folders = {11, 12, 13}
    Root = 0
    Opened = 11
    PageSize = 1
    Depth = 1
    MaxWrites = 2
    Rows = {1, 2, 3}
    Loops = {1, 2, 3}
INVARIANTS
    SplitCovers
    EvidenceSound
    PromptFaithful
    MetricsSound
    ConfigurationSound
    TextNormal
    PdfRead
    CleanExit
    ShownWhole
    ListingsComplete
    RowsTrue
PROPERTIES LauncherEnds
CHECK_DEADLOCK FALSE
