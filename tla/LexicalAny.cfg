SPECIFICATION Spec
CONSTANTS
    Docs = {d1, d2, d3}
    Versions = {v1}
    Searchers = {s1}
    Indexers = {i1}
    Filters <- AnyFilter
    Withdrawals = TRUE
    Faults = TRUE
    NoIndex = NoIndex
    CutFile = CutFile
INVARIANTS AnswerHasLiveSize
SYMMETRY Symmetries
