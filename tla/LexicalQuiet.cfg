SPECIFICATION Spec
CONSTANTS
    Docs = {d1, d2, d3}
    Versions = {v1, v2}
    Searchers = {s1}
    Indexers = {i1}
    Filters <- Unfiltered
    Withdrawals = FALSE
    Faults = FALSE
    NoIndex = NoIndex
    CutFile = CutFile
INVARIANTS FreshWhenQuiet
SYMMETRY Symmetries
