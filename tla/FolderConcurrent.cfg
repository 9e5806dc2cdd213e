SPECIFICATION Spec
CONSTANTS
    Folders = {f1, f2}
    Docs = {d1}
    Names = {a}
    a = a
    ab = ab
    Extends <- Unrelated
    MaxDepth = 2
    MaxPath = 4
    Requests = {r1, r2}
    Root = Root
    Unborn = Unborn
    Gone = Gone
INVARIANTS NoOrphans
SYMMETRY Symmetries
CHECK_DEADLOCK FALSE
