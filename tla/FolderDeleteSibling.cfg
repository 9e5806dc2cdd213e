SPECIFICATION Spec
CONSTANTS
    Folders = {f1, f2}
    Docs = {}
    Names = {a, ab}
    a = a
    ab = ab
    Extends <- OneExtends
    MaxDepth = 3
    MaxPath = 8
    Requests = {r1}
    Root = Root
    Unborn = Unborn
    Gone = Gone
PROPERTIES ImplementsForest
SYMMETRY Symmetries
CHECK_DEADLOCK FALSE
