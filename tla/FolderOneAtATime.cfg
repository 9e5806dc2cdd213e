SPECIFICATION Spec
CONSTANTS
    Folders = {f1, f2, f3, f4}
    Docs = {d1}
    Names = {a, ab}
    a = a
    ab = ab
    Extends <- Unrelated
    MaxDepth = 3
    MaxPath = 8
    Requests = {r1}
    Root = Root
    Unborn = Unborn
    Gone = Gone
INVARIANTS PathsDerived SiblingNamesUnique
PROPERTIES ImplementsForest
SYMMETRY Symmetries
CHECK_DEADLOCK FALSE
