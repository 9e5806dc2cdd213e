SPECIFICATION Spec
CONSTANTS
    Tasks = {t1, t2}
    NoTask = NoTask
    MaxVersion = 2
    MaxAttempts = 2
    DirectOps = {"reindex", "resume"}
    OneJobPerVersion = FALSE
    Faults = TRUE
INVARIANTS TypeOK IndexedComplete DeletedStaysEmpty
PROPERTIES IndexedLeavesByOwnWork
SYMMETRY RequestSymmetry
CHECK_DEADLOCK FALSE
