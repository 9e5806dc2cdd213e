SPECIFICATION Spec
CONSTANTS
    Tasks = {t1}
    NoTask = NoTask
    MaxVersion = 3
    MaxAttempts = 2
    DirectOps = {}
    OneJobPerVersion = FALSE
    Faults = TRUE
INVARIANTS SupersededInert
PROPERTIES ImplementsDocIndex
CHECK_DEADLOCK FALSE
