SPECIFICATION FairSpec
CONSTANTS
    Tasks = {t1, t2}
    NoTask = NoTask
    MaxVersion = 2
    MaxAttempts = 2
    DirectOps = {"resume"}
    OneJobPerVersion = FALSE
    Faults = FALSE
INVARIANTS ExtractingIsWorkedOn
PROPERTIES EveryRequestAnswered
CHECK_DEADLOCK FALSE
