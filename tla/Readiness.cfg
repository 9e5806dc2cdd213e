SPECIFICATION FairSpec
CONSTANTS
    Models = {1, 2}
    Keys <- KeysMC
    AutoKey = AutoKey
    NoModel = NoModel
    Probers = {p1, p2}
    Monitor = p1
    Chatters = {c1}
    VectorStates <- VectorStatesMC
    Unmigrated = Unmigrated
    MayBeEmpty = FALSE
    MaxChanges = 1
INVARIANTS ReadyIsTrue AnswersNameTheirModel
PROPERTIES Recovers
CHECK_DEADLOCK FALSE
