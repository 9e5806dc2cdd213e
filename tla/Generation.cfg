SPECIFICATION Spec
CONSTANTS
    k1 = k1
    k2 = k2
    k3 = k3
    w1 = w1
    w2 = w2
    Turns = {t1, t2}
    Conversations = {c1, c2}
    KnowledgeBases = {k1, k2, k3}
    Workspaces = {w1, w2}
    Home <- HomeMC
    Attempts = 2
    HistoryLimit = 2
    NoConversation = NoConversation
    Unborn = Unborn
    Gone = Gone
INVARIANTS TurnKeptWhole AnswerFollowsQuestion AfterItsHistory WorkspacesApart
PROPERTIES EveryTurnEnds
CHECK_DEADLOCK FALSE
