SPECIFICATION FairSpec
CONSTANTS
    c1 = c1  c2 = c2
    t1 = t1  t2 = t2
    k1 = k1  k2 = k2
    d1 = d1
    NoTurn = NoTurn  NoChild = NoChild
    Chats = {c1, c2}
    Turns = {t1, t2}
    Children = {k1, k2}
    Kickoffs = {}
    TurnChat <- MCTurnChat
    ChildTurn <- TwoFamilies
    Limits = {1}
    GateMax = 1
    StoppedChats = {c1}
    MaxSemaphores = 1
PROPERTIES
    StopEndsTheTurn
    EveryChildSettles
CHECK_DEADLOCK FALSE
