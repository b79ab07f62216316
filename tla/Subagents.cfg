SPECIFICATION Spec
CONSTANTS
    c1 = c1  c2 = c2
    t1 = t1  t2 = t2
    k1 = k1  k2 = k2
    d1 = d1
    NoTurn = NoTurn  NoChild = NoChild
    Chats = {c1}
    Turns = {t1}
    Children = {k1, k2}
    Kickoffs = {d1}
    TurnChat <- MCTurnChat
    ChildTurn <- OneFamily
    Limits = {1, 2}
    GateMax = 1
    StoppedChats = {c1}
    MaxSemaphores = 2
INVARIANTS
    TypeOK
    
    PermitsAddUp
    OpenRowHasChild
CHECK_DEADLOCK FALSE
