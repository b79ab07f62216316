SPECIFICATION FairSpec
CONSTANTS
    p1 = p1  p2 = p2
    s1 = s1  s2 = s2
    g1 = g1  g2 = g2
    r1 = r1  r2 = r2  r3 = r3
    t1 = t1  t2 = t2
    x1 = x1
    NoPlan = NoPlan  NoRun = NoRun  NoGeneration = NoGeneration
    Plans = {p1}
    Threads = {t1, t2}
    Generations = {g1, g2}
    Sessions = {s1}
    Runs = {r1}
    Stages = {x1}
    SessionOf <- OneSession
    Home <- OneHome
    Needs <- SecondNeedsFirst
    Collides <- NoPrerequisite
    PlanningMax = 1  GlobalMax = 2
    SessionMax = 1  ProviderMax = 2
    MaxCommands = 3  MaxCrashes = 0
PROPERTY OldDispatcherRetires
CHECK_DEADLOCK FALSE
