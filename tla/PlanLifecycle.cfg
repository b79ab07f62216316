SPECIFICATION Spec
CONSTANTS
    p1 = p1
    p2 = p2
    c1 = c1
    r1 = r1
    r2 = r2
    s1 = s1
    Plans <- MCTwoPlans
    Chats <- MCChats
    Runs <- MCRuns
    Sends <- MCNone
    RunPlan <- MCOwnPlan
    TurnChat <- MCTurnChat
    Linked <- MCLinked
    Editable <- MCNone
    Main = Main
    NoRun = NoRun
    NoSubject = NoSubject
    MaxAttempts = 2
    MaxCrashes = 0
INVARIANTS
    RunningPlanHasRun
    FinishedPlanIsEarned
    OneActiveRunPerChat
