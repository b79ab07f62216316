SPECIFICATION FairSpec
CONSTANTS
    p1 = p1
    p2 = p2
    c1 = c1
    r1 = r1
    r2 = r2
    s1 = s1
    Plans <- MCPlans
    Chats <- MCChats
    Runs <- MCOneRun
    Sends <- MCSends
    RunPlan <- MCRunPlan
    TurnChat <- MCTurnChat
    Linked <- MCLinked
    Editable <- MCPlans
    Main = Main
    NoRun = NoRun
    NoSubject = NoSubject
    MaxAttempts = 1
    MaxCrashes = 1
INVARIANTS
    LiveStateHasOwner
PROPERTIES
    RestartLeavesNothingRunning
    StaleClaimEnds
