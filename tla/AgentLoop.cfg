SPECIFICATION FairSpec
CONSTANTS
    TheChat = c
    Chats = {c}
    Runs = {r1, r2}
    Steers = {s1}
    NoRun = NoRun
    RunChat <- MCRunChat
    SteerChat <- MCSteerChat
    MaxIterations = 1
    MaxEmptyRetries = 1
    MaxAttempts = 2
INVARIANTS
    NoOrphanSteer
    TranscriptMatchesAnswer
    CompletedRunHeardItsSteers
    SoleRunIsRegistered
    
PROPERTIES
    
    EveryRunEnds
    EverySteerSettles
CHECK_DEADLOCK FALSE
