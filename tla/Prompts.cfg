SPECIFICATION FairSpec
CONSTANTS
    c1 = c1
    c2 = c2
    q1 = q1
    a1 = a1
    a2 = a2
    Chats <- MCChats
    Approvals <- MCApprovals
    Questions <- MCQuestions
    Keys <- MCApprovals
    CallKey <- MCCallKey
    PromptChat <- MCPromptChat
    Before <- MCBefore
    NoPrompt = NoPrompt
    MaxCrashes = 1
INVARIANTS
    
    PendingQuestionHasWaiter
    AnswerIsOnRecord
    QuestionBlocksVisibly
PROPERTIES
    SettledRowStays
    ImplementsPromptDesk
    EveryPromptEnds
CHECK_DEADLOCK FALSE
