SPECIFICATION Spec
CONSTANTS
    p1 = p1  p2 = p2
    r1 = r1  r2 = r2
    n1 = n1  n2 = n2
    NoName = NoName
    Plans = {p1, p2}
    Requests = {r1, r2}
    PlanOf <- MCPlanOf
    Names = {n1, n2}
    Candidates <- MCCandidates
    ReplacesEmpty = FALSE
    MaxDeaths = 1
INVARIANTS
    
    ChangeHasOnePlan
    NoPartialChange
    HeardCancelIsHonoured

    
CHECK_DEADLOCK FALSE
