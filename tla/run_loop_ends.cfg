\* Two requests, with and without a control capability: accounting, and the end of every run.
SPECIFICATION FairSpec
CONSTANTS
    plan = plan
    read = read
    door = door
    barred = barred
    phantom = phantom
    Tool <- MCTool
    PlanTool = plan
    VerdictOf <- MCVerdictOf
    Turns <- MCFewTurns
    MaxIterations = 2
    StepLimit = 1
    MaxToolFailures = 2
    CompactThrashLimit = 0
    SubagentSpend = 0
    NoSnapshot = NoSnapshot
    WithControl = {TRUE, FALSE}
    ChatWhilePending = FALSE
    MaxUsers = 2
    MaxRuns = 3
INVARIANT NoRefund
PROPERTY Termination
CHECK_DEADLOCK FALSE
