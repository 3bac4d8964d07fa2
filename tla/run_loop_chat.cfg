\* The user message is committed before the run, whatever the thread waits for.
SPECIFICATION Spec
CONSTANTS
    plan = plan
    read = read
    door = door
    barred = barred
    phantom = phantom
    Tool <- MCTool
    PlanTool = plan
    VerdictOf <- MCVerdictOf
    Turns <- MCFewTurns
    MaxIterations = 2
    StepLimit = 1
    MaxToolFailures = 2
    CompactThrashLimit = 0
    SubagentSpend = 0
    NoSnapshot = NoSnapshot
    WithControl = {TRUE}
    ChatWhilePending = TRUE
    MaxUsers = 2
    MaxRuns = 3
INVARIANT GateHolds
CHECK_DEADLOCK FALSE
