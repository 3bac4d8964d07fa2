\* One thread, one request: up to three runs, interrupts, and every collaborator failing.
SPECIFICATION Spec
CONSTANTS
    plan = plan
    read = read
    door = door
    barred = barred
    phantom = phantom
    Tool <- MCTool
    PlanTool = plan
    VerdictOf <- MCVerdictOf
    Turns <- MCTurns
    MaxIterations = 3
    StepLimit = 3
    MaxToolFailures = 2
    CompactThrashLimit = 2
    SubagentSpend = 1
    NoSnapshot = NoSnapshot
    WithControl = {TRUE}
    ChatWhilePending = FALSE
    MaxUsers = 1
    MaxRuns = 3
INVARIANTS TypeOK Transactional PoolBounded
PROPERTIES OnlyADecisionSettles ImplementsThread
CHECK_DEADLOCK FALSE
