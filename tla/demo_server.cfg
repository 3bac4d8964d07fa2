\* One page: chats, cards, resets and changes of identity, one after another.
SPECIFICATION Spec
CONSTANTS
    t1 = t1
    t2 = t2
    Tab = {t1}
    ops = ops
    guest = guest
    Persona = {ops, guest}
    Operator = {ops}
    FirstPersona = ops
    env = env
    own = own
    Token = {env, own}
    EnvToken = env
    CallResult = {"ok", "error"}
    PlanSteps = 2
    MaxRequests = 4
    MaxCommits = 3
    MaxResets = 1
    MaxSwitches = 1
INVARIANTS TypeOK AwaitedKept ExecutedWasApproved 
PROPERTIES PlanForward RequestsEnd
CHECK_DEADLOCK FALSE
