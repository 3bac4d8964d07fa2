\* The Postgres ledger, one confirmation at a time.
SPECIFICATION Spec
CONSTANTS
    h1 = h1
    h2 = h2
    a = a
    b = b
    c1 = c1
    c2 = c2
    h3 = h3
    Handle = {h1, h2, h3}
    Reversible = {h1, h2}
    Thread = {a, b}
    ThreadOf <- MCThreadOf
    NoThread = NoThread
    NoHandle = NoHandle
    Call = {c1, c2}
    Deployments <- MCPgSerial
    MaxPending = 2
    MaxCrashes = 0
SYMMETRY CallSymmetry
CHECK_DEADLOCK FALSE
PROPERTY ExpiredMeansNotSent
