SPECIFICATION Spec
CONSTANTS
    Tool <- MCTool
    Batch <- MCBatch
    KeepFirst = 1
    KeepRecent = 1
    ThrashLimit = 2
    MaxUsers = 3
    MaxObjects = 9
PROPERTY AssembleReadsOnly
CHECK_DEADLOCK FALSE
