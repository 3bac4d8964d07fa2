\* Two batches of at most two concurrent calls, then the confirmation.
SPECIFICATION Spec
CONSTANTS
    Caller = {"c1", "c2"}
    Worker = {"w1", "w2"}
    Nobody = "nobody"
    MaxInFlight = 1
    Chunk = {"row1", "row2", "table", "secret", "gist", "para"}
    NoChunk = "none"
    Parent <- MCParent
    Level <- MCLevel
    Clearance <- MCClearance
    Summary = {"gist"}
    Sourced = {"row1", "row2", "para", "gist", "secret"}
    HitList <- MCHitList
    Scoring <- MCScoring
    TopK = 3
    MaxQueries = 2
    RenderLimit = 2
    HasRewriter = TRUE
    Word <- MCWord
    Number <- MCNumber
    NoNumber = NoNumber
    NaN = NaN
    NoBound = NoBound
    Opening = {"on", "open"}
    Irreversible = {"FEE"}
    Device = {"u1", "u12", "l12", "gate"}
    NoDevice = "no device"
    BadId = "bad id"
    NoName = "no name"
    SystemOf <- MCSystemOf
    Systems <- MCSystems
    NameOf <- MCNameOf
    Exact <- MCExact
    DoorDevice = {"gate"}
    TypeOf <- MCTypeOf
    Dictionary <- MCDictionary
    SystemFor <- MCSystemFor
    Umbrella = {"lifts"}
    RegionOf <- MCRegionOf
    NoRegion = "anywhere"
    RawCode = {"park:device:list", "park:device:ctrl", "park:record", "park:life", "park:kb", "park:unknown"}
    Mapping <- MCMapping
    Role = {"ops", "staff", "guest"}
    DeniedTo <- MCDeniedTo
    DeniedToAll = {}
    Sessions <- MCSessions
INVARIANTS ToolTypeOK PermitsBalanced LoadedOnce  OnlyPermitted  ReportMatchesStore FoundWherever
CHECK_DEADLOCK FALSE
