SPECIFICATION ServingSpec
CONSTANTS
    RiskThreshold = 2
    CloseAfter = 2
    LeadTimeM = 2
    Ts = {1, 2, 3, 4, 5, 6, 7}
    Risk = {1, 2, 3}
    Sockets = {s1}
    Tenants = {"t1", "t2"}
    Hosts = {"h1", "h2"}
    QueueSize = 2
    MaxMissed = 2
    MaxForecasts = 2
    MaxFilters = 1
    MaxOwed = 2
    Requests = {1, 2, 3}
    Uploads = {1, 2}
    Limit <- MCLimit
    WindowMs <- MCWindowMs
    MaxTime = 5
    MaxDelay = 1
    MaxRedisErrors = 1
    Groups = {"features", "persister"}
    Pending = {0, 1, 2}
    Elapsed = {1, 2}
    WarnAfter = 2
    MaxSamples = 3
    Signups = {"r1", "r2"}
    EmailOf <- MCEmailOf
    AccessTTL = 1
    RefreshTTL = 2
    MaxLogin = 1
    MaxNow = 3
    MaxIssued = 2
    MaxSockets = 1
    HistoryHosts = {1, 2}
    LastWindow = 3
    ContextL = 2
    PageLimit = 1
    MaxUpsets = 1
    MaxObserved = 3
    UploadIds = {u1, u2}
    MaxChunks = 3
    CapChunks = 2
    MaxUploadFaults = 1
    Length <- MCLength
    KeyOf <- MCKeyOf
    BuiltIn = "base"
    MaxRequests = 2
    MaxMounts = 3
    MaxRows = 3
    CsvChunk = 2
    PACKET_BATCH = 2
    PipeLines = 2
    StderrLines = 1
    DRIVERS = {"a", "b"}
    DriverValues = {0, 1, 3}
    LEVEL_WEIGHT <- MCWeight
    SLOPE_WEIGHT <- MCWeight
    INTERCEPT <- MCIntercept
    DRIVER_BOUNDS <- MCBounds
    DRIFT_BASE = 0
    Squash <- MCSquash
    Sigmoid <- MCSigmoid
    ONE = 10
    StubK = 4
    StubThreshold = 6
    StubLeadM = 2
    ContextMax = 3
    PoolThreads = {t1, t2}
    Features = {"seen", "dropped"}
    DroppedFeatures = {"dropped"}
    RawContexts <- MCRawContexts
    ClampValues = {4}
    ScaleOf <- MCScaleOf
    MoveOf <- MCMoveOf
    Noise <- MCNoise
    RiskOf <- MCRiskOf
    PredictorL = 2
    K = 2
    ConfiguredK = 2
    AskedSteps = {1, 2, 3}
    NoStep = 0
    StateLimit = 2
    Unit = 3
    SampleIds = {1, 2}
    CfSeed = 7
    MaxAsked = 2
    Victim = "v"
    PeerOrder <- MCPeerOrder
    OnVictimSubnet = {"q", "x"}
    DayTables <- MCDays
    AnchorOnset = 5
    LeadIn = 1
    NWindows = 3
    ReplayContext = 2
    NeedQuiet = 2
    Limits = {0, 2, 4}
    CaptureTables <- MCTables
    History = 2
    Horizon = 2
    ScoreRange = {0, 1, 2}
    Flag = 1
    BatchSize = 3
    OriginCaps = {0, 4}
    MaxAlerts = 2
    AlertRun = 2
    EpisodeMergeGap = 1
    StageDists <- MCStageDists
    MappingK = 3
    MinProb = 5
INVARIANTS LifecycleIsSound SocketsAreServed LimitIsKept
           GrowingIsSustainedGrowth AccountsAreSound AnswersAreWhole QueuedIsWhole
           IndicesFitTheCapture ParsingIsFaithful AnswersAreSound
PROPERTIES HistoryIsFinal FilterToldGoverns VanishedPeerIsClosed
CHECK_DEADLOCK FALSE
