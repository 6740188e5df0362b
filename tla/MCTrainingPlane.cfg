CONSTANTS
    TrainHost = {1}
    Captures = 2
    Span = 5
    GapWindows = 4
    L = 1
    K = 2
    ValOneIn = 3
    MarginWindows = 2
    MergeGap = 1
    Horizons = {1, 3}
    NegativeCap = 1
    MaxAttacked = 3
    FlowTimeout = 1
    FinCloses = 2
    MinPackets = 2
    MaxPackets = 4
    MaxGap = 1
    Peers = {1, 2, 3}
    LastDayWindow = 3
    MaxDayFlows = 3
    MaxDayPackets = 1
    CaptureHosts = {1, 2, 3}
    LastSlot = 5
    ContextLength = 2
    HorizonLength = 2
    MaxShownHosts = 2
    MaxShownWindows = 3
    Candidates = 3
    Configs = {"c1", "c2"}
    RegimeOf <- MCRegimeOf
    Members = 2
    Scores = {1, 3}
    Epochs = 3
    Patience = 1
    MaxRuns = 3
    MaxKills = 1
    Grain = 1
    HeadScores = {5, 9}
    Float16 <- MCFloat16
    RoundingError = 2
    HorizonK = 2
    MaxEnsemble = 2
    Host = 1
    EventPool <- MCEventPool
    MaxInWindow = 3
    MaxHappened = 5
    MaxWindows = 4
    MaxGapWindows = 1
    ElevatedFanout = 1
    DegreeCap = 2
    LastT = 6
    StageRanks = {0, 1, 2}
    OriginHistory = 1
    OriginHorizon = 2
    Streak = 2
    EpisodeGap = 1
    CampaignGap = 4
    PreOnset = 2
    MaxMissing = 1
    Labels = {"a", "b", "c"}
    LabelRegime <- MCLabelRegime
    LabelComponents <- MCLabelComponents
    HeadWidth <- MCHeadWidth
    OnsetReadsContext = TRUE
    EnsembleSeeds <- MCSeeds
    SeedChoices <- MCSeedChoices
    Poolings = {"max"}
    TableSize = 3
    MaxExperiments = 2
    MaxExperimentKills = 1
    Move <- MCMove
    Rows = 3
    ContextWindows = 3
    Steps = 2
    MemberCount = 2
    SamplesPerMember = 2
    ChunkRows = 2
    StateClamp = 2
    NoiseDraws <- MCDraws
    Histories <- MCHistories
    Futures <- MCFutures
    HostRank <- MCHostRank
    LastRow = 6
    Shuffles <- MCShuffles
    AttackSets <- MCAttackSets
    SilentSets <- MCSilentSets
    StageAt <- MCStageAt
    TrailingWindows = 3
    LabelHorizon = 2
    HeadHorizons <- MCHorizons
    MergedGap = 1
    PosRepeat = 2
    NegRatio = 1
    HardShare <- MCHardShare
    EvalSplits = {"test", "holdout"}
    SplitRows <- MCSplitRows
    BeforeFirstAttack <- MCEarlyRows
    Future <- MCFuture
    ConfigChoices <- MCConfigChoices
    MemberSeeds <- MCSeeds
    Asked <- MCAsked
    SampleCounts = {3}
    FixedSamples = 2
    EvalCaps = {2}
    Slopes = {0, 2}
    EarlierMetadata <- MCEarlierMetadata
    MaxSpent = 3
SPECIFICATION PlaneSpec
INVARIANTS SplitsAreSound FlowsAreMaximalRuns NoFeatureLooksAhead
           VectorsDescribeTheirWindows RankedAtOneInstant CheckpointsAreSound ScoresAreOfOneSimulation
           SamplesAreOneRow EvaluationIsSound
CHECK_DEADLOCK FALSE
