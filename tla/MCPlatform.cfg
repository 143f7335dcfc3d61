SPECIFICATION MCSpec
SYMMETRY MCSymmetry
CONSTANTS
    p1 = p1
    p2 = p2
    v1 = v1
    v2 = v2
    e1 = e1
    e2 = e2
    \* QueenOrchestrator
    Callers = {p1, p2}
    Runtimes = {e1, e2}
    Agents = {"q", "a", "b", "c"}
    Queen = "q"
    ModelOf <- MCModelServing
    Selectable = {"a", "b", "c"}
    Offers <- MCOffers
    Amendments <- MCAmendments
    Attempts = {1}
    MaxCalls = 2
    Nobody = Nobody
    \* AgentRunner
    Pollers = {p1, p2}
    Leases = {"l1", "l2", "l3"}
    Registered <- MCRegistered
    OfflineAgents = {"o"}
    LeaseAgent <- MCLeaseAgent
    LeaseModel <- MCLeaseModel
    MaxConcurrency = 2
    MaxOffers = 4
    \* StreamRuntime
    Keys = {"pub", "own"}
    ScopeOf <- MCScopeOf
    Nonces = {"n"}
    Window = 1
    Stamps = {0, 3}
    MaxTime = 3
    Manifests <- MCManifests
    Wants <- MCWants
    QueenAuthorized = TRUE
    MaxRuns = 2
    MaxDeltas = 1
    \* RiskPricing
    Publisher = "pub"
    Visitors = {"pub", "x"}
    Place <- MCPlace
    Terms <- MCTerms
    Assessed <- MCAssessed
    Pieces = 1
    FeeBps = 600
    Lifetime = 1
    Slots = {1}
    Assessments = {1}
    MaxHour = 1
    MaxQuotes = 2
    MaxPressed = 2
    \* AgentRouting
    Candidates = {"a", "b", "c", "d"}
    ModelTag <- MCModelTag
    FirstSeen <- MCFirstSeen
    Outlay <- MCOutlay
    Fits = {"a", "b", "c", "d"}
    OwnerOnly = {}
    CallerScope = "public"
    Shuffle <- MCShuffle
    ByName <- MCByName
    Kinds <- MCKinds
    Advices <- MCAdvices
    Policy <- MCPolicy
    Marks = {40, 80}
    MaxDay = 1
    MaxScores = 1
    Restless = {"b"}
    \* Trainer
    MIN_TOTAL_SAMPLES = 4
    MIN_SAMPLES_PER_CLASS = 2
    MIN_UNIQUE_REQUESTS = 3
    MIN_REQUESTS_PER_CLASS = 1
    MAX_REQUEST_SHARE = 60
    CV_FOLDS = 2
    MIN_FOLD_CLASS_SAMPLES = 0
    MIN_TEMPORAL_SAMPLES = 1
    MIN_TEMPORAL_CLASS_SAMPLES = 1
    MIN_TEMPORAL_GROUPS = 1
    TrainingRuns = {"r1", "r2"}
    Metrics = {"auc"}
    MaxSamples = 4
    MaxRequests = 3
    \* ModelRegistry
    Versions = {v1, v2}
    Processes = {p1, p2}
    Recommended <- MCRecommended
    Audits <- MCAudits
    MaxEpoch = 2
    \* PlanningConsole
    Owner = "pub"
    Wallets = {"pub", "x"}
    PlanningEnabled = TRUE
    MaxVersion = 2
    MaxRevision = 1
    MaxFlying = 2
    MaxReads = 2
    \* PerformancePipeline
    PageLoads = {e1, e2}
    LcpValues = {10, 30, 999}
    LcpBound = 100
    MaxFaults = 1
    MaxReceives = 2
    RunWindow = 2
    Tasks = {1, 2}
    \* AgentChat
    Shown <- MCShown
    Strangers <- MCStrangers
    MaxBytes = 1
    RuntimeConfigured = TRUE
    MaxTurns = 2
    MaxPieces = 2
INVARIANTS
    LeaseAnsweredOnce ServedOncePerSignature FundingRestsOnTheQuote SelectionIsFair
    HoldoutFollowsTraining ReportsAccountedFor RepliesAreTheirOwn
PROPERTIES ReviewedWorkBinds OnlyReviewedModelsServe OneDecisionPerReading
CHECK_DEADLOCK FALSE
