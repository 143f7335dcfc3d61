SPECIFICATION MCSpec
SYMMETRY MCSymmetry
CONSTANTS
    s1 = s1
    s2 = s2
    A = A
    B = B
    \* CommercialLedger
    Children = {c1, c2}
    AgentOf <- MCAgentOf
    ChildBudget <- MCChildBudget
    Publisher = "pub"
    Platform = "plat"
    Budget = 3
    Fee = 0
    Deposit <- MCDeposit
    Offered <- MCOffered
    PayoutIds = {"x1", "x2"}
    TakenElsewhere = {"x2"}
    \* MatchSelection
    Ranking <- MCRanking
    ByKey <- MCByKey
    ModelOf <- MCModelOf
    Newcomers = {"b"}
    Words = {0, 1}
    Requests = {1}
    Refreshers = {s1, s2}
    MaxClock = 2
    MaxVersion = 3
    MaxStamp = 1
    \* WalletSessions
    Tabs = {s1, s2}
    Accounts = {A, B}
    MaxLogins = 2
    MaxSwitches = 1
    \* RecoveryReplay
    Originals = {e1, e2}
    Bodies = {b1, b2}
    RequestIds = {r1}
    Relays = {w1, w2}
    MaxLeases = 2
    \* TransactionIntents
    TaskPublisher = "pub"
    TaskAgents = {"a", "b"}
    Committee = {}
    Arbiter = "arb"
    TaskBudget = 100
    Methods = {"assignAgent", "resolveWorkflowTask", "stake"}
    Amounts = {1}
    Spenders = {"workflowEscrow"}
    Requesters = {s1, s2}
    Visited = {"assigned", "in_progress"}
    Holders = {"pub"}
    MaxRevision = 2
    MaxReviews = 2
    MaxIntents = 2
    MaxSent = 1
    \* Reputation
    o1 = o1
    o2 = o2
    o3 = o3
    Orders = {o1, o2, o3}
    AgentOfOrder <- MCAgentOfOrder
    OwnerOf <- MCOwnerOf
    Reviewer = "pub"
    Submissions = {s1, s2}
    Verdicts <- MCVerdicts
    OrderValue <- MCOrderValue
    MaxEvents = 2
    OrderSignal <- MCOrderSignal
    EarningsSignal <- MCEarningsSignal
    MaxAge = 4
    \* WalletChallenges
    Wallets = {A, B}
    ChallengeIds = {k1}
    Browsers = {s1, s2}
    ChallengeLife = 2
    SessionLife = 2
    RecentWindow = 1
    MaxInstant = 3
    \* GovernanceReleases
    People = {"own", "op", "rev"}
    Grants <- MCGrants
    Desks = {s1, s2}
    Sends <- MCSends
    Parties = {"own"}
    Owner = "own"
    FirstReviewer = "rev"
    Contents = {"u", "v"}
    Owners = {"op"}
    MaxKeys = 3
    MaxMoves = 1
    \* YieldVault
    Deployer = "own"
    Stakers = {"ann"}
    Quantities = {1, 2}
    FaucetAmount = 2
    Cooldown = 3
    AirdropAmount = 1
    RatePercent = 50
    Year = 1
    MaxDay = 3
    MaxSupply = 3
INVARIANTS
    LedgerSettles OneIdentity ReplayedOnce HandedAsIssued ReviewsCount
    OneSessionPerSignature GovernedByTwo PrincipalIsSafe
PROPERTIES OnlyTheDrawnAgent
CHECK_DEADLOCK FALSE
