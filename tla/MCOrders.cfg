SPECIFICATION MCSpec
CONSTANTS
    Agents = {a1}
    Team <- TeamInstance
    MaxTerms = 1
    MaxQuotes = 1
    Reviews = {"not_required", "required"}
    Executions = {e1, e2}
    Keys = {k1}
    FreshKey = FreshKey
    Operators = {o1, o2}
    Proposals = {p1, p2}
    OrderRules <- Rules
    StartStatuses = {"open", "assigned", "in_progress", "submitted"}
    BrowserWallets = {"publisher", "agent"}
    MaxVersion = 3
    MaxOrphans = 1
    Drafts <- MCDrafts
    MaxTasks = 2
    MaxClock = 2
    OwnerTabs = {e1, e2}
    OwnerWallets = {o1, o2}
    Registrable = {i1}
    MaxHistory = 4
    MaxInFlight = 2
    Context = Context
    Nobody = Nobody
    Idle = Idle
SYMMETRY Symmetry
INVARIANTS
    AppliedAtMostOnce
    PagesTellTheTruth
PROPERTIES
    ResumedByTwo
    MovedOnAgreement
    PricingFollowsTheTask
