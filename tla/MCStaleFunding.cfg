SPECIFICATION MCSpec
CONSTANTS
    Agents = {a1}
    Team <- TeamInstance
    MaxTerms = 2
    MaxQuotes = 2
    Reviews = {"not_required", "required"}
    Executions = {e1}
    Keys = {}
    FreshKey = FreshKey
    Operators = {o1, o2}
    Proposals = {p1}
    OrderRules <- Rules
    StartStatuses = {"open"}
    BrowserWallets = {"publisher", "agent"}
    MaxVersion = 2
    MaxOrphans = 1
    Drafts <- MCDrafts
    MaxTasks = 2
    MaxClock = 2
    OwnerTabs = {e1}
    OwnerWallets = {o1, o2}
    Registrable = {i1}
    MaxHistory = 4
    MaxInFlight = 2
    Context = Context
    Nobody = Nobody
    Idle = Idle
PROPERTIES
    FundedOnCurrentTerms
