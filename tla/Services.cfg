INIT Init
NEXT Next
CONSTANTS
    Components = {"billing", "locks", "balance", "checkout", "identity", "access",
        "pool", "plugin", "breaker", "chain", "async", "tariff", "pricing",
        "experiment", "reseller", "shop bots", "bot updates", "panels",
        "settings", "proxy", "limits", "router", "family", "invoice", "sagas", "host",
        "providers", "speed", "upkeep", "audit",
        "two events", "malformed"}
    basic = basic
    pro = pro
    Subs = {1, 2}
    Users = {u1}
    Plans = {basic, pro}
    Interval <- IntervalMC
    Price <- PriceMC
    Pods = {g1, g2}
    RowsVisible = TRUE
    MaxClock = 2
    MaxFaults = 1
    MaxPlanChanges = 1
    LockThreads = {g1, g2}
    MaxLocks = 3
    Callers = {g1, g2}
    MaxCalls = 3
    Cashback = 2
    Charge = 1
    MaxAdjust = 1
    Sessions = {s1, s2}
    Methods = {m1, m2}
    Tabs = {g1, g2}
    MaxRequests = 3
    Clients = {g1, g2}
    InitData = {d1, d2}
    MaxIdentity = 4
    h1 = g1
    h2 = g2
    h3 = h3
    Staff = {a1, a2}
    FirstAdmin = a1
    Guest = guest
    Handlers = {g1, g2, h3}
    PodOf <- PodOfMC
    MaxAccess = 2
    HookCalls = {g1, g2, h3}
    PoolSize = 2
    MaxMishaps = 1
    Admins = {g1, g2}
    MaxPluginOps = 2
    MaxPluginFaults = 2
    HookCallers = {g1, g2, h3}
    FailureThreshold = 2
    HalfOpenMaxCalls = 1
    ChainLength = 3
    Undoing = {1, 2}
    MaxDispatches = 1
    MaxSwitches = 2
    AsyncPlugins = {g1, g2}
    MaxAsyncRetries = 3
    MaxAsyncFaults = 2
    Tariffs = {t1, t2}
    Editors = {g1, g2}
    Durations = {30}
    MaxEdits = 2
    MaxSyncFaults = 1
    RuleInputs <- RuleInputsMC
    PromoInputs <- PromoInputsMC
    ListPrices = {0, 199, 995}
    CharmStrategies = {"", "99"}
    QuoteCountries = {"", "RU"}
    QuoteDays = {30, 90}
    QuoteCodes = {"", "A"}
    MaxPromos = 2
    Experimenters = {g1, g2}
    VariantLists <- VariantListsMC
    UserBucket <- UserBucketMC
    ShareBase = 3
    MaxExperimentCalls = 3
    Shops = {"shop"}
    Owners = {"u"}
    Sales = {"sale1", "sale2"}
    Clerks = {g1, g2}
    SaleAmounts = {2}
    Rates = {50, 150, 200}
    MaxInt = 350
    BotShops = {"shop1", "shop2"}
    PlatformBot = "platform"
    BotTokens = {"tk1", "tk2"}
    BotSetters = {g1, g2}
    MaxBotWrites = 2
    MaxReloads = 1
    UpdateShops = {"shop1", "shop2"}
    OwnBot = "platform"
    TgUsers = {"u"}
    BotPlans = {"q1"}
    WasmPerms = {"billing:read", "billing:write", "payment:write"}
    UpdateWorkers = {g1, g2}
    MaxUpdates = 2
    MaxOutside = 1
    PanelUsers = {g1, g2}
    RulePriorities = {0, 1}
    LegacyPanel = 1
    MaxPanels = 2
    MaxPanelCalls = 3
    MaxGeoRules = 2
    SpeedHandlers = {g1, g2}
    SpeedIPs = {"ip"}
    SpeedRequests <- SpeedRequestsMC
    MaxConcurrent = 1
    SpeedTestRateLimit = 1
    SpeedTestRateLimitWindow = 2
    RandomBufSize = 3
    MaxDownloadSize = 5
    ChunkSize = 2
    MaxUploadBytes = 2
    MaxSpeedTime = 2
    MaxSpeedCalls = 4
    MaxSpeedRestarts = 1
    UpkeepPods = {g1, g2}
    NoUpkeepPod = none
    PreCreated = 1
    Lookahead = 2
    Retention = 0
    LastQuarter = 1
    MaxUpkeepFaults = 1
    MaxUpkeepRuns = 2
    AuditEntities = {"e"}
    AuditStreams = {"s"}
    SequenceTrackerTTL = 1
    MaxSequence = 2
    MaxAuditTime = 4
SYMMETRY SuiteSymmetry
VIEW SuiteView
INVARIANTS
    SubscriptionsSafe SerialUnlessEvicted EventsSafe WalletMatchesLedger CheckoutConsistent
    AccountsSafe AccessSafe QuietDrain PluginsSafe HalfOpenHasTester FailureIsCompensated
    AsyncHookSettled PlansFollowTariff OffersSafe BooksBalance TelegramSafe OutboxKept
    EdgeSafe
PROPERTIES WritesKept
CHECK_DEADLOCK FALSE
