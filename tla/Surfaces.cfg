CONSTANTS
    MaxSends = 2
    MaxKeys = 2
    Handle = {"ann", "bob"}
    Payable = {"ann", "bob"}
    Amount = {1, 2}
    Balance = 1
    MaxLookups = 2
    MaxMounts = 1
    Wallet = {"usd", "eur", "gbp"}
    WalletBalance <- OneEach
    MaxEdits = 3
    Digits <- DigitValues
    Other = {"x"}
    MaxWhole = 3
    MaxDecimals = 2
    MaxPaste = 3
    MaxVisits = 3
    MaxCommits = 3
    Ranges = {"1h", "4h", "1D"}
    FirstRange = "1h"
    Price = {1, 2}
    MaxPicks = 3
    MaxTicks = 2
    Text = {"", "jo", "jo ", "jo x"}
    CleanText <- Cleaned
    Filter = {"", "f", "f "}
    CleanFilter <- CleanedFilter
    PAGE_SIZES <- Sizes
    MaxRows = 2
    MaxPresses = 3
    Device = {"d1", "d2"}
    User = {"ann", "bob"}
    MaxSubs <- Subscriptions
    MaxTries = 2
    Alert = {"up", "dn"}
    Direction <- Directions
    Target <- Targets
    TimerRun = {"t1", "t2"}
    MaxMoves = 1
    Caller = {"c1", "c2"}
    TTL <- KeptFor
    NEGATIVE_TTL = 1
    MaxFetch = 1
    Mixes <- ReadMixes
    Coin = {"btc"}
    CoinPrice <- PriceOfOne
    MaxQty = 1
    Catalogs <- Lists
    Chips = {"all", "watching", "gainers"}
    Searches <- Lists
    MaxCalls = 2
    OpsRefresh = {"r1", "r2"}
    MaxLetters = 2
SPECIFICATION Spec
INVARIANTS
    PaymentsRight
    ExchangeRight
    FieldParses
    BalanceRight
    ChartRight
    TableRight
    PushRight
    AlertsRight
    TrackedRight
    CacheRight
PROPERTIES
    RecoveredForCause
