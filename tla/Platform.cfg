CONSTANTS
\* The ledger: one depositor and the leader, a second is two ticks and a year
\* three seconds, four units to the dollar, four operations or price moves.
    Members = {alice, leader, treasury}
    Depositors = {alice, leader}
    leaderId = leader
    treasuryId = treasury
    ONE = 4
    Policies <- MCPolicies
    Amounts = {3, 10}
    Exposures = {1}
    SECONDS_PER_YEAR = 3
    MsPerSec = 2
    MaxMs = 3
    MaxEquity = 60
    MaxOps = 4
\* The registry: two leaders and a cap of one, fees below and above the most.
    Leaders = {leader1, leader2}
    NoListing = NoListing
    NoFee = NoFee
    FeeLevels = {50, 100, 250}
    ListingFees = {3, 5}
    MaxLiveChoices = {0, 1}
    Redemptions = {1, 99, 199, 201}
    MaxReprices = 1
    MaxSuspensions = 1
\* The inbox: two tabs, two wallets, an hour of two ticks.
    Tabs = {t1, t2}
    Addresses = {w1, w2}
    Answers = {full, partial}
    Complete = {full}
    ByHand = {"booked", "lost"}
    NoRow = NoRow
    NoTime = NoTime
    NoId = NoId
    APPLICATIONS_PER_HOUR = 1
    Hour = 2
    MaxTime = 3
    MaxSubmits = 3
\* The candles: two processes on either feed, one pool or none, pages of two
\* candles, two pages a fetch.
    Procs = {p1, p2}
    Feeds = {"geckoterminal", "birdeye"}
    Pools = {"deep"}
    NoPool = NoPool
    Unasked = Unasked
    Traded <- MCTraded
    Windows <- MCWindows
    FirstMs = 13
    LastMs = 14
    PAGE_LIMIT = 2
    MAX_PAGES = 2
    MaxWindows = 3
    NoWindow = NoWindow
    NoMemo = NoMemo
    Torn = Torn
\* The feed: three transactions, polls of two, a backfill of one and two pages.
    Mints = {"usdc", "sol", "A", "B"}
    SOL_MINT = "sol"
    QUOTE_MINTS = {"usdc", "sol"}
    CentsPerUnit <- MCCentsPerUnit
    PriceViews <- MCPriceViews
    dustUsd = 1
    solPlumbingSol = 20
    Transactions <- MCTransactions
    NoTrade = NoTrade
    pageLimit = 2
    historyLimit = 1
    historyPages = 2
    MaxTransactions = 3
\* The scorers: four fills of two tokens, one closed trip is history enough.
    Tokens = {"A", "B"}
    Unmeasured = Unmeasured
    NoScore = NoScore
    minClosedEpisodes = 1
    minViableVaultUsd = 50000
    maxPctOfLiquidity = 1
    horizonSec = 3600
    toleranceSec = 7200
    candleSec = 1000
    consistencyBucketSec = 4000
    minConsistencyBuckets = 2
    Buys <- MCBuys
    Sells <- MCSells
    Gaps <- MCGaps
    Markets <- MCMarkets
    Rivals <- MCRivals
    judgeLatencySec = 10
    minComposite = 60
    minCapacityUsd = 50000
    seats = 1
    NowLag = 100
    MaxFills = 4
\* The fees: one per cent halved, one trade too small and one that splits unevenly.
    Followers = {"alice", "bob"}
    Payees = {"fomv", "ansemPayout", "centedPayout"}
    treasury = "fomv"
    payoutAddressOf <- MCPayoutAddressOf
    tradeFeeBps = 100
    leaderShareBps = 5000
    minChargeable = 2000
    Fillings = {1900, 2500}
    Sums = {7}
    MaxMirrored = 3
    MaxMoved = 2
\* The web application: two traders and a link to a third, three pages or two and
\* two calls of Privy.
    Roster = {ansem, cented}
    Strangers = {stranger}
    Audited = {ansem}
    configured = TRUE
    canDelegate = TRUE
    NoProfile = NoProfile
    MaxVisits = 2
    MaxRuns = 2
    MaxTabSteps = 3

SPECIFICATION PlatformSpec
SYMMETRY Interchangeable

\* Every part is bounded by a clock or a count and stops there.
CHECK_DEADLOCK FALSE

INVARIANTS SharesConserved NoMomentChargedTwice OnlyThePaidAreLive QuotesNeverFlatter SeatsWithinCap HourlyCeiling ReceivedIsRecorded AnswersAreWhole CachedCandlesAreFinal MirrorsWhatWasTraded BackfillHasNoHole RecordIsTheTape SeatsAreEarned TwoViewsAgree NobodyWaitsInVain
PROPERTIES ExitsDiluteNobody DepositsDiluteByDust LockupHolds NoFeeOnRecovery LeadsSurvive
