\* Two tokens, three trades of the leader over a day boundary, a poll that
\* returns two, one throw; exits fill at half of the book value or at all of it.
CONSTANTS
    Assets = {a, b}
    Policies <- MCPolicies
    Equity = 100
    NoPos = NoPos
    NoExit = NoExit
    BuyUsd = {30}
    LeaderUsd = 100
    ImpactCaps = {25}
    NotRead = NotRead
    PollLimit = 2
    DayTicks = 1
    MaxTime = 1
    MaxTrades = 3
    FillPcts = {50, 100}
    MaxThrows = 1
    DUST_USD = 1
    MaxLost = 1
    MaxHand = 1

SPECIFICATION MirrorSpec
SYMMETRY Interchangeable
ACTION_CONSTRAINTS LeaderMovesAreSeen CollapsesArePooled OwnerMovesAreSeen

INVARIANTS DailyBudgetHolds LimitsCompose FilledOnce NeverLagsTheLeader SpendingBounded ExitKeepsUp
