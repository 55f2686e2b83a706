----------------------------- MODULE MCPlatform -----------------------------
(***************************************************************************)
(* The parts of the platform around the vault and the mirror: the share    *)
(* ledger, the listing registry, the applications inbox, the candle store, *)
(* the leader's feed and its backfill, which share the chain alone, the    *)
(* scorers, the fee ledger and the web application.  They meet in a        *)
(* person's hands only: an operator lists whom the scorers recommend, and  *)
(* no step of one reads the state of another.  So a behaviour explores one *)
(* of them, whichever, and the others stand still.                         *)
(***************************************************************************)
EXTENDS ShareLedger, ListingRegistry, TraderInbox, CandleStore, LeaderFeed, TraderProfile, FeeLedger,
        Dashboard

CONSTANT MaxTabSteps      \* bound: changes of the hash and clicks together

VARIABLE part

-----------------------------------------------------------------------------
(* Instances *)

\* A vault that charges everything under a lockup, and one that charges the
\* largest performance fee and nothing else.
Levying ==
    [performanceFeeBps |-> 2000, managementFeeBpsAnnual |-> 2000, halfSpreadBps |-> 1000,
     maxLevyBps |-> 1500, lockupSec |-> 1, withdrawFeeBps |-> 2000]
Performing ==
    [performanceFeeBps |-> 5000, managementFeeBpsAnnual |-> 0, halfSpreadBps |-> 0,
     maxLevyBps |-> 0, lockupSec |-> 0, withdrawFeeBps |-> 0]
MCPolicies == {Levying, Performing}

\* The ends of a window, together and apart.
MCWindows == {<<0, 4>>, <<10, 12>>, <<0, 12>>}

\* Birdeye's series, and that of the one pool, which lacks some of it.
MCTraded == [birdeye |-> {0, 3, 4, 5, 6}, deep |-> {0, 3, 5, 6}]

\* A buy with dollars that got rent back; a sale through wrapped SOL that paid
\* some, its fee paid by somebody else; a swap of two assets; a gift out that
\* somebody else paid the fee of; and a failed swap.
Tx(usdc, sol, a, b) ==
    [wants |-> [usdc |-> usdc, sol |-> sol, A |-> a, B |-> b], rent |-> 0, fee |-> 1,
     sponsored |-> FALSE, wrapped |-> FALSE, failed |-> FALSE]
MCTransactions ==
    {[Tx(-100, 0, 10, 0) EXCEPT !.rent = 2],
     [Tx(0, 50, -10, 0) EXCEPT !.rent = -2, !.wrapped = TRUE, !.sponsored = TRUE],
     [Tx(0, 0, -10, 5) EXCEPT !.rent = 2],
     [Tx(0, 0, -10, 0) EXCEPT !.sponsored = TRUE],
     [Tx(-100, 0, 10, 0) EXCEPT !.failed = TRUE]}
MCCentsPerUnit == [usdc |-> 1, sol |-> 20, A |-> 5, B |-> 5]
MCPriceViews == {Mints, {"usdc", "A"}}

\* Fills that make or top up a position, make and lose money, and leave dust.
Fill(qty, usd) == [qty |-> qty, usd |-> usd]
MCBuys == {Fill(50, 5000)}
MCSells == {Fill(50, 9000), Fill(50, 3000), Fill(49, 4000)}
MCGaps == {[sec |-> 0, early |-> TRUE], [sec |-> 4000, early |-> FALSE]}

\* Deep and shallow markets; one unknown, no book to weigh against, and candles
\* of one token around and after the first fills.
Quote(px, liq) == [px |-> px, liq |-> liq]
CandleAt(token, begins, open, high, close) ==
    [token |-> token, ts |-> begins, open |-> open, high |-> high, close |-> close]
MCMarkets ==
    {[book |-> 1000, candles |-> {},
      prices |-> [A |-> Quote(60, 400000), B |-> Quote(200, 100000)]],
     [book |-> Unmeasured,
      candles |-> {CandleAt("A", 1000, 90, 160, 120), CandleAt("A", 4000, 120, 300, 70)},
      prices |-> [A |-> Quote(100, 1500000), B |-> Unmeasured]]}
MCRivals == <<[composite |-> 72, capacityUsd |-> 90000], [composite |-> 90, capacityUsd |-> 1000]>>

\* Two leaders with a payout address each.
MCPayoutAddressOf == [ansem |-> "ansemPayout", cented |-> "centedPayout"]

-----------------------------------------------------------------------------
(* Side by side *)

PlatformInit ==
    /\ LedgerInit /\ RegistryInit /\ InboxInit /\ CandleInit /\ FeedInit /\ ProfileInit /\ FeeInit
    /\ DashboardInit
    /\ part \in {"ledger", "registry", "inbox", "candles", "feed", "backfill", "profile", "fees", "web"}
    /\ part # "ledger" => policy = Levying
    \* A visitor comes by a link to the form or to an audited trader.
    /\ route \in IF part = "web" THEN {"apply"} \cup Audited ELSE {"roster"}
    /\ part # "candles" => series = [p \in Procs |-> Unasked]
    \* The operator deploys with what the chain says; a reprice parts the two.
    /\ platform.fee = config.withdrawFeeBps /\ platform.listingFee = config.listingFeeLamports
    /\ part # "registry" => config = CHOOSE c \in platformFromEnv : TRUE

\* In comes first in every action and Only last: the rest of an action is not
\* evaluated in the other parts.
In(p) == part = p
OnlyLedger == UNCHANGED <<registryVars, inboxVars, candleVars, feedVars, profileVars, feeVars, dashboardVars, part>>
OnlyRegistry == UNCHANGED <<ledgerVars, inboxVars, candleVars, feedVars, profileVars, feeVars, dashboardVars, part>>
OnlyInbox == UNCHANGED <<ledgerVars, registryVars, candleVars, feedVars, profileVars, feeVars, dashboardVars, part>>
OnlyCandles == UNCHANGED <<ledgerVars, registryVars, inboxVars, feedVars, profileVars, feeVars, dashboardVars, part>>
OnlyFeed == UNCHANGED <<ledgerVars, registryVars, inboxVars, candleVars, profileVars, feeVars, dashboardVars, part>>
OnlyProfile == UNCHANGED <<ledgerVars, registryVars, inboxVars, candleVars, feedVars, feeVars, dashboardVars, part>>
OnlyFees == UNCHANGED <<ledgerVars, registryVars, inboxVars, candleVars, feedVars, profileVars, dashboardVars, part>>
OnlyWeb == UNCHANGED <<ledgerVars, registryVars, inboxVars, candleVars, feedVars, profileVars, feeVars, part>>
LedgerStep == In("ledger") /\ ops < MaxOps /\ ops' = ops + 1
TabStep == In("web") /\ visits + clicks < MaxTabSteps

PlatformNext ==
    \/ \E m \in Depositors, amount \in Amounts, exposure \in Exposures :
          LedgerStep /\ deposit(m, amount, exposure) /\ OnlyLedger
    \/ \E m \in Members, exposure \in Exposures :
          \E shares \in Amounts \cup {unlockedShares(m)} : LedgerStep /\ withdraw(m, shares, exposure) /\ OnlyLedger
    \/ LedgerStep /\ accrueManagementFee /\ OnlyLedger
    \/ \E fee \in {0, policy.withdrawFeeBps \div 2} : LedgerStep /\ lowerPlatformFee(fee) /\ OnlyLedger
    \/ LedgerStep /\ Reprice /\ OnlyLedger
    \/ In("ledger") /\ LedgerTick /\ OnlyLedger
    \/ \E l \in Leaders : In("registry") /\ apply(l) /\ OnlyRegistry
    \/ \E l \in Leaders : In("registry") /\ approve(l) /\ OnlyRegistry
    \/ \E l \in Leaders : In("registry") /\ reject(l) /\ OnlyRegistry
    \/ \E l \in Leaders : In("registry") /\ delist(l) /\ OnlyRegistry
    \/ \E l \in Leaders : In("registry") /\ suspend(l) /\ OnlyRegistry
    \/ \E l \in Leaders : In("registry") /\ goLive(l) /\ OnlyRegistry
    \/ \E l \in Leaders : In("registry") /\ recordListed(l) /\ OnlyRegistry
    \/ \E l \in Leaders : In("registry") /\ reconcile(l) /\ OnlyRegistry
    \/ \E l \in Leaders : In("registry") /\ quoteListing(l) /\ OnlyRegistry
    \/ \E l \in Leaders : In("registry") /\ initialize_vault(l) /\ OnlyRegistry
    \/ \E l \in Leaders : In("registry") /\ ReadVault(l) /\ OnlyRegistry
    \/ \E l \in Leaders, fee \in FeeLevels : In("registry") /\ set_vault_withdraw_fee(l, fee) /\ OnlyRegistry
    \/ \E fee \in FeeLevels, listingFee \in ListingFees :
          In("registry") /\ set_platform_params(fee, listingFee) /\ OnlyRegistry
    \/ \E t \in Tabs, a \in Addresses, answers \in Answers : In("inbox") /\ Submit(t, a, answers) /\ OnlyInbox
    \/ \E t \in Tabs : In("inbox") /\ Answered(t) /\ OnlyInbox
    \/ \E t \in Tabs : In("inbox") /\ Unreachable(t) /\ OnlyInbox
    \/ \E t \in Tabs : In("inbox") /\ Reload(t) /\ OnlyInbox
    \/ \E t \in Tabs : In("inbox") /\ Refuse(t) /\ OnlyInbox
    \/ \E t \in Tabs : In("inbox") /\ Store(t) /\ OnlyInbox
    \/ \E id \in 0..MaxSubmits, status \in ByHand : In("inbox") /\ setApplicationStatus(id, status) /\ OnlyInbox
    \/ In("inbox") /\ InboxTick /\ OnlyInbox
    \/ \E p \in Procs, window \in Windows : In("candles") /\ ask(p, window) /\ OnlyCandles
    \/ \E p \in Procs, pool \in Pools \cup {NoPool} : In("candles") /\ deepestPool(p, pool) /\ OnlyCandles
    \/ \E p \in Procs : In("candles") /\ nextPage(p) /\ OnlyCandles
    \/ \E p \in Procs : In("candles") /\ pageFails(p) /\ OnlyCandles
    \/ \E p \in Procs : In("candles") /\ crash(p) /\ OnlyCandles
    \/ \E p \in Procs : In("candles") /\ write(p) /\ OnlyCandles
    \/ \E p \in Procs : In("candles") /\ written(p) /\ OnlyCandles
    \/ In("candles") /\ CandleTick /\ OnlyCandles
    \/ \E tx \in Transactions : part \in {"feed", "backfill"} /\ Land(tx) /\ OnlyFeed
    \/ In("feed") /\ pollStart /\ OnlyFeed
    \/ \E unread \in SUBSET listed, known \in PriceViews : In("feed") /\ pollEnd(unread, known) /\ OnlyFeed
    \/ In("feed") /\ pollFails /\ OnlyFeed
    \/ In("backfill") /\ historyStart /\ OnlyFeed
    \/ \E unread \in SUBSET Succeeded(EarlierPage), fails \in BOOLEAN :
          In("backfill") /\ historyPage(unread, fails) /\ OnlyFeed
    \/ In("backfill") /\ historyThrows /\ OnlyFeed
    \/ In("profile") /\ Buy /\ OnlyProfile
    \/ In("profile") /\ Sell /\ OnlyProfile
    \/ In("profile") /\ Score /\ OnlyProfile
    \/ \E f \in Followers, leader \in DOMAIN payoutAddressOf, usd \in Fillings :
          In("fees") /\ Mirrored(f, leader, usd) /\ OnlyFees
    \/ \E f \in Followers, amount \in Sums : In("fees") /\ settle(f, amount) /\ OnlyFees
    \/ \E p \in Payees, amount \in Sums : In("fees") /\ payout(p, amount) /\ OnlyFees
    \/ In("fees") /\ saveFeeLedger /\ OnlyFees
    \/ In("fees") /\ loadFeeLedger /\ OnlyFees
    \/ \E to \in parseRoute : TabStep /\ navigate(to) /\ OnlyWeb
    \/ \E got \in {"loaded", "failed"} : In("web") /\ DataRead(got) /\ OnlyWeb
    \/ \E found \in SUBSET (Roster \cap Audited) : In("web") /\ ProfilesRead(found) /\ OnlyWeb
    \/ \E r \in reads, ok \in BOOLEAN : In("web") /\ TraderRead(r, ok) /\ OnlyWeb
    \/ In("web") /\ Ready /\ OnlyWeb
    \/ In("web") /\ login /\ OnlyWeb
    \/ In("web") /\ LoginIdle /\ OnlyWeb
    \/ \E signedIn \in BOOLEAN : In("web") /\ LoginEnds(signedIn) /\ OnlyWeb
    \/ In("web") /\ Refreshed /\ OnlyWeb
    \/ In("web") /\ logout /\ OnlyWeb
    \/ \E kind \in {"delegate", "revoke"} : TabStep /\ run(kind) /\ OnlyWeb
    \/ \E r \in runs, outcome \in {"done", "dismissed", "failed"} : In("web") /\ RunEnds(r, outcome) /\ OnlyWeb
    \/ \E r \in runs : In("web") /\ withTimeout(r) /\ OnlyWeb
    \/ In("web") /\ OpenCalendar /\ OnlyWeb
    \/ In("web") /\ ScriptEnds /\ OnlyWeb

PlatformSpec ==
    PlatformInit
    /\ [][PlatformNext]_<<ledgerVars, registryVars, inboxVars, candleVars, feedVars, profileVars, feeVars, dashboardVars, part>>

Interchangeable ==
    Permutations(Leaders) \cup Permutations(Tabs) \cup Permutations(Addresses) \cup Permutations(Procs)

=============================================================================
