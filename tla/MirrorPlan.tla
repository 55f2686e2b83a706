------------------------------ MODULE MirrorPlan ------------------------------
(***************************************************************************)
(* A leader trading, and the plan a mirroring vault makes of a batch of    *)
(* the leader's trades: src/src/mirror (engine.ts, guardrails.ts,          *)
(* sizing.ts) and src/src/policy.ts.  Everything the plan decides about a  *)
(* token's market (liquidity, age, authorities, holders, sell probe, price *)
(* drift) is one number per asset: the dollars the impact cap allows, zero *)
(* where a check refuses the token or no market answered.  Money is in     *)
(* whole dollars, every percentage rounds down, a token costs one dollar   *)
(* when it is bought, and every asset is on an enabled chain.              *)
(***************************************************************************)
EXTENDS Integers, SequencesExt

CONSTANTS
    Assets,             \* tokens the leader trades
    Policies,           \* policies a vault may be created with
    Equity,             \* dollars a vault starts with
    NoPos,              \* an asset that is not held
    NoExit,             \* lastExitAtMs of an asset never fully exited
    BuyUsd,             \* what the leader puts into one buy, one unit each
    LeaderUsd,          \* the leader's portfolio at the start
    ImpactCaps,         \* what maxPctOfLiquidity may allow an order
    NotRead,            \* an answer a cycle still waits for
    PollLimit,          \* signatures one poll returns
    DayTicks,           \* ticks in a UTC day
    MaxTime,            \* bound: the clock stops there
    MaxTrades           \* bound: trades of the leader

VARIABLES
    now,                \* Date.now()
    tape,               \* the leader's trades on chain, oldest first
    leader              \* the leader's book: units per asset, total in USD

leaderVars == <<now, tape, leader>>

pct(p, usd) == (p * usd) \div 100
utcDay(t) == t \div DayTicks

\* The groups sizing, execution and breakers, in per cent, dollars and ticks; of
\* safety the deny list, the rest being one number per asset.
VaultPolicy ==
    [exposureScalar: Nat, maxPositionPct: Nat, maxPositions: Nat, minTradeUsd: Nat,
     quoteReservePct: Nat, dailyDeployPct: Nat, exitDustThreshold: Nat,
     denyTokens: SUBSET Assets, maxTradeAge: Nat, reentryCooldown: Nat,
     maxDrawdownPct: Nat, dailyLossLimitPct: Nat, leaderCollapsePct: Nat, paused: BOOLEAN]

Position == [amount: Nat, usd: Nat]

frac(v, max) == v \in 0..max
validatePolicy(p) ==
    /\ p.exposureScalar \in 0..10
    /\ frac(p.maxPositionPct, 100) /\ frac(p.quoteReservePct, 100)
    /\ frac(p.dailyDeployPct, 1000) /\ frac(p.exitDustThreshold, 100)
    /\ p.minTradeUsd >= 0
    /\ p.maxPositions >= 1
    /\ p.maxPositionPct <= 100 - p.quoteReservePct
    /\ p.maxTradeAge >= 0 /\ p.reentryCooldown >= 0
    /\ frac(p.maxDrawdownPct, 100) /\ frac(p.dailyLossLimitPct, 100) /\ frac(p.leaderCollapsePct, 100)

ASSUME MirrorAssumption ==
    /\ {Equity, LeaderUsd, DayTicks} \subseteq Nat \ {0}
    /\ {PollLimit, MaxTime, MaxTrades} \subseteq Nat
    /\ BuyUsd \subseteq Nat \ {0}
    /\ ImpactCaps \subseteq Nat
    /\ Policies \subseteq VaultPolicy
    /\ \A p \in Policies : validatePolicy(p)
    /\ IsFiniteSet(Assets)
    /\ NoPos \notin Position
    /\ NoExit \notin Nat

----------------------------------------------------------------------------
(* The leader *)

LeaderTrade ==
    [id: 1..MaxTrades, side: {"buy", "sell"}, asset: Assets, amount: Nat, usd: Nat, ts: 0..MaxTime]
LeaderBook == [hold: [Assets -> Nat], total: Nat]

LeaderTypeOK ==
    /\ now \in 0..MaxTime
    /\ tape \in Seq(LeaderTrade) /\ Len(tape) <= MaxTrades
    /\ leader \in LeaderBook

LeaderInit ==
    /\ now = 0
    /\ tape = <<>>
    /\ leader = [hold |-> [a \in Assets |-> 0], total |-> LeaderUsd]

Traded(side, a, amount, usd, hold) ==
    /\ Len(tape) < MaxTrades
    /\ tape' = Append(tape, [id |-> Len(tape) + 1, side |-> side, asset |-> a,
                             amount |-> amount, usd |-> usd, ts |-> now])
    /\ leader' = [leader EXCEPT !.hold[a] = hold]
    /\ UNCHANGED now

LeaderBuys(a, usd) == Traded("buy", a, 1, usd, leader.hold[a] + 1)
LeaderSells(a, n) == n <= leader.hold[a] /\ Traded("sell", a, n, n, leader.hold[a] - n)

\* The leader's open positions lose their value, once.
LeaderCollapses ==
    /\ leader.total = LeaderUsd
    /\ leader' = [leader EXCEPT !.total = @ \div 4]
    /\ UNCHANGED <<now, tape>>

Clock ==
    /\ now < MaxTime
    /\ now' = now + 1
    /\ UNCHANGED <<tape, leader>>

\* What a watcher answers: the newest signatures after the cursor, oldest first.
poll(cursor) ==
    LET from == IF Len(tape) - PollLimit > cursor THEN Len(tape) - PollLimit ELSE cursor
    IN  [trades |-> SubSeq(tape, from + 1, Len(tape)), cursor |-> Len(tape)]

\* What the market may answer about the assets of a batch.
Markets(trades) == [{t.asset : t \in Range(trades)} -> {0} \cup ImpactCaps]

LeaderNext ==
    \/ \E a \in Assets :
          \/ \E usd \in BuyUsd : LeaderBuys(a, usd)
          \/ \E n \in 1..MaxTrades : LeaderSells(a, n)
    \/ LeaderCollapses
    \/ Clock

----------------------------------------------------------------------------
(* Breakers, guardrails and sizes *)

VaultState ==
    [equity: Nat, quote: Int, pos: [Assets -> Position \cup {NoPos}], deployed: Nat,
     lastExit: [Assets -> Nat \cup {NoExit}]]

emptyVaultState(equity) ==
    [equity |-> equity, quote |-> equity, pos |-> [a \in Assets |-> NoPos],
     deployed |-> 0, lastExit |-> [a \in Assets |-> NoExit]]

Held(vault) == {a \in Assets : vault.pos[a] # NoPos}
Usd(vault, a) == IF a \in Held(vault) THEN vault.pos[a].usd ELSE 0
Amount(vault, a) == IF a \in Held(vault) THEN vault.pos[a].amount ELSE 0

Fell(value, mark, limitPct) == mark > 0 /\ 100 * (mark - value) > limitPct * mark

\* The first breaker that trips, as checkBreakers orders them.  The book of the
\* leader is read within the cycle, so its prices are never stale.
checkBreakers(p, vault, marks, book) ==
    IF p.paused THEN "paused"
    ELSE IF Fell(vault.equity, marks.highWater, p.maxDrawdownPct) THEN "max-drawdown"
    ELSE IF Fell(vault.equity, marks.startOfDay, p.dailyLossLimitPct) THEN "daily-loss-limit"
    ELSE IF Fell(book.total, marks.leaderStartOfDay, p.leaderCollapsePct) THEN "leader-collapse"
    ELSE "pass"

checkCommonMutant(p, trade, processed) == TRUE
checkCommon(p, trade, processed) == trade.id \notin processed

Listed(p, a) == a \notin p.denyTokens

checkEntry(p, trade, vault, processed, markets, at) ==
    LET a == trade.asset IN
    /\ checkCommon(p, trade, processed)
    /\ Listed(p, a)
    /\ at - trade.ts <= p.maxTradeAge
    /\ markets[a] > 0
    /\ a \in Held(vault) \/ Cardinality(Held(vault)) < p.maxPositions
    /\ vault.lastExit[a] # NoExit => at - vault.lastExit[a] >= p.reentryCooldown

\* Deny and allow lists never block an exit, and no market check does.
checkExit(p, trade, vault, processed) ==
    /\ checkCommon(p, trade, processed)
    /\ trade.asset \in Held(vault) \/ ~Listed(p, trade.asset)

clampTo(limit, size) == IF limit < size THEN (IF limit < 0 THEN 0 ELSE limit) ELSE size

sizeEntryMutant(p, trade, book, vault, cap) == IF cap < p.minTradeUsd THEN 0 ELSE cap
sizeEntry(p, trade, book, vault, cap) ==
    LET raw  == IF book.total <= 0 THEN 0
                ELSE (trade.usd * vault.equity * p.exposureScalar) \div book.total
        size == clampTo(pct(p.dailyDeployPct, vault.equity) - vault.deployed,
                clampTo(vault.quote - pct(p.quoteReservePct, vault.equity),
                clampTo(cap,
                clampTo(pct(p.maxPositionPct, vault.equity) - Usd(vault, trade.asset), raw))))
    IN  IF size < p.minTradeUsd THEN 0 ELSE size

(* A fraction of a position is a pair <<part, whole>>. *)
Everything == <<1, 1>>
Nothing == <<0, 1>>
Of(f, usd) == (f[1] * usd) \div f[2]
Whole(f) == f[1] >= f[2]

leaderPositionBeforeMutant(post, trade) == post + 2 * trade.amount
leaderPositionBefore(post, trade) == post + trade.amount

sizeExit(p, trade, before, vault) ==
    LET f == <<trade.amount, before>>
        residual == Usd(vault, trade.asset) * (f[2] - f[1])
    IN  IF Amount(vault, trade.asset) <= 0 THEN Nothing
        ELSE IF before <= 0 \/ 100 * f[1] >= p.exitDustThreshold * f[2]
                \/ residual < p.minTradeUsd * f[2]
        THEN Everything
        ELSE f

----------------------------------------------------------------------------
(* The plan.  Skipped trades only reach the report and are left out. *)

Bought(vault, a, usd) ==
    [vault EXCEPT !.pos[a] = [amount |-> Amount(vault, a) + usd, usd |-> Usd(vault, a) + usd],
                  !.quote = @ - usd, !.deployed = @ + usd]

applyBuyMutant(vault, a, usd) == [Bought(vault, a, usd) EXCEPT !.deployed = vault.deployed]
applyBuy(vault, a, usd) == Bought(vault, a, usd)

Sold(vault, a, f, proceeds, usdLeft, at) ==
    IF Whole(f)
    THEN [vault EXCEPT !.pos[a] = NoPos, !.lastExit[a] = at, !.quote = @ + proceeds]
    ELSE [vault EXCEPT !.pos[a] = [amount |-> @.amount - Of(f, @.amount), usd |-> usdLeft],
                       !.quote = @ + proceeds]

applySell(vault, a, f, at) ==
    LET proceeds == Of(f, Usd(vault, a))
    IN  IF a \notin Held(vault) THEN vault
        ELSE Sold(vault, a, f, proceeds, Usd(vault, a) - proceeds, at)

Fraction == {f \in Nat \X (Nat \ {0}) : f[1] <= f[2]}
MirrorIntent ==
    [kind: {"buy"}, id: 1..MaxTrades, asset: Assets, usd: Nat]
    \cup [kind: {"sell"}, id: 0..MaxTrades, asset: Assets, fraction: Fraction]
Buy(trade, usd) == [kind |-> "buy", id |-> trade.id, asset |-> trade.asset, usd |-> usd]
Sell(id, a, f) == [kind |-> "sell", id |-> id, asset |-> a, fraction |-> f]

FrozenMutant(trade, breaker) == breaker # "pass"
Frozen(trade, breaker) == trade.side = "buy" /\ breaker # "pass"

(* One trade: the intent it becomes, if any, and the provisional book after it. *)
PlanBuy(acc, p, trade, book, markets, at) ==
    LET usd == sizeEntry(p, trade, book, acc.vault, markets[trade.asset])
    IN  IF ~checkEntry(p, trade, acc.vault, acc.processed, markets, at) \/ usd <= 0 THEN acc
        ELSE [vault |-> applyBuy(acc.vault, trade.asset, usd),
              processed |-> acc.processed \cup {trade.id},
              intents |-> Append(acc.intents, Buy(trade, usd))]

PlanSell(acc, p, trade, book, at) ==
    LET before == leaderPositionBefore(book.hold[trade.asset], trade)
        f == sizeExit(p, trade, before, acc.vault)
    IN  IF ~checkExit(p, trade, acc.vault, acc.processed) \/ f[1] <= 0 THEN acc
        ELSE [vault |-> applySell(acc.vault, trade.asset, f, at),
              processed |-> acc.processed \cup {trade.id},
              intents |-> Append(acc.intents, Sell(trade.id, trade.asset, f))]

\* A drawdown closes every position, ahead of the trades, without advancing
\* the provisional book.
Flatten(vault) == LET assets == SetToSeq(Held(vault))
                  IN  [i \in 1..Len(assets) |-> Sell(0, assets[i], Everything)]

PlanTrade(acc, p, trade, book, markets, at, breaker) ==
    IF Frozen(trade, breaker) THEN acc
    ELSE IF trade.side = "buy" THEN PlanBuy(acc, p, trade, book, markets, at)
    ELSE PlanSell(acc, p, trade, book, at)

planCycle(p, trades, book, vault, markets, processed, marks, at) ==
    LET breaker == checkBreakers(p, vault, marks, book)
        start == [vault |-> vault, processed |-> processed,
                  intents |-> IF breaker = "max-drawdown" THEN Flatten(vault) ELSE <<>>]
        \* What the first n trades come to.
        planned[n \in 0..Len(trades)] ==
            IF n = 0 THEN start
            ELSE PlanTrade(planned[n - 1], p, trades[n], book, markets, at, breaker)
    IN  IF breaker = "paused" THEN <<>> ELSE planned[Len(trades)].intents

==============================================================================
