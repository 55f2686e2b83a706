# FOMV in TLA+

FOMV lets people copy a trader. It has two products that hold or move other
people's money, and a set of tools around them:

* an **on-chain vault** (Rust, Anchor): depositors pool a quote token, a manager
  trades it as the leader does, and anybody may redeem in kind;
* a **follow server** (TypeScript, Bun): one process that mirrors a leader's
  trades into wallets whose owners delegated signing to it through Privy;
* the code they share: the mirror engine (what to copy, how large), the market
  data, the scoring that picks leaders, the listing registry, the applications
  inbox, and a web application.

This directory models both products and most of the code around them, checks the
models with TLC, and proves with TLAPS, for every value of the constants, every
invariant and action property that TLC checks on small instances. Only liveness
stays with TLC. What is left out is listed in section 7, with the reasons.

## 1. Inventory

| part | state it keeps | operations | what is hard about it |
|---|---|---|---|
| vault program `onchain/programs/fomo-vault/src` | platform account, vault account, one asset account per mint, one deposit request and one claim per owner, token balances | 18 instructions | any signer, any order; a redemption spans several transactions; rounding |
| follow server `src/server`, `src/follow`, `src/chains/solana/{watcher,privy-signer,jupiter}.ts` | SQLite (`subscribers`, `processed`, `fees`), the cycle's copies in memory, the fee ledger | the loop, the HTTP handlers, the signal handler | handlers run between the loop's awaits on the same rows; crash between broadcast and write; lost confirmations; outages |
| mirror engine `src/mirror`, `src/policy.ts` | none (a provisional book inside `planCycle`) | planCycle, guardrails, sizing | budgets that must compose across a batch; flatten |
| follow memory `src/follow/{wallet-state,runner}.ts` | the day's spending and the last exits of a wallet | vaultStateFromWallet, mirrorInto, rememberCycle | the owner trades the same wallet; a throw forgets |
| pooled runner `src/runner.ts` | `RunnerState` in memory | tick, applyFill, rollDay | marks that go stale, all of it lost on a restart |
| share ledger `src/vault/ledger.ts`, `src/num.ts` | members, shares, lots, fees | deposit, withdraw, management fee, lower fee | order of the levies, rounding, lockups |
| listing registry `src/platform/registry.ts` | listings and their status | approve, reject, list, goLive, suspend, delist, reconcile | the cap on live vaults over suspend and resume |
| fee ledger `src/follow/fees.ts`, tables of `src/server/store.ts` | who owes, who is owed, in memory and in two tables | accrue, settle, payout, save, load | two views of the same money that nothing recomputes |
| applications `src/platform/application.ts`, the form of `app/src` | a form, one table | submit, answer, set status | lost answers, resubmissions, upsert by address |
| market data `src/marketdata` | candle cache on disk and in memory, the pools found, the gate's queue | read, write, missingRange, gate | concurrent writers of one file, two feeds that disagree |
| scoring and profiles `src/scoring`, `src/platform/{profile,shortlist}.ts` | none | episodes, two scores, a shortlist | dust, ties, missing beginnings, dimensions that cannot be measured |
| leader watching `src/chains/solana/{watcher,swaps}.ts` | none | poll, history, extractSwap | truncated pages, unreadable transactions, rent, wrapped SOL, fees somebody else paid |
| web application `app/src` | a route, one data file, what each page read, Privy's session, the panel that authorises | navigate, read, sign in, delegate, revoke, open the calendar | answers and calls that outlive the page or the button that started them |
| clients, CLI, site, deployment | none of the protocol's | | I/O and rendering |

What makes each of them correct:

* **Vault.** Pending deposits and shares are backed; a claim pays its owner the
  fraction burned and no less; the lock that claims put on trading is exact and
  is always released; nobody is diluted by rounding; an exit costs what was
  agreed. Modelled.
* **Follow server.** It signs only under a standing delegation; it never mirrors
  a trade it remembers having mirrored; it charges for what landed; one
  subscriber's failure does not cost the others; an owner who leaves stays out.
  Modelled; the last of these, and that a trade is mirrored at most once, do not
  hold in every order of events (section 5).
* **Mirror engine, pooled runner, follow memory.** Budgets, caps and the reserve
  hold over a batch that only half executes; a reported fill is not repeated; an
  exit keeps up with the leader's.
* **Share ledger.** Shares and lots agree; nobody who stays pays for an entry or
  an exit; locks hold; the leader earns on gains only.
* **Fee ledger.** What subscribers owe or paid is what payees are owed or got.
* **Registry.** Only paid vaults are cranked; quotes are never better than the
  program; seats stay within the cap.
* **Applications.** "Received" is true; a resubmission loses nothing; the hourly
  ceiling holds.
* **Candles.** An answer lacks nothing that is sure to be had; a cached candle is
  final.
* **Leader's feed.** Every swap up to the cursor is delivered as it was made, or
  reported; a backfill has no hole but what the RPC did not serve.
* **Scoring.** The record is what the tape says; a seat is earned.
* **Web application.** Nobody is left waiting for what has already ended.

The parts interact in few places. The follow server calls the mirror engine:
`FollowServer` leaves the engine's verdicts open except where they read the
server's own state, and `FollowWallet` has the engine and leaves the server out.
The registry mirrors the vault's fee by `reconcile`. The share ledger restates
off-chain the terms the vault enforces. The web application reads files built
beforehand and reaches Privy, never the follow server: what it delegates is what
`FollowServer` later finds standing. The rest meets in a person's hands: an
operator lists whom the scorers recommend.

## 2. Modules

| module | what it is |
|---|---|
| `FomoVault` | the vault program: one action per instruction |
| `VaultPromise` | what the vault promises who leaves, abstractly |
| `MCFomoVault` | its instances for TLC, and the invariants that are sums |
| `FollowPromise` | what the follow server promises, abstractly |
| `FollowServer` | the loop, the handlers, the signer, the process |
| `MCFollowServer` | its instances for TLC |
| `MirrorPlan` | a leader trading, and the plan made of a batch of trades |
| `PooledRunner` | the loop that executes plans for a pooled vault |
| `FollowWallet` | the loop that executes plans in a follower's wallet |
| `MCMirror` | the two loops under one leader, instances for TLC |
| `ShareLedger` | the off-chain ledger of a pooled vault, in fixed point |
| `ListingRegistry` | the roster next to the vaults of the program |
| `TraderInbox` | the application form, the endpoint and the table |
| `CandleStore` | one candle series: file, memos, paging feeds |
| `LeaderFeed` | from transactions to trades |
| `Scoring`, `Ability` | episodes, the copyability score, the ability profile |
| `TraderProfile` | a tape growing, scored and shortlisted |
| `FeeLedger` | what mirrored trades cost and who is owed it |
| `Dashboard` | the web application in one tab |
| `MCPlatform` | the parts from `ShareLedger` to `Dashboard` side by side, instances for TLC |

The proofs are in modules of their own:

| module | theorems about |
|---|---|
| `FomoVaultProofs` | `FomoVault`, `VaultPromise` |
| `FollowServerProofs` | `FollowServer`, `FollowPromise` |
| `MirrorProofs` | `MirrorPlan`, `PooledRunner`, `FollowWallet` |
| `LedgerProofs` | `ShareLedger`, `FeeLedger` |
| `OnboardingProofs` | `ListingRegistry`, `TraderInbox`, `Dashboard` |
| `MarketProofs` | `LeaderFeed`, `CandleStore` |
| `ScoringProofs` | `Scoring`, `Ability`, `TraderProfile` |
| `LedgerMath` | induction, floors and sums, which the others share |

### FomoVault and VaultPromise

One platform and one vault. An instruction is one transaction, so it is one
action; each `require!`, account constraint and early return is a conjunct. Where
the constraints of an instruction's accounts are more than a line, they are an
operator named after the Rust struct (`SettleDepositAccounts`,
`ClaimAssetAccounts`, ...). Accounts live at program-derived addresses, which is
why an owner has at most one request and one claim: both are functions from
holders.

| TLA+ | code |
|---|---|
| `authority`, `treasury`, `platformFeeBps`, ... | `Platform` (platform.rs) |
| `navQuote`, `navSlot`, `assetCount`, `pendingClaims`, `withdrawFeeBps`, ... | `Vault` (state.rs) |
| `index` | `VaultAsset.index`, `Unregistered` when the account does not exist |
| `request`, `claim` | `DepositRequest`, `WithdrawalClaim` |
| `supply`, `shares`, `book`, `pendingQuote`, `wallet` | balances of the token program |
| `shareAccounts` | which associated share accounts exist |
| `burns`, `burnBook`, `paid`, `agreedFee`, `bucketTraded`, `lateDraw` | history, read by properties only (`burns` is also a bound) |

A trade is a pair of amounts out of `Fills` that the route spends and returns;
the program only sees balances before and after. It asks of the two accounts only
that the vault owns them (lib.rs:566-569), so either may be the bucket of pending
deposits (`VaultAccounts`, `AfterRoute`); `bucketTraded` is what trades moved
through that bucket. Amounts are naturals: every
amount is backed by tokens whose supply fits 64 bits, so the checked operations
of the code do not fail, and their failure would only be a refused transaction.

`VaultPromise` is the abstract specification of an exit, with no claim accounts,
bitmaps or counters: a burn owes its holder, of every mint on offer, the burned
part of what the vault has of it; the mints are paid one by one, none for less;
until the last is paid there is no trade and no other burn, so that it is as if
all were paid at once. The refinement maps `offered` to the registered mints,
`owed` to the claim's fractions of the mints of its burn that it has not drawn, and
`kept` to `~lateDraw`: a draw of a mint that the burn did not cover voids the
promise, and the code allows one (section 5, `vault_late`). Deposits may be settled
while somebody is owed, as in the code.

### FollowServer and FollowPromise

JavaScript runs one thing at a time, so the granularity is the await: each
await of the loop ends an action, `pc` names the await the loop is at, and the
handlers and the world act in between. Statements with no await between them are
either one action or a run of actions during which `Handler` is false. The
writes at the end of a leader's turn are such a run: no handler can interleave,
but a crash can, so they are separate actions.

| TLA+ | code |
|---|---|
| `row`, `processed`, `fees` | the tables (store.ts) |
| `copy` | the `Subscriber` objects hydrated for the cycle |
| `groups`, `todo`, `unsaved` | the loop over leaders, over subscribers, the loop that writes them back |
| `asOf`, `page`, `plan`, `filled` | `nowMs`, `trades`, the intents left, `executions.some(ok)` |
| `ledger` | `feeLedger.owed` |
| `feed`, `delegated`, `landed`, `now` | the leaders' trades, Privy's record, the chain, the clock |
| `StartCycle`, `StartGroup`, `Polled`, `PollFails` | runOnce and followCycle up to the page of trades |
| `Serve`, `Sign`, `Refused`, `Land`, `Confirmed`, `ConfirmThrows`, `NotOk`, `Throws`, `FinishSub` | mirrorInto, JupiterExecutor.execute, PrivyDelegatedSigner.sign |
| `MarkProcessed`, `Upsert`, `SaveFees`, `Prune` | the writes |
| `Crash`, `Shutdown` | the process dies; SIGTERM and the exit a second later |

What the model leaves open: the engine's verdicts (any subset of the trades that
are not remembered and, for buys, not too old); which transactions of a page can
be read; the order of the subscribers and of the leaders; when pruning happens
between cycles. What it leaves out: the follow memory (`FollowWallet`), waivers
and the split of a fee (`FeeLedger`), the `paused` status (nothing under `src/`
sets it), the dry run.
Nothing under `src/` makes a subscriber active either: `Activate` is the
operator who confirms the delegation, and is marked external.

`FollowPromise` is the abstract specification: four variables and no process.
The refinement maps `done` to what the server knows of a subscriber (its copy
during a cycle, the database otherwise) and `signed` to the signature in flight.
The promise allows forgetting, because the server does forget: on a crash, on a
prune, when a confirmation is lost. What it does not allow is signing without a
delegation, broadcasting one signature twice, signing for a remembered trade, or
remembering what did not land.

### MirrorPlan, PooledRunner, FollowWallet

`MirrorPlan` is the leader (a tape of trades, a book, a clock) and the pure
engine: `planCycle` folds over the batch exactly as engine.ts does, with the
provisional book, the set of processed ids and the breaker's verdict. It has no
step of its own but the leader's; the two hosts are state machines around it.

| TLA+ | code |
|---|---|
| `checkBreakers`, `checkEntry`, `checkExit`, `sizeEntry`, `sizeExit` | the functions of guardrails.ts and sizing.ts, check by check |
| `PlanBuy`, `PlanSell`, `Flatten`, `applyBuy`, `applySell` | planCycle and its provisional book |
| `state`, `cycle` | `RunnerState`, the tick under way |
| `fills`, `unknown`, `hidden`, `short`, `throws` | history; `hidden` is what landed today in buys that then threw |
| `StartTick`, `ReadTrades`, `ReadLeader`, `Plan`, `ExecutedOk`, `ExecutedNot`, `ExecutionThrows`, `EndTick`, `Report` | `tick`, await by await |
| `sub`, `memory`, `wallet`, `round` | `Subscriber`, `FollowMemory`, the chain's balances, the cycle |
| `PlanRound`, `Fills`, `Refused`, `Throws`, `EndRound` | `mirrorInto`, await by await |
| `OwnerSells`, `Devalued` | the owner, the market |

Abstracted: what the checks decide of a token's market (liquidity, age,
authorities, holders, sell probe, price drift) is one number per asset, the
dollars an order may have, 0 where refused; dollars are whole and a percentage
rounds down; a token is bought at a dollar; every chain is enabled and prices are
never stale. An exit's fraction is an exact quotient.

### ShareLedger

Amounts are the integers of `Fx`: `ONE` of them make a dollar or a share, so the
floors and ceilings of num.ts are those of the code with a small scale. `policy`
is one of two economics, the equity moves by deposits, exits and `Reprice`.

### ListingRegistry

`listings` is the registry's map and `vaults`, `platform` the accounts of the
program it caches. A read of a vault (`ReadVault`) and its recording
(`reconcile`) are separate steps, and so are a listing's quote and its payment.

### TraderInbox

`page` is a tab with the form, `requests` what is on the wire, `rows` the table.
An answer may be lost, or come back without a body; then the tab shows what the
code shows. The endpoint reads no state before an await, so `Store` is one step.

### CandleStore

One token and one resolution; two processes share the file and each has a memo.
Each process is started with one feed or the other (`Configured`), and `series` is
what it reads: Birdeye's series, or the deepest of the pools that GeckoTerminal
found, remembered like the finding that there is none. The series are different
sets of candles (`Traded`), and one file takes them all (marketdata/index.ts:34).
With no pool the answer is what the cache has (`answer.poolless`). An action ends
where the code awaits: the search for a pool, a page, the read before a merge, the
write. A crash during the write leaves the file `Torn`; after a crash the process
may be started with the other feed. Time is in half intervals, so a
candle can be fetched before it is final. `excused` names what the code does not
protect against: a fetch cut off by `MAX_PAGES`, a merge with a series another
process replaced meanwhile, a fetch that waits past the end of an interval.

### LeaderFeed

A transaction is what its sender wanted of each mint, plus rent, the fee, whether
SOL was wrapped, whether somebody else paid the fee, whether it failed;
`deltasFromMeta` and `extractSwap` see only the balances. `deltasFromMeta` adds the
fee back whoever paid it, as the code does, so a sponsored transaction shows SOL
that the leader never had; that and rent are the `StraySol` of a transaction.
`pollEnd` and `historyPage` choose which transactions the provider serves, `pollEnd`
also which mints it prices; a page of the backfill may fail at its prices, which
ends the walk, or at its listing, which throws the walk away. `delivered`,
`reported`, `refused` and `overlooked` record what became of each transaction of a
poll, `walk.read` and `walk.skipped` of each transaction of a backfill.

### Scoring, Ability, TraderProfile

Operators over a tape of fills, and one state machine that grows the tape and
scores it from any point on (a backfill may start anywhere). Money is in cents,
shares and scores in whole points, every division rounds down, logarithms are
five marks to the decade and a deviation is a whole number up to `MaxRoot`, a
thousand per cent. A list is a function on places, and what a filter leaves of it
keeps its places. Fills become episodes by a recursive function, in the order
`buildEpisodes` sorts them (`InOrder`); the other sorts of the code are said by
what they are for: a percentile is the element of its rank, the worst drawdown the
largest fall of the running result. `curve`, weights, gates and grades are those
of the code. `Unmeasured` is its `null`, and
weights of what is unmeasured drop out as they do there. Prices come from candles
and from the trader's own fills, layered as in candlepath.ts; what the market says
of now is a constant per view. Left out: flags, gaps and explanations, skill
versus exposure, the half-life of an edge.

### FeeLedger

`accounts` are the four maps in memory, `saved` the two tables. Amounts are cents
and the leader's half rounds down, where the code divides floating-point numbers;
that the treasury's half is the remainder is what counts. `settle` and `payout`
have no caller under `src/` and are open to the operator.

### Dashboard

One tab. `Show` is what React does when the page changes: which component stays
(a trader's page that follows another is the same component with a new leader),
which is unmounted and forgets. Requests (`reads`), calls of Privy (`runs`) and
the calendar's `script` end in any order, some after the page that started them. A
script may load and bring no widget (`empty`), or be refused; a calendar that then
has no event left to wait for is `stuck`. `trader.heard` says whether the leader's
own profile was answered, since another's late answer fills the page too.
`session` is what the tab knows of Privy, `granted` what Privy has on record.

### Composition

`MCMirror` puts the two hosts under one leader, `MCPlatform` its parts side by
side. No step of one part reads another's state, so a behaviour explores one of
them, whichever (`host`, `part`), and the state space is the sum and not the
product. The polls and the backfill of `LeaderFeed` are two parts: they run in
different commands and share the chain alone.

## 3. Runs

| run | module, cfg | expect | question |
|---|---|---|---|
| `vault` | MCFomoVault, FomoVault.cfg | pass | deposits, redemptions and trades of several holders in every order |
| `vault_terms` | MCFomoVault, FomoVaultTerms.cfg | pass | the authority changes the terms; claims drain |
| `vault_settle` | MCFomoVault, FomoVaultSettle.cfg | violation | "balances cannot move between a share burn and its asset payouts" |
| `vault_late` | MCFomoVault, FomoVaultLate.cfg | violation | "complete when every asset has been considered" |
| `mirror` | MCMirror, Mirror.cfg | pass | budgets, caps and exits over batches that half execute, in both hosts |
| `follow_roundtrip` | MCMirror, MirrorRoundTrip.cfg | violation | "Fraction of the vault's current position to dispose" |
| `platform` | MCPlatform, Platform.cfg | pass | ledger, registry, inbox, candles, feed, scorers, fees, web application |
| `follow` | MCFollowServer, FollowServer.cfg | pass | two wallets, one leader: promise, fees, nobody is skipped |
| `follow_time` | MCFollowServer, FollowServerTime.cfg | pass | the promise with one wallet, two leaders, a clock, one crash or shutdown |
| `follow_unsubscribe` | MCFollowServer, FollowServerUnsubscribe.cfg | violation | "Terminal until they grant it again" |
| `follow_twice` | MCFollowServer, FollowServerTwice.cfg | violation | "a crash ... cannot leave a trade eligible to be mirrored a second time" |
| `follow_outage` | MCFollowServer, FollowServerOutage.cfg | violation | "a subscriber is briefly not followed" |

### Properties of the vault

| property | kind | says | mutant that breaks it |
|---|---|---|---|
| `TypeOK` | invariant | types; nothing below zero | `SaturatingSubMutant` (plain subtraction) |
| `PendingBacked` | invariant | the pending bucket is what the open requests put in, plus what trades moved through it | `CloseRequestMutant` |
| `SupplyBacked` | invariant | the supply is the sum of all shares | `SharesLeftMutant` |
| `BlockedOnlyByACrankableClaim` | invariant | if claims block the vault, one of them can be drawn | `CompleteLateMutant` |
| `SerialClaims` | invariant | one claim at a time, counted exactly | `NoClaimsOpenMutant` |
| `RedeemsInKind` | refinement | implements `VaultPromise` | `CompleteEarlyMutant` |
| `ClaimantNeverShortPaid` | invariant | a draw pays at least the fraction of the book at the burn | `MayTradeMutant` |
| `EntryPriceHonest` | action | a deposit never dilutes, a withdrawal never gains | `MulDivFloorMutant` |
| `ExitCostAsAgreed` | action | an exit costs no more than the fee at entry | `FeeSharesMutant` |
| `ClaimsDrain` | liveness | a blocked vault is unblocked | `CompleteLateMutant` |

Three of them hold until a claim draws a mint registered after its burn
(`lateDraw`); what happens then is the subject of `vault_late`.

### Properties of the follow server

| property | kind | says | mutant that breaks it |
|---|---|---|---|
| `FeesAreForFills` | invariant | owed, in memory and on disk, never exceeds what landed, and equals what was confirmed if the process never stopped | `SavedFeesMutant` |
| `KeepsItsPromise` | refinement | implements `FollowPromise` | `EligibleMutant` |
| `EveryoneIsServed` | liveness | whoever waits for a turn gets it | `NextSubMutant` |

### Properties of the mirror

| property | kind | says | mutant that breaks it |
|---|---|---|---|
| `DailyBudgetHolds` | invariant | what a UTC day really deploys is within its budget, and one budget more for each buy that landed and then threw | `applyBuyMutant` |
| `LimitsCompose` | invariant | position cap, count and reserve hold over a batch, while exits filled at their book value | `sizeEntryMutant` |
| `FilledOnce` | invariant | a trade whose fill was reported is filled once | `checkCommonMutant` |
| `NeverLagsTheLeader` | invariant | sells that all filled leave no larger part than the leader kept, one token a trade aside | `FrozenMutant` |
| `SpendingBounded` | invariant | a follower's day spends its budget once, and once more for each cycle that threw | `DeployedMutant` |
| `ExitKeepsUp` | invariant | one exit in a batch leaves the follower no larger part than the leader, a token aside | `leaderPositionBeforeMutant` |

### Properties of the platform

| property | kind | says | mutant that breaks it |
|---|---|---|---|
| `SharesConserved` | invariant | every share is in exactly one lot | `BurnedMutant` |
| `NoMomentChargedTwice` | invariant | the management fee charges no moment twice | `AccruedUntilMutant` |
| `ExitsDiluteNobody` | action | an exit takes at most the burned shares' part | `GrossMutant` |
| `DepositsDiluteByDust` | action | a deposit buys at most its money's worth and a unit per share | `IssuedMutant` |
| `LockupHolds` | action | nothing leaves a locked lot | `KeptMutant` |
| `NoFeeOnRecovery` | action | no performance fee on lots under water | `performanceFeeUsdMutant` |
| `OnlyThePaidAreLive` | invariant | on the roster means built and paid, at most at the quote | `canTransitionMutant` |
| `QuotesNeverFlatter` | invariant | an exit quote is never better than the program | `FeeNotRaisedMutant` |
| `SeatsWithinCap` | invariant | those never suspended fit the cap | `HasRoomMutant` |
| `HourlyCeiling` | invariant | no hour admits more new traders than the ceiling | `applicationsSinceMutant` |
| `ReceivedIsRecorded` | invariant | a form that says "received" has a row | `AcceptsMutant` |
| `LeadsSurvive` | action | a resubmission changes the answers and nothing else | `UpsertedMutant` |
| `AnswersAreWhole` | invariant | an answer holds every candle of its window that all series have, three named exceptions apart | `UnionMutant` |
| `CachedCandlesAreFinal` | invariant | no partial candle is kept | `ClosedMutant` |
| `MirrorsWhatWasTraded` | invariant | up to the cursor every swap is delivered as made, or reported, and none is invented but from a transfer with stray SOL | `newestCursorMutant` |
| `BackfillHasNoHole` | invariant | a backfill is a stretch with nothing missing but what was not served and `onSkip` heard of | `OldestMutant` |
| `RecordIsTheTape` | invariant | both scorers' result is the cash on the tape | `ReturnedFlatMutant` |
| `SeatsAreEarned` | invariant | a seat needs profit, capacity, retention and rank | `GatedMutant` |
| `TwoViewsAgree` | invariant | owed and collected are payable and paid, in memory and on disk | `platformUsdMutant` |
| `NobodyWaitsInVain` | invariant | a busy button, a loading page and a loading calendar have something on the way; a calendar is stuck only where its script was refused or brought no widget | `PanelSettlesMutant` |

A mutant is a definition `...Mutant` placed before the one it stands in for. Each
is a plausible slip: a dropped guard, a rounding the other way, an early return
in the wrong place. Substituted for the original under the same configuration it
makes TLC report the property.

### Bounds, and why they are enough

* `vault`: two depositors (one of them the leader, whose exits have a condition
  of their own) and the treasury as a third holder; two mints, so that a claim
  has a first and a second draw and there is something to trade; two burns, so
  that a claim can follow another or collide with it; one deposit size and one
  posted NAV that is not a multiple of it, so that the divisions round; one trade
  size, between any two of the vault's accounts. The
  clock stands still: staleness is `vault_terms`'s.
* `vault_terms`: one depositor, two authorities, two managers and two
  treasuries, three fees (below the cap, at it, above it), both pauses, two slots
  so that a NAV can be stale, one burn of half or of everything.
* `follow`: two wallets, because the question is what one does to the other; one
  trade is enough for a duplicate, since duplicates come from being offered it
  again; one lost confirmation per wallet.
* `follow_time`: one wallet, two trades of two leaders, pages of one signature
  (truncation), two instants (an age limit and a retention of zero make the first
  of them old), one crash or shutdown anywhere.
* `mirror`: two tokens, so that an exit of one can pay for an entry of the other;
  three trades with polls of two, so that a burst is split and a range is read
  again; two days; one throw, before or after landing; exits that fill at all or
  half of their book value; three policies (one position, two, halted). The
  leader moves only where a loop can notice (`LeaderMovesAreSeen`): elsewhere its
  moves commute with the loop's steps.
* `platform`, each part with what its hazards need: the ledger two members, a
  scale of four units to the dollar, four operations or price moves, a vault that
  charges everything and one that charges the largest performance fee; the
  registry two leaders, one seat, one suspension each, one reprice; the inbox two
  tabs, two wallets and a window shorter than the behaviour; the candles two
  processes on either feed, one pool or none, three windows that overlap and stand
  apart, pages of two and two pages a fetch, two ticks around the close of an
  interval; the feed three transactions of five shapes with polls of two, the
  backfill the same in two pages of one;
  the scorers four fills of two tokens, ties, a long gap, dust, two markets; the
  fees three fills, two collections or payouts, a fee that splits unevenly and a
  trade too small for one; the web application two traders, one of them
  without a profile, a link to a third, two changes of page and two calls of
  Privy, three of these in all, from the form or from a trader's page: a calendar
  can be left and come back to, and a page left with its request still out.
* The violation runs use the smallest instance that shows the behaviour.

### Fairness

* `FomoVault!FairSpec`: weak fairness of drawing from a holder's incomplete
  claim. The program lets anyone pay for a draw (lib.rs:497), so an open claim
  needs only one interested party, and everyone who wants to trade or leave is
  one. Nothing else is fair: deposits, trades and closings may never happen.
* `FollowServer!FairSpec`: weak fairness of the loop. Every await in it is a
  network call that returns or throws, and `loop` catches what is thrown and
  sleeps for a bounded time. Neither the handlers nor the world are fair.

## 4. Proofs

Every theorem is about the specification as the runs check it, for all sets of
holders, wallets, leaders and assets, all policies, amounts and bounds that
satisfy the named assumptions of the module that declares them. TLC evaluates
those assumptions in every run that uses the module. Most assumptions say which
constants are numbers or finite sets. Those that say more:

* the fees and terms are ones that the code's own validation accepts
  (`ParameterAssumption`, `FeeAssumption`, `LedgerAssumption`, `MirrorAssumption`);
* `ClearAssumption`: the leader's swaps are clear of dust and of stray SOL (rent,
  or a fee somebody else paid), the two sizes extractSwap takes for granted
  (swaps.ts:29);
* `RecoveryIsFree` is about a leader who is not the treasury;
* `minComposite > 35` in `ProfileAssumption`: the bar for a seat, 60 by default
  (shortlist.ts:111), is above the ceilings of the two gates. With a lower bar a
  trader who lost money could be listed;
* `NullAssumption`: null is neither a number nor an episode, and what a market
  answers is a finite set of candles.

No invariant of this project is inductive alone. Each section below names the
strengthening, and why it is needed.

### The vault (`FomoVaultProofs`)

| theorem | statement |
|---|---|
| `Inductive` | `Spec => []IInv` |
| `TypeCorrect` | `Spec => []TypeOK` |
| `ClaimsAreSerial` | `Spec => []SerialClaims` |
| `NeverStranded` | `Spec => []BlockedOnlyByACrankableClaim` |
| `CompleteClaimsAreFull` | `Spec => []CompleteClaimDrewEverything` |
| `ClaimantsAreNotShortPaid` | `Spec => []ClaimantNeverShortPaid` |
| `RequestsAreBacked` | `Spec => []PendingBacked` |
| `SharesAreBacked` | `Spec => []SupplyBacked` |
| `ExitsCostAsAgreed` | `Spec => ExitCostAsAgreed` |
| `PricesAreHonest` | `Spec => EntryPriceHonest` |
| `VaultRedeemsInKind` | `Spec => RedeemsInKind` |

`IInv` conjoins

* `TypeOK`;
* `ClaimsSane`: an open claim burned between one share and the whole supply, has
  at least one asset to draw, and its bitmap is a finite set of handed out
  indices with exactly `assetsClaimed` members. Without it the test of
  `is_complete`, which compares two counters, says nothing about which assets
  were drawn;
* `IndicesSane`: indices are handed out consecutively, each to a mint. It is what
  turns "fewer draws than assets" into "there is a registered asset not drawn";
* `ListingSane`: a vault is listed exactly when it has an asset (the quote mint),
  and before that there is no share account, no request and no agreed fee;
* `PendingSane`: `pending_claims` is 0 or 1, and 1 only with an incomplete claim
  around, also after a late draw, when `SerialClaims` says nothing;
* `SerialClaims`, whose preservation by `ClaimAsset` needs the three above;
* `FeeSane`: the vault's fee only ever ratchets down, so it is at most what each
  holder agreed to.

`NeverStranded` and `CompleteClaimsAreFull` are counting arguments on top of it
(a set of fewer indices than a range misses one; a subset of the same size is the
whole). `ExitsCostAsAgreed` and `PricesAreHonest` are about one step: a floor is
within one of the quotient, and the share price moves with the sign the rounding
gives it. The two sums are invariants of their own over `IInv`: an instruction
changes a total as it changes the entries of one or two holders, and a trade
changes the pending bucket and what trades brought to it alike.

`ClaimantNeverShortPaid` compares a payment with a balance some steps earlier.
`PayInv` follows what is in between: of each asset of an open claim's burn, either
the draw has paid its fraction, or the book still holds what it held at the burn
(`DrawsSane`). That no two mints share an index (`OneMintPerIndex`) makes a bit of
the bitmap stand for one mint; that claims are serial and block trades leaves only
settled deposits, which add, and the claim's own draws.

The refinement rests on the same two invariants. What a holder is still owed
(`Owed`) is the burned fraction of the assets of the burn that are not drawn; that
the lock is open only when nobody is owed anything (`FreeOwesNobody`) makes trades
and burns steps of the promise, `PayInv` makes a draw one, and `CompleteDrewAll`
makes closing a claim a step it does not see. A new mint's index is beyond the count
of every open claim, so registering it owes nothing to who left before.

### The follow server (`FollowServerProofs`)

| theorem | statement |
|---|---|
| `TypeCorrect` | `Spec => [](TypeOK /\ Control)` |
| `ServerKeepsItsPromise` | `Spec => KeepsItsPromise` |
| `FeesMatchFills` | `Spec => []FeesAreForFills` |

Three invariants, each resting on those before it.

* `Control` goes with `TypeOK`: the program counter agrees with the data. A plan
  is held only between `execute` and `confirm`, and no copy outside a cycle.
* `Memory`: a copy has everything its row remembers; what is remembered landed;
  the plan in hand has nothing remembered in it; at `confirm` the trade in hand has
  landed. The refinement needs it wherever something is signed or recorded, and
  is then one case per action: most are `Quiet`, invisible to the promise, the
  others are one of its actions.
* `Books`: for each subscriber, owed plus in flight is at most what landed, and
  equals it, less the confirmations that were lost, while the process never
  stopped. `FeesAreForFills` does not mention what is in flight and is not kept
  without it.

### The mirror (`MirrorProofs`)

| theorem | statement |
|---|---|
| `PooledTypeCorrect` | `PooledSpec => [](LeaderTypeOK /\ PooledTypeOK)` |
| `BudgetIsKept` | `PooledSpec => []DailyBudgetHolds` |
| `CapsAreKept` | `PooledSpec => []LimitsCompose` |
| `TradesFillOnce` | `PooledSpec => []FilledOnce` |
| `NeverBehind` | `PooledSpec => []NeverLagsTheLeader` |
| `FollowTypeCorrect` | `FollowWalletSpec => [](LeaderTypeOK /\ FollowTypeOK)` |
| `SpendingStaysBounded` | `FollowWalletSpec => []SpendingBounded` |
| `ExitsKeepUp` | `FollowWalletSpec => []ExitKeepsUp` |

The planner checks each limit against a provisional book as if all it planned had
filled; the loops then fill a part of it, at other amounts. The proofs are about
the distance between the two.

* *Limits.* A plan is replayed (`Replay`): its intents come with the books the
  planner went through, proved by induction over the batch, and each book keeps the
  limits. The real book `Trails` the provisional one (same equity, no more
  deployed) whatever fails, and is dominated by it (it holds nothing that the other
  does not, nothing larger, and is worth no less) while no exit filled below its
  book value. `PooledInv` says that
  what is left of the plan can always be replayed from a book that covers the
  real one; `FollowInv` the same of a wallet, where the day's spending is what is
  remembered and what the cycle adds, and a budget more for each cycle that threw.
  The pooled runner's counter is within the budget, and so is each buy that a throw
  hid from it (`BudgetSound`, `BuysFit`).
* *Exits.* `NeverBehind` and `ExitsKeepUp` are about what is left of an asset
  after the leader sold of it. An exit of a leader who held `h` and sold `s`
  leaves the part `h / (h + s)` of the amount, a token aside for the floor
  (`ExitLeaves`), and exits compose, a token each (`ExitsCompose`). By induction
  over the batch the last provisional book keeps no larger a part of an asset that
  was only sold than the leader (`PlanKeepsUp`), and an exit that is all of its
  asset in the batch is planned as one intent of the right size (`LonePlan`).
  `CatchInv` carries the first to the real book: while all fills, it holds no
  more of any asset than the provisional one. `ExitInv` carries the second: such an
  exit is still due, with the wallet as it was read, or done. Both need that a
  batch names no trade twice, which the tape's numbering gives.

### The ledgers (`LedgerProofs`)

| theorem | statement |
|---|---|
| `LedgerTypeCorrect` | `LedgerSpec => []LedgerTypeOK` |
| `SharesAreConserved` | `LedgerSpec => []SharesConserved` |
| `NoDoubleCharge` | `LedgerSpec => []NoMomentChargedTwice` |
| `ExitsAreFair` | `LedgerSpec => ExitsDiluteNobody` |
| `DepositsAreFair` | `LedgerSpec => DepositsDiluteByDust` |
| `SortsMoveNothing` | lots are always in the order of their deposits |
| `LockedSharesStay` | `LedgerSpec => LockupHolds` |
| `RecoveryIsFree` | `leaderId # treasuryId`: `LedgerSpec => NoFeeOnRecovery` |
| `FeeTypeCorrect` | `FeeSpec => []FeeTypeOK` |
| `TheTwoViewsAgree` | `FeeSpec => []TwoViewsAgree` |

The shares of a ledger are a sum over members of sums over lots, so that every
operation is an equation between sums: what a withdrawal burns, walking the lots
by a recursive function, is what the lots lose. `LedgerInv` adds to types and
conservation that no accrual is ahead of the clock. The four action properties
are then about one step, and rest on lemmas about `Fx`: what a floor or a ceiling
of num.ts gives away, at most a unit, and to whom. `LockupHolds` needs the order of
the lots too, since the code sorts before it walks and the walk stops at the
unlocked shares. The fee ledger's invariant is that both copies of the maps, the
one in memory and the one in the tables, balance; a save or a restart replaces one
by the other.

### Onboarding and the web application (`OnboardingProofs`)

| theorem | statement |
|---|---|
| `RegistryTypeCorrect`, `InboxTypeCorrect` | `RegistryTypeOK`, `InboxTypeOK` always hold |
| `RosterIsPaidFor` | `RegistrySpec => []OnlyThePaidAreLive` |
| `PagesNeverFlatter` | `RegistrySpec => []QuotesNeverFlatter` |
| `CapHolds` | `RegistrySpec => []SeatsWithinCap` |
| `ReceivedMeansRecorded` | `InboxSpec => []ReceivedIsRecorded` |
| `LeadsAreKept` | `InboxSpec => LeadsSurvive` |
| `CeilingHolds` | `InboxSpec => []HourlyCeiling` |
| `NobodyIsLeftWaiting` | `DashboardSpec => []NobodyWaitsInVain` |

`RegistryInv` says what each party knows: a vault was paid at most what its lister
signed, an unrecorded read is at worst too dear, a cached fee too, and a row that is
paid for says so. A fee only falls, so what is stale is dear; the lemma that a
smaller fee never pays out less turns this into `QuotesNeverFlatter`. `CapHolds`
counts: a seat is taken below the cap, and what was suspended once is no longer
counted. `CeilingHolds` counts too: an hour ends with its last new row, and the
endpoint counted the hour before that one. `InboxInv` says that an answer, on the
wire or on the page, that claims a row has one. `TabInv` says of the tab that what
waits has something on the way, that a trader's page has asked for its own leader,
and that reads are of traders.

### Market data (`MarketProofs`)

| theorem | statement |
|---|---|
| `FeedLosesNothing` | `FeedSpec => []NoneLost` |
| `TradesAreAsMade` | `FeedSpec => []MirrorsWhatWasTraded` |
| `BackfillIsUnbroken` | `FeedSpec => []BackfillHasNoHole` |
| `AnswersAreComplete` | `CandleSpec => []AnswersAreWhole` |
| `CandlesAreFinal` | `CandleSpec => []CachedCandlesAreFinal` |

`FeedInv` says what a poll and a walk have in hand: the signatures between the
cursor and one it began at; the stretch between the signature it is at and the one
it began at. That nothing is lost follows from where the cursor is moved to.
`TradesAreAsMade` adds that a transaction is read as it was meant, leg by leg,
through the balances that are all the code sees, stray SOL included. For the
backfill every signature of the stretch walked was read, or skipped as not served.
`CandleInv` says of each process
what its pages cover so far (`Forward`, `Backward`, by feed) and of what is stored
that it is whole where all series have candles (`Common`), whichever of them it
came from: its overlap or seam with what was missing leaves no hole when the two
are merged. Another process may write in between; the excuse `raced`
is raised exactly when it did.

### Scoring (`ScoringProofs`)

| theorem | statement |
|---|---|
| `PagesShowTheTape` | `ProfileSpec => []ProfileInv` |
| `RecordsAreTheTape` | `ProfileSpec => []RecordIsTheTape` |
| `SeatsAreAlwaysEarned` | `ProfileSpec => []SeatsAreEarned` |

`ProfileInv` is the state machine's part: fills are typed and in time order,
numbered by their places, holdings are natural numbers, and a page that is shown
is a score of the tape as it stands. The rest is about the scorers, for any tape,
window, market and candidates.

* *The record.* The scorer reads fills in its own order, sorted by time and
  signature; the tape is in the chain's. On a readable tape the two agree within
  each token (`TokenInOrder`), which is all that matters, since a fill touches one
  token's position. By induction over what has been read (`StagesAccounted`), an
  open position has bought, sold and paid what the tape did since the trader last
  had none of the token (`Right`), and what is closed so far is, summed over
  tokens, the cash of the fills up to then (`Accounted`). A readable tape never
  leaves a trace small enough to pass for nothing, so the scorer closes a position
  exactly where the tape is flat. At the end of the tape the sum is `Realised`
  (`RealisedByClosed`), and the ability profile, which drops episodes that sold more
  than they bought, drops none (`JudgedOK`).
* *The seat.* The two gates hold a score at 30 or 35, below any bar the
  assumptions admit. An implied capacity is the nearest rank of a quarter of the
  positions, so it reaches the smallest vault only if fewer than a quarter do not
  (`FewAreTight`). A rival left waiting has as many candidates ahead as there are
  seats, and whoever outscores that rival has fewer (`NobodyOvertaken`).
* *The loser.* A trader who lost money gets at most 25 for profitability, which
  weighs 30 of 100, and at most 100 for the rest. Whatever could not be measured
  and drops out of the average, the average is below 80 (`LoserAverage`), where
  the grade A begins. That needs every dimension to be a per cent or `Unmeasured`:
  most lemmas of the module type the metrics, the price paths and the curves they
  go through. It is also where a division by nothing would show.

### What the proofs rest on

`LedgerMath` has the mathematics: that a property of the empty set and of each set
one larger holds of all finite sets, and of numbers likewise, with the property as
a set (the library's induction theorems take an operator, which the provers cannot
instantiate); what the folds of the community modules sum; floors and products. The
recursion of the models is written as recursive functions, which these lemmas
reach.

The proofs changed what the project says in these places. The two exit properties
of the mirror allowed for too little rounding, a token in all, where each trade
may cost one. `planCycle` became a function over the batch, and the pages and plans
of `FollowServer` sets, since their order decides nothing. That the pooled loop's
equity never moves (`Valued`) is a lemma, and the reason its drawdown breaker never
trips. The scorers were recursive operators over sorted sequences; they are
functions on places now.
These assumptions were silent before: `ClearAssumption`, the finite set of mints,
two accounts in `RecoveryIsFree`, the bar above the gates, finite candles, and a
null that is no number.

### Only model-checked

* `ClaimsDrain`, `EveryoneIsServed`: liveness under fairness, out of the prover's
  reach.
* The violation runs are counterexamples and need no proof.

## 5. Where the code and its comments part

* **A deposit can be settled while a claim is open** (lib.rs:305). The claim then
  draws its fraction of a larger balance, and the depositor's money pays part of
  it, although state.rs:57 says balances cannot move in between
  (`vault_settle`). Deposits only raise the quote balance, which is why
  `ClaimantNeverShortPaid` still holds.
* **A mint can be registered, and drawn, while a claim is open** (lib.rs:204).
  The draw counts towards the claim's number of assets, so the claim completes
  with an older asset undrawn, and anyone may then close it (`vault_late`).
* **The loop overwrites an unsubscribe** (index.ts:192). It writes back the row
  it read before its awaits, status included (`follow_unsubscribe`).
* **A stop between a swap and the end of its leader's turn forgets the swap**
  (index.ts:191), in a crash and in an orderly shutdown, which exits after one
  second whatever is in flight (`follow_twice`).
* **An outage of Privy revokes subscribers for good** (privy-signer.ts:110,
  `follow_outage`).

* **A leader who buys and sells within one poll leaves the follower holding**
  (follow/runner.ts:164). The exit is sized by the position before the cycle,
  which was none, although types.ts:111 calls its fraction that of the current
  position (`follow_roundtrip`).

Each run's counterexample is a behaviour of the code as written. Met while
modelling, and named here without a run of their own:

* The manager's pause stops exits too (lib.rs:617), which README and platform.rs
  say nobody can.
* In neither host can a drawdown or daily-loss breaker trip: the follower's marks
  are the equity just read (follow/runner.ts:141), and applyFill never moves the
  pooled vault's equity (runner.ts:83). The flatten behind them is unreachable.
* Suspending gives a seat away and resuming ignores the cap (registry.ts:182).
  `SeatsWithinCap` is stated for those never suspended.
* Accruing the management fee at intervals under a second charges nothing: the
  seconds are whole, the mark moves anyway (ledger.ts:338).
* The leader's half of a fee is payable to the watched wallet (follow/runner.ts:223),
  which the comment of `accrue` advises against.
* A transfer in that paid rent, or out that got it back, reads as a trade for the
  rent (swaps.ts:79), and so does one whose fee somebody else paid, since the fee
  is added back all the same (swaps.ts:191). `MirrorsWhatWasTraded` excuses exactly
  these shapes.
* `execute_trade` takes the bucket of pending deposits for either side of a trade
  (lib.rs:566). `PendingBacked` says where the bucket then stands: a trade out of it
  leaves open requests that can be neither settled nor cancelled in full. What a
  route does with accounts the vault owns beyond these two is seen by neither the
  program nor the model.
* A backfill leaves out the transactions the RPC did not serve and goes on
  (watcher.ts:188). Only the watcher's `onSkip` hears of them, which the CLI prints
  with --verbose (cli.ts:43); the callers that score are told of truncation alone
  (profile.ts:103, shortlist.ts:196).
* A buy that lands and then throws is not counted in the day's budget, and is bought
  again (jupiter.ts:189, runner.ts:125). `DailyBudgetHolds` and `FilledOnce` name it.
* Processes on different feeds mix their series in one file (marketdata/index.ts:34),
  although the series disagree (geckoterminal.ts:25), and a process that finds no
  pool answers with whatever part of the window is cached (geckoterminal.ts:135).
* A hole inside a cached series is never asked for again (cache.ts:104), and
  whether a candle is closed is judged when it is written (cache.ts:84).
* A candle's price is its close, also for a moment before it (candlepath.ts:81).
* `CurrentMarketLookup` has one price for every moment (shortlist.ts:68): a delay
  costs nothing and no token was ever rugged, so neither dimension tells traders
  apart.
* An empty answer for a token's pools is remembered as none for the life of the
  process (geckoterminal.ts:123).
* The application never calls `POST /subscribe`, which docs/SERVER.md:42 has it do,
  and shows a delegated wallet as following whichever leader's page is open
  (FollowPanel.tsx:80).
* One malformed subscriber row fails every cycle of the server (store.ts:453); the
  first subscriber's cursor stands for all (follow/runner.ts:232).
* A policy's half spread and levy cap may be any natural numbers (policy.ts:251);
  only the other fees have a ceiling. The ledger is proved for all of them.
* Where leader and treasury are one account, the platform's fee on an exit lands in
  the leader's lots, also when the lots sold are under water (ledger.ts:292);
  `NoFeeOnRecovery` is proved for two accounts.
* A trader's page shows whatever profile arrives last, also that of the trader it
  showed before (TraderPage.tsx:35, which cancels nothing, unlike App.tsx:41 and
  :56). A profile that cannot be had leaves the pentagon's skeleton up for good
  (TraderPage.tsx:139), and a roster none of whose profiles could be read never
  counts as loaded (RosterPage.tsx:42).
* A calendar whose script was refused on an earlier visit waits forever
  (CalendlyEmbed.tsx:81), and so does one whose script loads without defining
  `window.Calendly` (CalendlyEmbed.tsx:63), on that visit and on every later one.
  `NobodyWaitsInVain` names both.
* One flag says which call is busy: the end of one call re-enables the button of
  another that still runs (FollowPanel.tsx:76).

## 6. Plan

Modelled: `FomoVault`, `FollowServer` with its promise, the mirror in both hosts,
the platform's parts and the web application. Proved: every invariant and action
property of the runs, and the refinements of `VaultPromise` and `FollowPromise`.
What is left is what section 7 lists, and stays out for the reasons given there.

## 7. Not modelled

* Provider clients beyond the paging of candles: requests and parsing; what they
  may answer, or fail to, is a choice of the modules that call them.
* The rate gate's pauses: one promise chain.
* The commands of `cli.ts` other than the loop: they read and print.
* What the web application's pages draw (audit, deck, diagrams, documents), the
  site, the build and the deployment scripts: rendering of data built beforehand.
* `roster.ts`, `listing.ts`, `types.ts`: data, texts and types.
* Of the scorers: flags, gaps and explanations (text), skill versus exposure and
  the half-life of an edge (shown, and read by no decision).
* Widths of integers in TypeScript and floating-point error: amounts are integers
  and round down where the code divides.
