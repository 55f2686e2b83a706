----------------------------- MODULE PooledRunner -----------------------------
(***************************************************************************)
(* The loop that mirrors a leader into one pooled vault: src/src/runner.ts *)
(* driven as src/src/cli.ts drives it.  A tick reads the leader's new      *)
(* trades and the leader's book, in either order and with trades landing   *)
(* in between, plans the batch, executes the intents one await at a time,  *)
(* and advances the cursor at the end.  An execution may fill, be refused  *)
(* (no route, too much impact), or throw, before or after its transaction  *)
(* landed; a throw ends the tick.                                          *)
(***************************************************************************)
EXTENDS MirrorPlan

CONSTANTS
    FillPcts,           \* what an exit fills, in percent of its book value
    MaxThrows           \* bound: ticks that throw

ASSUME PooledAssumption ==
    /\ MaxThrows \in Nat
    /\ FillPcts \subseteq Nat

VARIABLES
    policy,             \* fixed when the vault is created
    state,              \* RunnerState
    cycle,              \* the tick under way
    fills,              \* history: reported fills of each trade
    unknown,            \* history: trades whose execution threw after landing
    hidden,             \* history: today's buys that landed and then threw, and what they spent
    short,              \* history: an exit failed or filled under its book value
    throws              \* ticks that threw

pooledVars == <<policy, state, cycle, fills, unknown, hidden, short, throws>>

Idle == [step |-> "idle"]
NoneHidden == [usd |-> 0, buys |-> 0]

RunnerState ==
    [cursor: Nat, processed: SUBSET (0..MaxTrades), vault: VaultState, highWater: Nat,
     startOfDay: Nat, leaderStartOfDay: Nat, day: Nat]

ReadingTick ==
    [step: {"reading"}, at: 0..MaxTime, trades: Seq(LeaderTrade) \cup {NotRead}, cursor: Nat,
     book: LeaderBook \cup {NotRead}, late: BOOLEAN]
ActingTick ==
    [step: {"executing", "report"}, at: 0..MaxTime, trades: Seq(LeaderTrade), cursor: Nat,
     book: LeaderBook, late: BOOLEAN, before: RunnerState, clean: BOOLEAN,
     intents: Seq(MirrorIntent)]

PooledTypeOK ==
    /\ policy \in Policies
    /\ state \in RunnerState
    /\ cycle \in {Idle} \cup ReadingTick \cup ActingTick
    /\ fills \in [1..MaxTrades -> Nat]
    /\ unknown \subseteq 0..MaxTrades
    /\ hidden \in [usd: Nat, buys: Nat]
    /\ short \in BOOLEAN
    /\ throws \in 0..MaxThrows

initialState(vault, leaderUsd, at) ==
    [cursor |-> 0, processed |-> {}, vault |-> vault, highWater |-> vault.equity,
     startOfDay |-> vault.equity, leaderStartOfDay |-> leaderUsd, day |-> utcDay(at)]

PooledInit ==
    /\ policy \in Policies
    /\ state = initialState(emptyVaultState(Equity), LeaderUsd, 0)
    /\ cycle = Idle
    /\ fills = [i \in 1..MaxTrades |-> 0]
    /\ unknown = {}
    /\ hidden = NoneHidden
    /\ short = FALSE
    /\ throws = 0

histories == <<fills, unknown, hidden, short, throws>>

rollDay(s, leaderUsd, at) ==
    IF utcDay(at) = s.day THEN s
    ELSE [s EXCEPT !.day = utcDay(at), !.startOfDay = s.vault.equity,
                   !.leaderStartOfDay = leaderUsd, !.vault.deployed = 0]

----------------------------------------------------------------------------
(* tick *)

StartTick ==
    /\ cycle = Idle
    /\ cycle' = [step |-> "reading", at |-> now, trades |-> NotRead, cursor |-> state.cursor,
                 book |-> NotRead, late |-> FALSE]
    /\ UNCHANGED <<leaderVars, policy, state, histories>>

ReadTrades ==
    /\ cycle.step = "reading" /\ cycle.trades = NotRead
    /\ cycle' = [cycle EXCEPT !.trades = poll(state.cursor).trades,
                              !.cursor = poll(state.cursor).cursor,
                              !.late = cycle.book = NotRead]
    /\ UNCHANGED <<leaderVars, policy, state, histories>>

ReadLeader ==
    /\ cycle.step = "reading" /\ cycle.book = NotRead
    /\ cycle' = [cycle EXCEPT !.book = leader]
    /\ UNCHANGED <<leaderVars, policy, state, histories>>

Marks(s) == [highWater |-> s.highWater, startOfDay |-> s.startOfDay,
             leaderStartOfDay |-> s.leaderStartOfDay]

Plan ==
    /\ cycle.step = "reading" /\ cycle.trades # NotRead /\ cycle.book # NotRead
    /\ LET rolled == rollDay(state, cycle.book.total, cycle.at)
           marked == [rolled EXCEPT !.highWater =
                          IF @ < rolled.vault.equity THEN rolled.vault.equity ELSE @]
       IN  /\ state' = marked
           /\ \E markets \in Markets(cycle.trades) :
                 cycle' = [step |-> "executing", at |-> cycle.at, trades |-> cycle.trades,
                           cursor |-> cycle.cursor, book |-> cycle.book, late |-> cycle.late,
                           before |-> marked, clean |-> TRUE,
                           intents |-> planCycle(policy, cycle.trades, cycle.book, marked.vault,
                                          markets, marked.processed, Marks(marked), cycle.at)]
    /\ hidden' = IF utcDay(cycle.at) = state.day THEN hidden ELSE NoneHidden
    /\ UNCHANGED <<leaderVars, policy, fills, unknown, short, throws>>

applyFill(vault, intent, filled, at) ==
    IF intent.kind = "buy" THEN Bought(vault, intent.asset, filled)
    ELSE IF intent.asset \notin Held(vault) THEN vault
    ELSE Sold(vault, intent.asset, intent.fraction, filled,
              IF filled > Usd(vault, intent.asset) THEN 0 ELSE Usd(vault, intent.asset) - filled, at)

NextIntent == Head(cycle.intents)
HasIntent == cycle.step = "executing" /\ cycle.intents # <<>>

\* A buy spends what it was sized at; an exit of nothing is refused before a
\* quote is asked for, any other returns what the market gives.
Book(intent) == Of(intent.fraction, Usd(state.vault, intent.asset))
Sellable(intent) == Of(intent.fraction, Amount(state.vault, intent.asset)) > 0
Filled ==
    IF ~HasIntent THEN {}
    ELSE IF NextIntent.kind = "buy" THEN {NextIntent.usd}
    ELSE IF ~Sellable(NextIntent) THEN {}
    ELSE {pct(p, Book(NextIntent)) : p \in FillPcts}

ExecutedOk(filled) ==
    /\ filled \in Filled
    /\ state' = [state EXCEPT !.processed = @ \cup {NextIntent.id},
                              !.vault = applyFill(@, NextIntent, filled, cycle.at)]
    /\ fills' = IF NextIntent.id = 0 THEN fills ELSE [fills EXCEPT ![NextIntent.id] = @ + 1]
    /\ short' = (short \/ (NextIntent.kind = "sell" /\ filled < Book(NextIntent)))
    /\ cycle' = [cycle EXCEPT !.intents = Tail(@)]
    /\ UNCHANGED <<leaderVars, policy, unknown, hidden, throws>>

ExecutedNot ==
    /\ HasIntent
    /\ short' = (short \/ (NextIntent.kind = "sell" /\ NextIntent.asset \in Held(state.vault)))
    /\ cycle' = [cycle EXCEPT !.intents = Tail(@), !.clean = FALSE]
    /\ UNCHANGED <<leaderVars, policy, state, fills, unknown, hidden, throws>>

ExecutionThrows(landed) ==
    /\ HasIntent
    /\ throws < MaxThrows
    /\ throws' = throws + 1
    /\ unknown' = IF landed THEN unknown \cup {NextIntent.id} ELSE unknown
    /\ hidden' = IF landed /\ NextIntent.kind = "buy"
                 THEN [usd |-> hidden.usd + NextIntent.usd, buys |-> hidden.buys + 1]
                 ELSE hidden
    /\ cycle' = Idle
    /\ UNCHANGED <<leaderVars, policy, state, fills, short>>

EndTick ==
    /\ cycle.step = "executing" /\ cycle.intents = <<>>
    /\ state' = [state EXCEPT !.cursor = cycle.cursor]
    /\ cycle' = [cycle EXCEPT !.step = "report"]
    /\ UNCHANGED <<leaderVars, policy, histories>>

\* The report is rendered and dropped before the next tick.
Report ==
    /\ cycle.step = "report"
    /\ cycle' = Idle
    /\ UNCHANGED <<leaderVars, policy, state, histories>>

PooledNext ==
    \/ StartTick
    \/ ReadTrades
    \/ ReadLeader
    \/ Plan
    \/ \E filled \in Filled : ExecutedOk(filled)
    \/ ExecutedNot
    \/ \E landed \in BOOLEAN : ExecutionThrows(landed)
    \/ EndTick
    \/ Report

PooledSpec ==
    /\ LeaderInit /\ PooledInit
    /\ [][PooledNext \/ (LeaderNext /\ UNCHANGED pooledVars)]_<<leaderVars, pooledVars>>

----------------------------------------------------------------------------
(* Properties *)

\* What a UTC day really deploys: the buys it counted, and those that landed
\* before their execution threw (jupiter.ts:189), which it neither counts nor
\* remembers and so buys again (runner.ts:125-135).  However a burst is split by
\* failures, throws and re-reads of the same range, that is within the budget on
\* a day that hid none, and past it by no more than one budget for each that it
\* hid (engine.ts:38-45, sizing.ts:93-95).  A day is that of the tick that planned.
DailyBudgetHolds ==
    state.vault.deployed + hidden.usd <= (1 + hidden.buys) * pct(policy.dailyDeployPct, Equity)

\* Caps and the reserve compose across a burst, too: no asset past its share,
\* no position past the count, the quote reserve whole.  A plan counts on its
\* own exits, so this needs every exit so far to have filled at its book value.
LimitsCompose ==
    ~short =>
        /\ \A a \in Held(state.vault) : Usd(state.vault, a) <= pct(policy.maxPositionPct, Equity)
        /\ Cardinality(Held(state.vault)) <= policy.maxPositions
        /\ state.vault.quote >= pct(policy.quoteReservePct, Equity)

\* No trade is reported as filled twice, however often its range is read again
\* after a throw; a fill that a throw hid is not counted (runner.ts:125-135).
FilledOnce == \A i \in 1..MaxTrades : fills[i] <= 1

\* The batch only sells a, in trades not seen before, and so much of it.
SoldOnly(a) ==
    /\ \E i \in DOMAIN cycle.trades : cycle.trades[i].asset = a
    /\ \A i \in DOMAIN cycle.trades :
          cycle.trades[i].asset = a =>
              /\ cycle.trades[i].side = "sell"
              /\ cycle.trades[i].id \notin cycle.before.processed \cup unknown

AmountOf(trade, a) == IF trade.asset = a THEN trade.amount ELSE 0
LeaderSold(a) == SumFunction([i \in DOMAIN cycle.trades |-> AmountOf(cycle.trades[i], a)])

\* A tick that read the book after the trades and whose intents all filled
\* leaves the vault with no larger part of an asset than the leader kept, if the
\* batch only sold it: a token a trade aside, which rounding may leave
\* (sizing.ts:112-120, guardrails.ts:91-94).
NeverLagsTheLeader ==
    cycle.step = "report" /\ cycle.clean /\ cycle.late /\ ~policy.paused =>
        \A a \in Held(cycle.before.vault) :
            SoldOnly(a) =>
                (Amount(state.vault, a) - Len(cycle.trades)) * (cycle.book.hold[a] + LeaderSold(a))
                    <= Amount(cycle.before.vault, a) * cycle.book.hold[a]

==============================================================================
