------------------------------ MODULE FeeLedger ------------------------------
(***************************************************************************)
(* What mirrored trades cost and who is owed it (src/src/follow/fees.ts),  *)
(* and the two tables it is kept in between runs of the follow server      *)
(* (src/src/server/store.ts).  A fill owes a fee split between the leader  *)
(* copied and the treasury; collecting it and paying it out are separate.  *)
(* Nothing under src/ collects or pays out yet: both are open to the       *)
(* operator here.  Amounts are cents, and a leader's half rounds down.     *)
(***************************************************************************)
EXTENDS Integers, FiniteSets, Functions

CONSTANTS
    Followers,          \* subscriber addresses
    Payees,             \* addresses fees are owed to
    treasury,           \* FeeTerms.treasury
    payoutAddressOf,    \* where each leader's half goes
    tradeFeeBps,
    leaderShareBps,
    minChargeable,      \* minChargeableUsd
    Fillings,           \* what mirrored trades may fill for
    Sums,               \* what is collected or paid out at a time
    MaxMirrored,        \* bound: fills per behaviour
    MaxMoved            \* bound: collections and payouts per behaviour

MAX_TRADE_FEE_BPS == 100

validateFeeTerms ==
    /\ treasury \in Payees
    /\ tradeFeeBps \in 0..MAX_TRADE_FEE_BPS
    /\ leaderShareBps \in 0..10000
    /\ minChargeable >= 0

ASSUME FeeAssumption ==
    /\ validateFeeTerms
    /\ IsFiniteSet(Followers) /\ IsFiniteSet(Payees)
    /\ payoutAddressOf \in [DOMAIN payoutAddressOf -> Payees]
    /\ Fillings \cup Sums \cup {MaxMirrored, MaxMoved} \subseteq Nat

VARIABLES
    accounts,           \* feeLedger, in memory
    saved,              \* tables fees and payees
    mirrored,           \* fills so far
    moved               \* collections and payouts so far

feeVars == <<accounts, saved, mirrored, moved>>

createFeeLedger ==
    [owed      |-> [f \in Followers |-> 0], collected |-> [f \in Followers |-> 0],
     payableTo |-> [p \in Payees |-> 0],    paidTo    |-> [p \in Payees |-> 0]]

FeeInit ==
    /\ accounts = createFeeLedger
    /\ saved = createFeeLedger
    /\ mirrored = 0
    /\ moved = 0

-----------------------------------------------------------------------------
(* The fee of a trade *)

feeUsd(filledUsd) ==
    IF filledUsd < minChargeable THEN 0 ELSE (filledUsd * tradeFeeBps) \div 10000
leaderUsd(fee) == (fee * leaderShareBps) \div 10000

\* @mutant: the treasury's half is computed on its own, not as the remainder
platformUsdMutant(fee) == (fee * (10000 - leaderShareBps)) \div 10000
platformUsd(fee) == fee - leaderUsd(fee)

bump(table, key, amount) == [table EXCEPT ![key] = @ + amount]

accrue(ledger, f, leader, fee) ==
    [ledger EXCEPT
        !.owed = bump(@, f, fee),
        !.payableTo = bump(bump(@, treasury, platformUsd(fee)),
                           payoutAddressOf[leader], leaderUsd(fee))]

Mirrored(f, leader, filledUsd) ==
    /\ mirrored < MaxMirrored
    /\ mirrored' = mirrored + 1
    /\ accounts' = accrue(accounts, f, leader, feeUsd(filledUsd))
    /\ UNCHANGED <<saved, moved>>

-----------------------------------------------------------------------------
(* Collecting, paying out, and keeping the tables *)

AtMost(due, amount) == IF amount < due THEN amount ELSE due

settle(f, amount) ==
    LET paid == AtMost(accounts.owed[f], amount) IN
    /\ moved < MaxMoved
    /\ paid > 0
    /\ moved' = moved + 1
    /\ accounts' = [accounts EXCEPT !.owed[f] = @ - paid, !.collected[f] = @ + paid]
    /\ UNCHANGED <<saved, mirrored>>

payout(p, amount) ==
    LET sent == AtMost(accounts.payableTo[p], amount) IN
    /\ moved < MaxMoved
    /\ sent > 0
    /\ moved' = moved + 1
    /\ accounts' = [accounts EXCEPT !.payableTo[p] = @ - sent, !.paidTo[p] = @ + sent]
    /\ UNCHANGED <<saved, mirrored>>

\* Both tables in one transaction, at the end of a leader's turn or on SIGTERM.
saveFeeLedger ==
    /\ saved # accounts
    /\ saved' = accounts
    /\ UNCHANGED <<accounts, mirrored, moved>>

\* The process dies and is started again.
loadFeeLedger ==
    /\ accounts # saved
    /\ accounts' = saved
    /\ UNCHANGED <<saved, mirrored, moved>>

FeeNext ==
    \/ \E f \in Followers, leader \in DOMAIN payoutAddressOf, usd \in Fillings :
          Mirrored(f, leader, usd)
    \/ \E f \in Followers, amount \in Sums : settle(f, amount)
    \/ \E p \in Payees, amount \in Sums : payout(p, amount)
    \/ saveFeeLedger
    \/ loadFeeLedger

FeeSpec == FeeInit /\ [][FeeNext]_feeVars

-----------------------------------------------------------------------------
(* Properties *)

Ledgers == [owed: [Followers -> Nat], collected: [Followers -> Nat],
            payableTo: [Payees -> Nat], paidTo: [Payees -> Nat]]

FeeTypeOK ==
    /\ {accounts, saved} \subseteq Ledgers
    /\ mirrored \in 0..MaxMirrored
    /\ moved \in 0..MaxMoved

Across(table) == SumFunction(table)

\* "Two views of the same money" (fees.ts:149): what subscribers owe or paid is
\* what payees are owed or were paid, to the cent, in memory and on disk,
\* whatever is collected and paid out in between and wherever the process dies.
TwoViewsAgree ==
    \A ledger \in {accounts, saved} :
        Across(ledger.owed) + Across(ledger.collected)
            = Across(ledger.payableTo) + Across(ledger.paidTo)

=============================================================================
