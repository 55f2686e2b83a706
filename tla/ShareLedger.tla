----------------------------- MODULE ShareLedger -----------------------------
(***************************************************************************)
(* The share ledger of a pooled vault, src/src/vault/ledger.ts, over the   *)
(* fixed point of src/src/num.ts: members own lots of shares, each with    *)
(* the price it was bought at; deposits and exits pay a levy to the pool,  *)
(* exits pay the platform and the leader in shares, and a management fee   *)
(* mints shares to the leader.  Amounts are Fx integers: ONE of them make  *)
(* a dollar or a share, so every rounding of the code is in the model.     *)
(***************************************************************************)
EXTENDS Integers, FiniteSets, Sequences, Functions, FiniteSetsExt

CONSTANTS
    Members,            \* depositors, the leader and the treasury
    Depositors,         \* those of them who put money in
    leaderId,
    treasuryId,
    ONE,                \* num.ts: 10^18, a handful here
    Policies,           \* economics of VaultPolicy, one is in force throughout
    Amounts,            \* what members deposit or redeem
    Exposures,          \* investedUsd as a multiple of equityUsd
    SECONDS_PER_YEAR,
    MsPerSec,           \* 1000 in the code
    MaxMs,              \* bound: the clock
    MaxEquity,          \* bound: a gain never takes the book past it
    MaxOps              \* bound: operations and price moves per behaviour

BPS == 10000

\* policy.economics and PlatformTerms.withdrawFeeBps; validatePolicy bounds
\* neither the levy nor the management fee from above.
Economics ==
    [performanceFeeBps: Nat, managementFeeBpsAnnual: Nat, halfSpreadBps: Nat,
     maxLevyBps: Nat, lockupSec: Nat, withdrawFeeBps: 0..BPS]

ASSUME LedgerAssumption ==
    /\ IsFiniteSet(Members)
    /\ Depositors \cup {leaderId, treasuryId} \subseteq Members
    /\ Amounts \cup Exposures \cup {MaxMs, MaxEquity, MaxOps} \subseteq Nat
    /\ {ONE, SECONDS_PER_YEAR, MsPerSec} \subseteq Nat \ {0}
    /\ Policies \subseteq Economics

VARIABLES
    policy,             \* the economics in force
    lots,               \* each member's lots, oldest first
    totalShares,
    lastAccrualMs,
    equityUsd,          \* what the vault is worth, handed to every operation
    nowMs,
    chargedMs,          \* history: time the management fee was charged for
    ops                 \* operations so far

ledgerVars == <<policy, lots, totalShares, lastAccrualMs, equityUsd, nowMs, chargedMs, ops>>

----------------------------------------------------------------------------
(* Fixed point *)

Lesser(a, b) == IF a < b THEN a ELSE b
Greater(a, b) == IF a > b THEN a ELSE b

mulDivFloor(a, b, c) == (a * b) \div c
mulDivCeil(a, b, c) == IF a * b = 0 THEN 0 ELSE (a * b - 1) \div c + 1
mul(a, b) == mulDivFloor(a, b, ONE)
div(a, b) == mulDivFloor(a, ONE, b)
bps(amount, basisPoints) == mulDivCeil(amount, basisPoints, BPS)

SharesIn(ls) == SumFunction([i \in DOMAIN ls |-> ls[i].shares])

----------------------------------------------------------------------------
(* The ledger *)

Lot == [shares: Nat \ {0}, hwmNav: Nat, depositedAtMs: 0..MaxMs]
NewLot(shares, nav) == <<[shares |-> shares, hwmNav |-> nav, depositedAtMs |-> nowMs]>>

LedgerInit ==
    /\ policy \in Policies
    /\ lots = [m \in Members |-> <<>>]
    /\ totalShares = 0
    /\ lastAccrualMs = 0
    /\ equityUsd = 0
    /\ nowMs = 0
    /\ chargedMs = 0
    /\ ops = 0

sharesOf(m) == SharesIn(lots[m])
navPerShare == IF totalShares = 0 THEN ONE ELSE div(equityUsd, totalShares)

\* exposure stands for investedUsd / equityUsd.
levyBps(exposure) ==
    IF equityUsd <= 0 THEN 0 ELSE Lesser(policy.maxLevyBps, policy.halfSpreadBps * exposure)

Credited(amount, exposure) == amount - bps(amount, levyBps(exposure))

IssuedMutant(credited) == mulDivCeil(credited, ONE, navPerShare)
Issued(credited) == mulDivFloor(credited, ONE, navPerShare)

deposit(m, amount, exposure) ==
    LET shares == Issued(Credited(amount, exposure)) IN
    /\ amount > 0
    /\ navPerShare > 0
    /\ shares > 0
    /\ lots' = [lots EXCEPT ![m] = @ \o NewLot(shares, navPerShare)]
    /\ totalShares' = totalShares + shares
    /\ equityUsd' = equityUsd + amount
    /\ UNCHANGED <<policy, lastAccrualMs, nowMs, chargedMs>>

Unlocked(lot) == lot.depositedAtMs <= nowMs - policy.lockupSec * MsPerSec
UnlockedIn(ls) ==
    SumFunction([i \in DOMAIN ls |-> IF Unlocked(ls[i]) THEN ls[i].shares ELSE 0])
unlockedShares(m) == UnlockedIn(lots[m])

platformFeeShares(m, shares) ==
    IF m = treasuryId THEN 0 ELSE mulDivFloor(shares, policy.withdrawFeeBps, BPS)

\* How much of each lot an exit consumes, the oldest lot first.
Taken(ls, shares) ==
    [i \in DOMAIN ls |-> Lesser(ls[i].shares, Greater(0, shares - SharesIn(SubSeq(ls, 1, i - 1))))]

\* @mutant: the newest lot is consumed first
KeptMutant(ls, shares) ==
    LET last == Max({0} \cup {i \in DOMAIN ls : SharesIn(SubSeq(ls, i, Len(ls))) > shares})
    IN  IF last = 0 THEN <<>>
        ELSE Append(SubSeq(ls, 1, last - 1),
                    [ls[last] EXCEPT !.shares = SharesIn(SubSeq(ls, last, Len(ls))) - shares])

\* What is left of them: the first lot that is not consumed whole loses what is
\* still to be redeemed, and those after it stay.
Kept(ls, shares) ==
    LET left == {i \in DOMAIN ls : SharesIn(SubSeq(ls, 1, i)) > shares}
        first == Min(left)
    IN  IF left = {} THEN <<>>
        ELSE <<[ls[first] EXCEPT !.shares = SharesIn(SubSeq(ls, 1, first)) - shares]>>
             \o SubSeq(ls, first + 1, Len(ls))

\* @mutant: profit is counted from the opening price, whatever a lot cost
performanceFeeUsdMutant(ls, taken) ==
    SumFunction([i \in DOMAIN ls |->
        bps(mul(taken[i], Greater(0, navPerShare - ONE)), policy.performanceFeeBps)])
performanceFeeUsd(ls, taken) ==
    SumFunction([i \in DOMAIN ls |->
        bps(mul(taken[i], Greater(0, navPerShare - ls[i].hwmNav)), policy.performanceFeeBps)])

Capped(feeShares, redeemable) == Lesser(feeShares, redeemable)

\* The leader's part of what an exit consumed.
FeeShares(ls, taken, redeemable) ==
    LET fee == performanceFeeUsd(ls, taken)
    IN  IF fee > 0 THEN Capped(mulDivCeil(fee, ONE, navPerShare), redeemable) ELSE 0

\* Lots the leader, then the treasury, receive for their fee.
WithFees(held, feeShares, platformFee) ==
    [m \in Members |->
        held[m] \o (IF m = leaderId /\ feeShares > 0 THEN NewLot(feeShares, navPerShare) ELSE <<>>)
                \o (IF m = treasuryId /\ platformFee > 0 THEN NewLot(platformFee, navPerShare) ELSE <<>>)]

BurnedMutant(redeemable, feeShares) == redeemable
Burned(redeemable, feeShares) == redeemable - feeShares

GrossMutant(redeemed) == mulDivCeil(redeemed, navPerShare, ONE)
Gross(redeemed) == mul(redeemed, navPerShare)

withdraw(m, shares, exposure) ==
    LET platformFee == platformFeeShares(m, shares)
        redeemable  == shares - platformFee
        taken       == Taken(lots[m], shares)
        feeShares   == FeeShares(lots[m], taken, redeemable)
        redeemed    == Burned(redeemable, feeShares)
        grossUsd    == Gross(redeemed)
    IN
    /\ shares \in 1..unlockedShares(m)
    /\ redeemable > 0
    /\ lots' = WithFees([lots EXCEPT ![m] = Kept(@, shares)], feeShares, platformFee)
    /\ totalShares' = totalShares - redeemed
    /\ equityUsd' = equityUsd - (grossUsd - bps(grossUsd, levyBps(exposure)))
    /\ UNCHANGED <<policy, lastAccrualMs, nowMs, chargedMs>>

ElapsedSec == (nowMs - lastAccrualMs) \div MsPerSec
ManagementFeeUsd ==
    mulDivFloor(bps(equityUsd, policy.managementFeeBpsAnnual), ElapsedSec, SECONDS_PER_YEAR)

AccrualDue ==
    /\ policy.managementFeeBpsAnnual > 0 /\ nowMs > lastAccrualMs
    /\ totalShares # 0 /\ equityUsd > 0
    /\ ManagementFeeUsd > 0 /\ equityUsd > ManagementFeeUsd

AccruedUntilMutant == IF AccrualDue THEN lastAccrualMs ELSE nowMs
AccruedUntil == nowMs

\* Minted so that the new shares are worth the fee after the dilution they
\* cause; time too short to earn a unit of the fee is forgotten.
accrueManagementFee ==
    LET shares == IF AccrualDue
                  THEN mulDivFloor(totalShares, ManagementFeeUsd, equityUsd - ManagementFeeUsd)
                  ELSE 0
    IN
    /\ lots' = [lots EXCEPT ![leaderId] = IF shares > 0 THEN @ \o NewLot(shares, navPerShare) ELSE @]
    /\ totalShares' = totalShares + shares
    /\ lastAccrualMs' = AccruedUntil
    /\ chargedMs' = chargedMs + (IF AccrualDue THEN ElapsedSec * MsPerSec ELSE 0)
    /\ UNCHANGED <<policy, equityUsd, nowMs>>

lowerPlatformFee(fee) ==
    /\ fee <= policy.withdrawFeeBps
    /\ policy' = [policy EXCEPT !.withdrawFeeBps = fee]
    /\ UNCHANGED <<lots, totalShares, lastAccrualMs, equityUsd, nowMs, chargedMs>>

\* The market halves or doubles the book.
Reprice ==
    /\ \/ equityUsd' = equityUsd \div 2
       \/ equityUsd' = equityUsd * 2 /\ equityUsd' <= MaxEquity
    /\ UNCHANGED <<policy, lots, totalShares, lastAccrualMs, nowMs, chargedMs>>

LedgerOp ==
    \/ \E exposure \in Exposures :
          \/ \E m \in Depositors, amount \in Amounts : deposit(m, amount, exposure)
          \/ \E m \in Members : \E shares \in Amounts \cup {unlockedShares(m)} :
                withdraw(m, shares, exposure)
    \/ accrueManagementFee
    \/ \E fee \in {0, policy.withdrawFeeBps \div 2} : lowerPlatformFee(fee)
    \/ Reprice

LedgerTick ==
    /\ nowMs < MaxMs
    /\ nowMs' = nowMs + 1
    /\ UNCHANGED <<policy, lots, totalShares, lastAccrualMs, equityUsd, chargedMs, ops>>

LedgerNext == (ops < MaxOps /\ ops' = ops + 1 /\ LedgerOp) \/ LedgerTick

LedgerSpec == LedgerInit /\ [][LedgerNext]_ledgerVars

----------------------------------------------------------------------------
(* Properties *)

LedgerTypeOK ==
    /\ policy \in Economics
    /\ lots \in [Members -> Seq(Lot)]
    /\ {totalShares, equityUsd, chargedMs} \subseteq Nat
    /\ {nowMs, lastAccrualMs} \subseteq 0..MaxMs
    /\ ops \in 0..MaxOps

\* Lots stay in the order of their deposits, so that the code's sorts of them,
\* before and after an exit, move nothing (ledger.ts:258, 274).
LotsInOrder ==
    \A m \in Members : \A i, j \in DOMAIN lots[m] :
        i <= j => lots[m][i].depositedAtMs <= lots[m][j].depositedAtMs
                  /\ lots[m][j].depositedAtMs <= nowMs

\* Every share outstanding is in exactly one lot: fees move shares and mint
\* or burn nothing behind the members' backs (ledger.ts:285-305, 354-360).
SharesConserved == totalShares = SumFunction([m \in Members |-> sharesOf(m)])

\* The management fee is charged for no moment twice, however often and
\* however late it is accrued (ledger.ts:332-361).
NoMomentChargedTwice == chargedMs <= lastAccrualMs

\* An exit takes out at most the burned shares' part of the book, whatever
\* fees and levies round to: the members who stay never lose a unit to it
\* (ledger.ts:282-305, num.ts:66-82).
ExitsDiluteNobody ==
    [][lots' # lots /\ totalShares' <= totalShares =>
          (equityUsd - equityUsd') * totalShares <= (totalShares - totalShares') * equityUsd
      ]_ledgerVars

\* The shares a deposit buys are worth, at the price before it, at most the
\* money put in plus one unit per share bought: the price is truncated before
\* the issue is, and that one unit is the most the members inside can lose
\* (ledger.ts:159-171).
DepositsDiluteByDust ==
    [][totalShares > 0 /\ totalShares' > totalShares /\ equityUsd' # equityUsd =>
          LET issued == totalShares' - totalShares IN
          issued * equityUsd * ONE <= totalShares * ((equityUsd' - equityUsd) * ONE + issued)
      ]_ledgerVars

Locked(m) == sharesOf(m) - unlockedShares(m)

\* No operation takes shares out of a lot that is still locked, whichever
\* lots the redeemed shares come from and whatever fee lots lie between
\* (ledger.ts:190-196, 251-274).
LockupHolds == [][nowMs' = nowMs => \A m \in Members : Locked(m)' >= Locked(m)]_ledgerVars

\* The lots m had that are gone or smaller after a step that took shares
\* from the front of them.
Shrunk(m) ==
    LET gone == Len(lots[m]) - Len(lots'[m])
    IN  {i \in DOMAIN lots[m] : i <= gone \/ lots'[m][i - gone] # lots[m][i]}

\* The leader earns nothing on an exit from lots bought at or above today's
\* price: topping up after a loss neither shelters nor exposes another lot
\* (ledger.ts:7-15, 258-271).  The leader and the treasury are two accounts
\* here: were they one, the platform's fee would be the leader's.
NoFeeOnRecovery ==
    [][\A m \in Members \ {leaderId} :
          sharesOf(m)' < sharesOf(m) /\ (\A i \in Shrunk(m) : lots[m][i].hwmNav >= navPerShare)
              => sharesOf(leaderId)' = sharesOf(leaderId)]_ledgerVars

==============================================================================
