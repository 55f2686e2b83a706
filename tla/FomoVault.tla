----------------------------- MODULE FomoVault -----------------------------
(***************************************************************************)
(* The on-chain custody program: one platform account and one vault listed *)
(* under it (onchain/programs/fomo-vault/src).  Every instruction is one   *)
(* transaction, hence one action: a failed require! leaves no trace, so it *)
(* is a guard.  Accounts are keyed by program-derived addresses, so a      *)
(* holder has at most one open deposit request and one withdrawal claim    *)
(* (the `init` constraint of those accounts), and a mint is registered at  *)
(* most once.                                                              *)
(*                                                                         *)
(* Abstractions.  Signers are identities; amounts are naturals, kept below *)
(* 2^64 by the finite supply of the tokens that back them, so a checked_*  *)
(* overflow never fires.  Rent, events, names and bumps are left out.      *)
(***************************************************************************)
EXTENDS Integers, FiniteSets, Functions

CONSTANTS
    Holders,        \* everyone who can own shares: depositors and treasuries
    Treasuries,     \* the keys platform.treasury may be pointed at
    Leader,         \* the mirrored trader, who may also hold shares
    Authorities,    \* keys that may be the platform authority
    Managers,       \* keys that may be the vault's manager
    Assets,         \* mints
    Quote,          \* the quote mint
    MAX_ASSETS,     \* capacity of the asset registry and of a claim's bitmap
    MaxStaleness,   \* nav_max_staleness_slots, an argument of initialize_vault
    MaxMoveBps,     \* nav_max_move_bps, an argument of initialize_vault
    LeaderMinBps,   \* leader_min_bps, an argument of initialize_vault
    WithdrawFees,   \* fees an authority asks for, in bps, legal or not
    ListingFees,    \* listing fees an authority sets, and limits a lister signs
    DepositAmounts, \* amounts a depositor asks for
    ShareAmounts,   \* amounts of shares an owner redeems, besides all of them
    NavChoices,     \* totals a manager posts
    PendingBucket,  \* the account of pending deposits, beside one per mint
    Fills,          \* <<spent, received>> outcomes of a route, and its limits
    PauseChoices,   \* values the two pause switches are set to
    InitialQuote,   \* quote tokens each holder starts with, a function
    MaxSlot,        \* bound on the slot clock
    MaxBurns        \* bound on the number of withdrawals

BPS == 10000
MAX_WITHDRAW_FEE_BPS == 200
Unregistered == -1

ASSUME HolderAssumption ==
    /\ IsFiniteSet(Holders)
    /\ Treasuries \subseteq Holders
    /\ Treasuries # {}
    /\ Quote \in Assets
    /\ PendingBucket \notin Assets

ASSUME ParameterAssumption ==
    /\ MAX_ASSETS \in Nat \ {0}
    /\ MaxStaleness \in Nat
    /\ MaxMoveBps \in 0..BPS
    /\ LeaderMinBps \in 0..BPS
    /\ InitialQuote \in [Holders -> Nat]
    /\ MaxSlot \in Nat
    /\ MaxBurns \in Nat

ASSUME InputAssumption ==
    /\ WithdrawFees \subseteq Nat
    /\ ListingFees \subseteq Nat
    /\ DepositAmounts \subseteq Nat
    /\ ShareAmounts \subseteq Nat
    /\ NavChoices \subseteq Nat
    /\ Fills \subseteq Nat \X Nat
    /\ PauseChoices \subseteq BOOLEAN

VARIABLES
    (* the Platform account *)
    authority, treasury, platformFeeBps, listingFee, listingsPaused, vaultCount,
    (* the Vault account *)
    listed, manager, withdrawFeeBps, navQuote, navSlot, assetCount,
    pendingClaims, paused,
    (* accounts owned by the vault, one per holder or mint *)
    index,          \* VaultAsset.index of each mint, or Unregistered
    request,        \* amount of each holder's DepositRequest, 0 when it has none
    claim,          \* each holder's WithdrawalClaim, NoClaim when it has none
    (* the token program's accounts *)
    supply,         \* shares outstanding
    shares,         \* share balance of each holder
    shareAccounts,  \* holders whose associated share account exists
    book,           \* the vault's balance of each mint
    pendingQuote,   \* the bucket of deposits not yet priced
    wallet,         \* each holder's own quote balance
    lamports,       \* listing fees each treasury received
    now,            \* the slot clock
    (* history, read by properties only *)
    burns,          \* withdrawals so far (also the bound of the model)
    burnBook,       \* the book at the burn that opened each holder's claim
    paid,           \* what each holder's open claim has drawn of each mint
    agreedFee,      \* fee in force when the holder last had a deposit settled
    bucketTraded,   \* what trades brought to the pending bucket, less what they took
    lateDraw        \* some claim drew a mint registered after its burn

platformVars == <<authority, treasury, platformFeeBps, listingFee,
                  listingsPaused, vaultCount>>
navVars == <<navQuote, navSlot>>
vaultVars == <<listed, manager, withdrawFeeBps, navVars, assetCount,
               pendingClaims, paused>>
shareVars == <<supply, shares, shareAccounts>>
quoteVars == <<pendingQuote, wallet>>
historyVars == <<burns, burnBook, paid, agreedFee, bucketTraded, lateDraw>>
vars == <<platformVars, vaultVars, index, request, claim, shareVars, book,
          quoteVars, lamports, now, historyVars>>

-----------------------------------------------------------------------------
(* Helpers of state.rs and platform.rs. *)

\* Each ...Mutant below is its neighbour with one plausible mistake; the
\* README names the property that each of them breaks.

MulDivFloorMutant(a, b, c) == (a * b + c - 1) \div c

\* mul_div_floor: always rounds down, so dust stays in the vault.
MulDivFloor(a, b, c) == (a * b) \div c

SaturatingSubMutant(a, b) == a - b

SaturatingSub(a, b) == IF a > b THEN a - b ELSE 0

\* Platform::validate_fee
ValidFee(bps) == bps <= MAX_WITHDRAW_FEE_BPS

Distance(a, b) == IF a > b THEN a - b ELSE b - a

\* A WithdrawalClaim account.  `bitmap` is the set of indices whose bit is set.
NoClaim == [open |-> FALSE, sharesBurned |-> 0, totalAtBurn |-> 0,
            assetCountAtBurn |-> 0, assetsClaimed |-> 0, bitmap |-> {}]

NoAmounts == [a \in Assets |-> 0]

ClaimRecord == [open: BOOLEAN, sharesBurned: Nat, totalAtBurn: Nat,
                assetCountAtBurn: Nat, assetsClaimed: Nat, bitmap: SUBSET Nat]

\* assert_nav_fresh
NavFresh == navQuote > 0 /\ SaturatingSub(now, navSlot) <= MaxStaleness

CompleteLateMutant(c) == c.assetsClaimed > c.assetCountAtBurn

CompleteEarlyMutant(c) == c.assetsClaimed + 1 >= c.assetCountAtBurn

\* WithdrawalClaim::is_complete
IsComplete(c) == c.assetsClaimed >= c.assetCountAtBurn

\* WithdrawalClaim::mark_claimed, for an index whose bit is clear
MarkClaimed(c, i) ==
    [c EXCEPT !.bitmap = @ \cup {i}, !.assetsClaimed = @ + 1]

Registered(a) == index[a] # Unregistered

NoClaimsOpenMutant == TRUE

\* The guard that execute_trade and initiate_withdrawal share
NoClaimsOpen == pendingClaims = 0

MayTradeMutant == ~paused

MayTrade == ~paused /\ NoClaimsOpen

Incomplete(h) == claim[h].open /\ ~IsComplete(claim[h])

-----------------------------------------------------------------------------
(* The state initialize_platform leaves: no vault is listed yet. *)
Init ==
    /\ authority \in Authorities
    /\ treasury \in Treasuries
    /\ platformFeeBps \in {f \in WithdrawFees : ValidFee(f)}
    /\ listingFee \in ListingFees
    /\ listingsPaused = FALSE
    /\ vaultCount = 0
    /\ listed = FALSE
    /\ manager \in Managers
    /\ withdrawFeeBps = 0
    /\ navQuote = 0
    /\ navSlot = 0
    /\ assetCount = 0
    /\ pendingClaims = 0
    /\ paused = FALSE
    /\ index = [a \in Assets |-> Unregistered]
    /\ request = [h \in Holders |-> 0]
    /\ claim = [h \in Holders |-> NoClaim]
    /\ supply = 0
    /\ shares = [h \in Holders |-> 0]
    /\ shareAccounts = {}
    /\ book = NoAmounts
    /\ pendingQuote = 0
    /\ wallet = InitialQuote
    /\ lamports = [t \in Treasuries |-> 0]
    /\ now = 0
    /\ burns = 0
    /\ burnBook = [h \in Holders |-> NoAmounts]
    /\ paid = [h \in Holders |-> NoAmounts]
    /\ agreedFee = [h \in Holders |-> MAX_WITHDRAW_FEE_BPS]
    /\ bucketTraded = 0
    /\ lateDraw = FALSE

-----------------------------------------------------------------------------
(* Instructions of the platform authority. *)

PlatformOnly(k) ==
    /\ k = authority
    /\ UNCHANGED <<vaultVars, index, request, claim, shareVars, book,
                   quoteVars, lamports, now, historyVars>>

SetPlatformParams(k, feeBps, fee) ==
    /\ PlatformOnly(k)
    /\ ValidFee(feeBps)
    /\ platformFeeBps' = feeBps
    /\ listingFee' = fee
    /\ UNCHANGED <<authority, treasury, listingsPaused, vaultCount>>

SetPlatformTreasury(k, t) ==
    /\ PlatformOnly(k)
    /\ treasury' = t
    /\ UNCHANGED <<authority, platformFeeBps, listingFee, listingsPaused,
                   vaultCount>>

SetPlatformAuthority(k, new) ==
    /\ PlatformOnly(k)
    /\ authority' = new
    /\ UNCHANGED <<treasury, platformFeeBps, listingFee, listingsPaused,
                   vaultCount>>

SetListingsPaused(k, p) ==
    /\ PlatformOnly(k)
    /\ listingsPaused' = p
    /\ UNCHANGED <<authority, treasury, platformFeeBps, listingFee, vaultCount>>

SetVaultWithdrawFee(k, feeBps) ==
    /\ k = authority
    /\ listed
    /\ feeBps <= withdrawFeeBps
    /\ withdrawFeeBps' = feeBps
    /\ UNCHANGED <<platformVars, listed, manager, navVars, assetCount,
                   pendingClaims, paused, index, request, claim, shareVars,
                   book, quoteVars, lamports, now, historyVars>>

-----------------------------------------------------------------------------
(* Instructions of the vault's manager. *)

\* `init` of the vault's own accounts: at most once per leader.  The share
\* account of the treasury of that moment is opened with them.
InitializeVaultAccounts ==
    /\ ~listed
    /\ shareAccounts' = {treasury}

\* The lister signs the most it will pay; the withdrawal fee is a snapshot.
InitializeVault(m, maxListingFee) ==
    /\ InitializeVaultAccounts
    /\ ~listingsPaused
    /\ listingFee <= maxListingFee
    /\ lamports' = [lamports EXCEPT ![treasury] = @ + listingFee]
    /\ vaultCount' = vaultCount + 1
    /\ listed' = TRUE
    /\ manager' = m
    /\ withdrawFeeBps' = platformFeeBps
    /\ index' = [index EXCEPT ![Quote] = 0]
    /\ assetCount' = 1
    /\ UNCHANGED <<authority, treasury, platformFeeBps, listingFee,
                   listingsPaused, navVars, pendingClaims, paused, request,
                   claim, supply, shares, book, quoteVars, now, historyVars>>

\* The asset account is derived from its mint, so a mint registers once.
RegisterAssetAccounts(m, a) ==
    /\ listed
    /\ m = manager
    /\ ~Registered(a)

RegisterAsset(m, a) ==
    /\ RegisterAssetAccounts(m, a)
    /\ ~paused
    /\ assetCount < MAX_ASSETS
    /\ index' = [index EXCEPT ![a] = assetCount]
    /\ assetCount' = assetCount + 1
    /\ UNCHANGED <<platformVars, listed, manager, withdrawFeeBps, navVars,
                   pendingClaims, paused, request, claim, shareVars, book,
                   quoteVars, lamports, now, historyVars>>

PostNav(m, nav) ==
    /\ listed
    /\ m = manager
    /\ ~paused
    /\ supply > 0 /\ navQuote > 0 =>
           Distance(nav, navQuote) <= MulDivFloor(navQuote, MaxMoveBps, BPS)
    /\ navQuote' = nav
    /\ navSlot' = now
    /\ UNCHANGED <<platformVars, listed, manager, withdrawFeeBps, assetCount,
                   pendingClaims, paused, index, request, claim, shareVars,
                   book, quoteVars, lamports, now, historyVars>>

\* The token accounts whose owner is the vault
VaultAccounts == Assets \cup {PendingBucket}

Balance(x) == IF x = PendingBucket THEN pendingQuote ELSE book[x]

\* What a route leaves in account x when it spends of a and pays into b.
AfterRoute(x, a, b, fill) ==
    IF x = a THEN Balance(x) - fill[1]
    ELSE IF x = b THEN Balance(x) + fill[2] ELSE Balance(x)

\* The route itself is external: the program only checks that what the two
\* token accounts named by the caller lost and gained is within its limits.
\* It asks that they belong to the vault, which the bucket of pending deposits
\* does too, and not that their mints are registered.
ExecuteTrade(m, a, b, fill, limit) ==
    /\ listed
    /\ m = manager
    /\ MayTrade
    /\ a # b
    /\ fill[1] <= Balance(a)
    /\ fill[1] <= limit[1]
    /\ fill[2] >= limit[2]
    /\ book' = [x \in Assets |-> AfterRoute(x, a, b, fill)]
    /\ pendingQuote' = AfterRoute(PendingBucket, a, b, fill)
    /\ bucketTraded' = bucketTraded + pendingQuote' - pendingQuote
    /\ UNCHANGED <<platformVars, vaultVars, index, request, claim, shareVars,
                   wallet, lamports, now, burns, burnBook, paid, agreedFee,
                   lateDraw>>

ManagerOnly(m) ==
    /\ listed
    /\ m = manager
    /\ UNCHANGED <<platformVars, listed, withdrawFeeBps, navVars, assetCount,
                   pendingClaims, index, request, claim, shareVars, book,
                   quoteVars, lamports, now, historyVars>>

SetPaused(m, p) ==
    /\ ManagerOnly(m)
    /\ paused' = p
    /\ UNCHANGED manager

SetManager(m, new) ==
    /\ ManagerOnly(m)
    /\ manager' = new
    /\ UNCHANGED paused

-----------------------------------------------------------------------------
(* Deposits: queued by their owner, priced later by anyone. *)

CloseRequestMutant(h) == UNCHANGED request

\* The `close` constraint of cancel_deposit's and settle_deposit's request
CloseRequest(h) == request' = [request EXCEPT ![h] = 0]

\* The request account is derived from the depositor: one request at a time.
RequestDepositAccounts(h) == listed /\ request[h] = 0

RequestDeposit(h, amount) ==
    /\ RequestDepositAccounts(h)
    /\ amount > 0
    /\ ~paused
    /\ amount <= wallet[h]
    /\ wallet' = [wallet EXCEPT ![h] = @ - amount]
    /\ pendingQuote' = pendingQuote + amount
    /\ request' = [request EXCEPT ![h] = amount]
    /\ UNCHANGED <<platformVars, vaultVars, index, claim, shareVars, book,
                   lamports, now, historyVars>>

CancelDeposit(h) ==
    /\ request[h] > 0
    /\ request[h] <= pendingQuote
    /\ wallet' = [wallet EXCEPT ![h] = @ + request[h]]
    /\ pendingQuote' = pendingQuote - request[h]
    /\ CloseRequest(h)
    /\ UNCHANGED <<platformVars, vaultVars, index, claim, shareVars, book,
                   lamports, now, historyVars>>

\* The first money in sets the peg; afterwards the posted total prices it.
SharesFor(amount) ==
    IF supply = 0 THEN amount ELSE MulDivFloor(amount, supply, navQuote)

\* The depositor's share account is opened if need be, the request closed.
SettleDepositAccounts(h) ==
    /\ request[h] > 0
    /\ shareAccounts' = shareAccounts \cup {h}
    /\ CloseRequest(h)

SettleDeposit(h) ==
    LET amount == request[h]
        minted == SharesFor(amount)
    IN  /\ ~paused
        /\ supply = 0 \/ NavFresh
        /\ minted > 0
        /\ amount <= pendingQuote
        /\ pendingQuote' = pendingQuote - amount
        /\ book' = [book EXCEPT ![Quote] = @ + amount]
        /\ supply' = supply + minted
        /\ shares' = [shares EXCEPT ![h] = @ + minted]
        /\ SettleDepositAccounts(h)
        /\ navQuote' = navQuote + amount
        /\ agreedFee' = [agreedFee EXCEPT ![h] = withdrawFeeBps]
        /\ UNCHANGED <<platformVars, listed, manager, withdrawFeeBps, navSlot,
                       assetCount, pendingClaims, paused, index, claim,
                       wallet, lamports, now, burns, burnBook, paid,
                       bucketTraded, lateDraw>>

-----------------------------------------------------------------------------
(* Withdrawals: one burn, then one draw per asset, by anyone. *)

FeeSharesMutant(h, amount) ==
    IF h = treasury THEN 0 ELSE MulDivFloor(amount, platformFeeBps, BPS)

FeeShares(h, amount) ==
    IF h = treasury THEN 0 ELSE MulDivFloor(amount, withdrawFeeBps, BPS)

SharesLeftMutant(h, amount, fee) == [shares EXCEPT ![h] = @ - amount]

\* The fee moves to the treasury, the rest of the amount is burned.
SharesLeft(h, amount, fee) ==
    [s \in Holders |-> IF s = h THEN shares[s] - amount
                       ELSE IF s = treasury THEN shares[s] + fee
                       ELSE shares[s]]

\* Both share accounts must exist, and the owner has no claim still open.
InitiateWithdrawalAccounts(h) ==
    /\ {h, treasury} \subseteq shareAccounts
    /\ ~claim[h].open

InitiateWithdrawal(h, amount) ==
    LET fee == FeeShares(h, amount)
        burned == amount - fee
        left == supply - burned
    IN  /\ burns < MaxBurns
        /\ InitiateWithdrawalAccounts(h)
        /\ amount > 0
        /\ ~paused
        /\ NoClaimsOpen
        /\ amount <= shares[h]
        /\ burned > 0
        /\ burned <= supply
        /\ h = Leader /\ left > 0 =>
               shares[h] - amount >= MulDivFloor(left, LeaderMinBps, BPS)
        /\ shares' = SharesLeft(h, amount, fee)
        /\ supply' = left
        /\ navQuote' = MulDivFloor(navQuote, left, supply)
        /\ claim' = [claim EXCEPT ![h] =
                        [open |-> TRUE, sharesBurned |-> burned,
                         totalAtBurn |-> supply,
                         assetCountAtBurn |-> assetCount,
                         assetsClaimed |-> 0, bitmap |-> {}]]
        /\ pendingClaims' = pendingClaims + 1
        /\ burns' = burns + 1
        /\ burnBook' = [burnBook EXCEPT ![h] = book]
        /\ paid' = [paid EXCEPT ![h] = NoAmounts]
        /\ UNCHANGED <<platformVars, listed, manager, withdrawFeeBps, navSlot,
                       assetCount, paused, index, request, shareAccounts,
                       book, quoteVars, lamports, now, agreedFee, bucketTraded,
                       lateDraw>>

\* Any registered asset of the vault will do, whenever it was registered.
ClaimAssetAccounts(h, a) == claim[h].open /\ Registered(a)

ClaimAsset(h, a) ==
    LET c == claim[h]
        amount == MulDivFloor(book[a], c.sharesBurned, c.totalAtBurn)
        marked == MarkClaimed(c, index[a])
    IN  /\ ClaimAssetAccounts(h, a)
        /\ index[a] \notin c.bitmap
        /\ book' = [book EXCEPT ![a] = @ - amount]
        /\ wallet' = IF a = Quote THEN [wallet EXCEPT ![h] = @ + amount]
                     ELSE wallet
        /\ claim' = [claim EXCEPT ![h] = marked]
        /\ pendingClaims' = IF IsComplete(marked)
                            THEN SaturatingSub(pendingClaims, 1)
                            ELSE pendingClaims
        /\ paid' = [paid EXCEPT ![h][a] = amount]
        /\ lateDraw' = (lateDraw \/ index[a] >= c.assetCountAtBurn)
        /\ UNCHANGED <<platformVars, listed, manager, withdrawFeeBps, navVars,
                       assetCount, paused, index, request, shareVars,
                       pendingQuote, lamports, now, burns, burnBook, agreedFee,
                       bucketTraded>>

CloseClaim(h) ==
    /\ claim[h].open
    /\ IsComplete(claim[h])
    /\ claim' = [claim EXCEPT ![h] = NoClaim]
    /\ burnBook' = [burnBook EXCEPT ![h] = NoAmounts]
    /\ paid' = [paid EXCEPT ![h] = NoAmounts]
    /\ UNCHANGED <<platformVars, vaultVars, index, request, shareVars, book,
                   quoteVars, lamports, now, burns, agreedFee, bucketTraded,
                   lateDraw>>

-----------------------------------------------------------------------------
(* The environment. *)

\* Anyone may open an associated token account for anyone (token program); it
\* matters for a treasury, as a depositor's is opened when it is needed.
OpenShareAccount(t) ==
    /\ listed
    /\ t \notin shareAccounts
    /\ shareAccounts' = shareAccounts \cup {t}
    /\ UNCHANGED <<platformVars, vaultVars, index, request, claim, supply,
                   shares, book, quoteVars, lamports, now, historyVars>>

Tick ==
    /\ now < MaxSlot
    /\ now' = now + 1
    /\ UNCHANGED <<platformVars, vaultVars, index, request, claim, shareVars,
                   book, quoteVars, lamports, historyVars>>

AuthorityNext ==
    \E k \in Authorities :
        \/ \E f \in WithdrawFees, l \in ListingFees : SetPlatformParams(k, f, l)
        \/ \E t \in Treasuries : SetPlatformTreasury(k, t)
        \/ \E new \in Authorities : SetPlatformAuthority(k, new)
        \/ \E p \in PauseChoices : SetListingsPaused(k, p)
        \/ \E f \in WithdrawFees : SetVaultWithdrawFee(k, f)

ManagerNext ==
    \E m \in Managers :
        \/ \E f \in ListingFees : InitializeVault(m, f)
        \/ \E a \in Assets : RegisterAsset(m, a)
        \/ \E nav \in NavChoices : PostNav(m, nav)
        \/ \E a, b \in VaultAccounts, fill, limit \in Fills :
               ExecuteTrade(m, a, b, fill, limit)
        \/ \E p \in PauseChoices : SetPaused(m, p)
        \/ \E new \in Managers : SetManager(m, new)

HolderNext ==
    \E h \in Holders :
        \/ \E amount \in DepositAmounts : RequestDeposit(h, amount)
        \/ CancelDeposit(h)
        \/ SettleDeposit(h)
        \/ \E amount \in ShareAmounts \cup {shares[h]} :
               InitiateWithdrawal(h, amount)
        \/ \E a \in Assets : ClaimAsset(h, a)
        \/ CloseClaim(h)

Next ==
    \/ AuthorityNext
    \/ ManagerNext
    \/ HolderNext
    \/ \E t \in Treasuries : OpenShareAccount(t)
    \/ Tick

Spec == Init /\ [][Next]_vars

\* Anyone may pay to crank a claim, so an open one is not left undrawn for ever.
Crank(h) == Incomplete(h) /\ \E a \in Assets : ClaimAsset(h, a)

FairSpec == Spec /\ \A h \in Holders : WF_vars(Crank(h))

-----------------------------------------------------------------------------
(* Properties. *)

TypeOK ==
    /\ authority \in Authorities
    /\ treasury \in Treasuries
    /\ platformFeeBps \in 0..MAX_WITHDRAW_FEE_BPS
    /\ listingFee \in Nat
    /\ listingsPaused \in BOOLEAN
    /\ vaultCount \in Nat
    /\ listed \in BOOLEAN
    /\ manager \in Managers
    /\ withdrawFeeBps \in 0..MAX_WITHDRAW_FEE_BPS
    /\ navQuote \in Nat
    /\ navSlot \in Nat
    /\ assetCount \in 0..MAX_ASSETS
    /\ pendingClaims \in Nat
    /\ paused \in BOOLEAN
    /\ index \in [Assets -> Nat \cup {Unregistered}]
    /\ request \in [Holders -> Nat]
    /\ claim \in [Holders -> ClaimRecord]
    /\ supply \in Nat
    /\ shares \in [Holders -> Nat]
    /\ shareAccounts \subseteq Holders
    /\ book \in [Assets -> Nat]
    /\ pendingQuote \in Nat
    /\ wallet \in [Holders -> Nat]
    /\ lamports \in [Treasuries -> Nat]
    /\ now \in Nat
    /\ burns \in Nat
    /\ burnBook \in [Holders -> [Assets -> Nat]]
    /\ paid \in [Holders -> [Assets -> Nat]]
    /\ agreedFee \in [Holders -> 0..MAX_WITHDRAW_FEE_BPS]
    /\ bucketTraded \in Int
    /\ lateDraw \in BOOLEAN

\* Assets the vault held an index for when holder h's claim was opened.
AtBurn(h) == {a \in Assets : index[a] \in 0..(claim[h].assetCountAtBurn - 1)}

Drawn(h) == {a \in Assets : index[a] \in claim[h].bitmap}

\* The pending bucket holds the requests that are still open, and nothing but a
\* trade ever makes it hold more or less: deposits, cancellations and settlements
\* in any order leave no money behind and take none (lib.rs:277, 305).  A trade may
\* name the bucket (lib.rs:566): what such trades took is missing to the last
\* depositors to cancel or be settled, and while there were none every request
\* can be paid back.
PendingBacked == pendingQuote = SumFunction(request) + bucketTraded

\* The share mint's supply is what the holders, the treasury included, own: a
\* fee moves shares and burns none, a burn takes none of the others' (lib.rs:392).
SupplyBacked == supply = SumFunction(shares)

\* pending_claims blocks every trade and every further exit (lib.rs:390, 559),
\* so it must never stay raised without a claim that somebody can crank:
\* whenever it is positive, some incomplete claim has a registered asset that
\* it has not drawn.  Repeated completions, late registrations and reopened
\* claims must not strand it.
BlockedOnlyByACrankableClaim ==
    pendingClaims > 0 =>
        \E h \in Holders :
            /\ Incomplete(h)
            /\ \E a \in Assets : Registered(a) /\ a \notin Drawn(h)

\* "One claim at a time, per vault" (lib.rs:384): as long as no claim has drawn
\* an asset registered after its burn, at most one claim is incomplete, and
\* pending_claims counts exactly that one.
SerialClaims ==
    ~lateDraw =>
        /\ pendingClaims = IF \E h \in Holders : Incomplete(h) THEN 1 ELSE 0
        /\ \A h1, h2 \in Holders : Incomplete(h1) /\ Incomplete(h2) => h1 = h2

\* Under the same condition a claimant is never worse off for drawing late: of
\* every asset of the burn it received at least its fraction of the balance the
\* vault held at the burn, whatever happened between the burn and the draw.
ClaimantNeverShortPaid ==
    ~lateDraw =>
        \A h \in Holders : \A a \in AtBurn(h) \cap Drawn(h) :
            paid[h][a] >= MulDivFloor(burnBook[h][a], claim[h].sharesBurned,
                                      claim[h].totalAtBurn)

\* What leaving costs, in shares: the owner's debit that was not burned.  It
\* never exceeds the fee in force when that owner's last deposit was settled
\* (state.rs:90), whatever the authority changes in between.
ExitCostAsAgreed ==
    [][\A h \in Holders :
           LET debit == shares[h] - shares'[h]
           IN  supply' < supply /\ debit > 0 =>
                   debit - (supply - supply')
                       <= MulDivFloor(debit, agreedFee[h], BPS)]_vars

\* Rounding never favours whoever is moving: a deposit never lowers the posted
\* value of a share, so it cannot dilute the holders (state.rs:146), and a
\* withdrawal never raises it, and lowers it by less than one quote unit in all.
EntryPriceHonest ==
    [][/\ supply > 0 /\ supply' > supply =>
              navQuote' * supply >= navQuote * supply'
       /\ supply' < supply =>
              /\ navQuote' * supply <= navQuote * supply'
              /\ navQuote * supply' < (navQuote' + 1) * supply]_vars

\* A vault blocked by a claim is unblocked again: the queue of claims drains.
ClaimsDrain == pendingClaims > 0 ~> pendingClaims = 0

\* state.rs:57: "Trading is blocked while any are outstanding, so balances
\* cannot move between a share burn and its asset payouts": what a claim draws
\* of an asset is its fraction of the balance at the burn.
PayoutIsBurnTimeShare ==
    \A h \in Holders : \A a \in AtBurn(h) \cap Drawn(h) :
        paid[h][a] = MulDivFloor(burnBook[h][a], claim[h].sharesBurned,
                                 claim[h].totalAtBurn)

\* lib.rs:532: "the claim is complete when every asset has been *considered*".
CompleteMeansConsidered ==
    \A h \in Holders :
        claim[h].open /\ IsComplete(claim[h]) => AtBurn(h) \subseteq Drawn(h)

\* The least a claim is still to be paid, of each asset of its burn not drawn.
Owed(h) ==
    [a \in AtBurn(h) \ Drawn(h) |->
        MulDivFloor(burnBook[h][a], claim[h].sharesBurned, claim[h].totalAtBurn)]

Promise == INSTANCE VaultPromise WITH
               offered <- {a \in Assets : Registered(a)},
               owed <- [h \in Holders |-> Owed(h)],
               kept <- ~lateDraw

\* The program implements VaultPromise: one burn and its draws, in whatever
\* transactions and by whomever they are cranked, are one transfer in kind of
\* the burned fraction.  While anything of it is due, nobody trades or leaves
\* (lib.rs:390, 559), each draw pays what is due of its mint (lib.rs:500), and a
\* claim is neither complete nor closed before all of it is paid (lib.rs:548).
RedeemsInKind == Promise!Spec
=============================================================================
