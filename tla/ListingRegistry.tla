--------------------------- MODULE ListingRegistry ---------------------------
(***************************************************************************)
(* The roster of src/src/platform/registry.ts beside the vaults it lists:  *)
(* one row per leader, moved along a table of legal transitions, with a    *)
(* cached copy of the vault's withdrawal fee.  The program owns the fee    *)
(* and may lower it at any time; the registry learns of it through reads   *)
(* that are answered some steps before they are recorded, and quotes exits *)
(* (src/src/platform/fees.ts) from the cached copy.  A lister pays against *)
(* a quote that repricing may overtake.                                    *)
(***************************************************************************)
EXTENDS Integers, FiniteSets

CONSTANTS
    Leaders,            \* wallets that may be listed
    NoListing,          \* a leader without a row in the map
    NoFee,              \* an unset fee: nothing cached, lookup, quoted or paid
    FeeLevels,          \* withdrawal fees, in bps, that anybody tries to set
    ListingFees,        \* listing fees the platform charges over time
    MaxLiveChoices,     \* maxLiveVaults an operator may put in the config
    Redemptions,        \* how many shares exits are quoted for
    MaxReprices,        \* bound: set_platform_params per behaviour
    MaxSuspensions      \* bound: suspensions per leader

MAX_WITHDRAW_FEE_BPS == 200
BpsScale == 10000
Statuses == {"applied", "approved", "listed", "live", "suspended", "rejected", "delisted"}

ASSUME RegistryAssumption ==
    /\ IsFiniteSet(Leaders)
    /\ FeeLevels \subseteq Nat
    /\ ListingFees \subseteq Nat
    /\ MaxLiveChoices \subseteq Int
    /\ Redemptions \cup {MaxReprices, MaxSuspensions} \subseteq Nat
    /\ NoFee \notin Nat
    /\ NoListing \notin [status: Statuses, vault: BOOLEAN, fee: Nat \cup {NoFee},
                         paid: Nat \cup {NoFee}]
    /\ NoFee \notin [fee: Nat, paid: Nat]

VARIABLES
    config,             \* PlatformConfig: withdrawFeeBps, listingFeeLamports, maxLiveVaults
    listings,           \* Registry.listings
    platform,           \* on chain: the Platform account's two fees
    vaults,             \* on chain: a leader's vault, its withdraw_fee_bps and what listing it cost
    quoted,             \* the max_listing_fee_lamports a lister signs with
    lookup,             \* a vault fee read from the chain and not yet recorded
    suspended,          \* how often each leader was suspended
    reprices            \* set_platform_params so far

registryVars == <<config, listings, platform, vaults, quoted, lookup,
                  suspended, reprices>>
chainVars == <<platform, vaults>>

TRANSITIONS ==
    [applied   |-> {"approved", "rejected"},
     approved  |-> {"listed", "rejected"},
     listed    |-> {"live", "delisted"},
     live      |-> {"suspended", "delisted"},
     suspended |-> {"live", "delisted"},
     rejected  |-> {},
     delisted  |-> {}]

\* @mutant: an approved vault may be cranked before it is listed
canTransitionMutant(from, to) ==
    to \in TRANSITIONS[from] \/ (from = "approved" /\ to = "live")
canTransition(from, to) == to \in TRANSITIONS[from]

Listing == {l \in Leaders : listings[l] # NoListing}
WithStatus(status) == {l \in Listing : listings[l].status = status}
MayMove(l, to) == l \in Listing /\ canTransition(listings[l].status, to)

validatePlatformConfig(cfg) ==
    /\ cfg.withdrawFeeBps \in 0..MAX_WITHDRAW_FEE_BPS
    /\ cfg.listingFeeLamports >= 0
    /\ cfg.maxLiveVaults >= 1

\* The environment is read once, at start: what it holds is validated or the
\* process does not start.
platformFromEnv ==
    {cfg \in [withdrawFeeBps: FeeLevels, listingFeeLamports: ListingFees,
              maxLiveVaults: MaxLiveChoices] : validatePlatformConfig(cfg)}

RegistryInit ==
    /\ config \in platformFromEnv
    /\ listings = [l \in Leaders |-> NoListing]
    /\ platform \in [fee: FeeLevels \cap 0..MAX_WITHDRAW_FEE_BPS, listingFee: ListingFees]
    /\ vaults = [l \in Leaders |-> NoFee]
    /\ quoted = [l \in Leaders |-> NoFee]
    /\ lookup = [l \in Leaders |-> NoFee]
    /\ suspended = [l \in Leaders |-> 0]
    /\ reprices = 0

----------------------------------------------------------------------------
(* The registry *)

apply(l) ==
    /\ listings[l] = NoListing
    /\ listings' = [listings EXCEPT ![l] =
            [status |-> "applied", vault |-> FALSE, fee |-> NoFee, paid |-> NoFee]]
    /\ UNCHANGED <<config, chainVars, quoted, lookup, suspended, reprices>>

transition(l, to) ==
    /\ MayMove(l, to)
    /\ listings' = [listings EXCEPT ![l].status = to]
    /\ UNCHANGED <<config, chainVars, quoted, lookup, reprices>>

approve(l) == transition(l, "approved") /\ UNCHANGED suspended
reject(l)  == transition(l, "rejected") /\ UNCHANGED suspended
delist(l)  == transition(l, "delisted") /\ UNCHANGED suspended
suspend(l) ==
    /\ suspended[l] < MaxSuspensions
    /\ transition(l, "suspended")
    /\ suspended' = [suspended EXCEPT ![l] = @ + 1]

liveCount == Cardinality(WithStatus("live"))

HasRoomMutant(l) == listings[l].status = "suspended" \/ liveCount <= config.maxLiveVaults
HasRoom(l) == listings[l].status = "suspended" \/ liveCount < config.maxLiveVaults

goLive(l) ==
    /\ l \in Listing
    /\ HasRoom(l)
    /\ transition(l, "live")
    /\ UNCHANGED suspended

(* The operator looks the vault up on the chain, then records what it saw. *)
recordListed(l) ==
    /\ lookup[l] # NoFee
    /\ lookup[l] <= MAX_WITHDRAW_FEE_BPS
    /\ MayMove(l, "listed")
    /\ listings' = [listings EXCEPT ![l] =
            [@ EXCEPT !.status = "listed", !.vault = TRUE, !.fee = lookup[l],
                      !.paid = vaults[l].paid]]
    /\ lookup' = [lookup EXCEPT ![l] = NoFee]
    /\ UNCHANGED <<config, chainVars, quoted, suspended, reprices>>

reconcile(l) ==
    /\ l \in Listing
    /\ lookup[l] # NoFee
    /\ listings' = [listings EXCEPT ![l].fee = lookup[l]]
    /\ lookup' = [lookup EXCEPT ![l] = NoFee]
    /\ UNCHANGED <<config, chainVars, quoted, suspended, reprices>>

roster == WithStatus("live") \cup WithStatus("suspended")

----------------------------------------------------------------------------
(* Quotes, and the program they predict *)

withdrawalFeeShares(shares, bps) == (shares * bps) \div BpsScale
quoteWithdrawal(shares, bps) == shares - withdrawalFeeShares(shares, bps)
maxWithdrawalCostBps(bps) == IF bps < MAX_WITHDRAW_FEE_BPS THEN bps ELSE MAX_WITHDRAW_FEE_BPS

\* quoteListing with no tolerance: the ceiling signed is the fee shown.
quoteListing(l) ==
    /\ l \in WithStatus("approved")
    /\ vaults[l] = NoFee
    /\ quoted[l] = NoFee
    /\ quoted' = [quoted EXCEPT ![l] = config.listingFeeLamports]
    /\ UNCHANGED <<config, listings, chainVars, lookup, suspended, reprices>>

FeeAccepted(charged, max) == charged <= max

\* The leader's vault is created, whatever the platform charges by then, or
\* the transaction fails and the lister asks again.
initialize_vault(l) ==
    /\ quoted[l] # NoFee
    /\ vaults[l] = NoFee
    /\ IF FeeAccepted(platform.listingFee, quoted[l])
       THEN /\ vaults' = [vaults EXCEPT ![l] = [fee |-> platform.fee, paid |-> platform.listingFee]]
            /\ UNCHANGED quoted
       ELSE /\ quoted' = [quoted EXCEPT ![l] = NoFee]
            /\ UNCHANGED vaults
    /\ UNCHANGED <<config, listings, platform, lookup, suspended, reprices>>

set_platform_params(fee, listingFee) ==
    /\ reprices < MaxReprices
    /\ fee <= MAX_WITHDRAW_FEE_BPS
    /\ platform' = [fee |-> fee, listingFee |-> listingFee]
    /\ reprices' = reprices + 1
    /\ UNCHANGED <<config, listings, vaults, quoted, lookup, suspended>>

FeeNotRaisedMutant(l, fee) == fee <= MAX_WITHDRAW_FEE_BPS
FeeNotRaised(l, fee) == fee <= vaults[l].fee

set_vault_withdraw_fee(l, fee) ==
    /\ vaults[l] # NoFee
    /\ FeeNotRaised(l, fee)
    /\ vaults' = [vaults EXCEPT ![l].fee = fee]
    /\ UNCHANGED <<config, listings, platform, quoted, lookup, suspended, reprices>>

\* One read of a vault is under way at a time; the fee may move before it is used.
ReadVault(l) ==
    /\ vaults[l] # NoFee
    /\ lookup[l] = NoFee
    /\ lookup' = [lookup EXCEPT ![l] = vaults[l].fee]
    /\ UNCHANGED <<config, listings, chainVars, quoted, suspended, reprices>>

RegistryNext ==
    \/ \E l \in Leaders :
          \/ apply(l)
          \/ approve(l)
          \/ reject(l)
          \/ delist(l)
          \/ suspend(l)
          \/ goLive(l)
          \/ recordListed(l)
          \/ reconcile(l)
          \/ quoteListing(l)
          \/ initialize_vault(l)
          \/ ReadVault(l)
          \/ \E fee \in FeeLevels : set_vault_withdraw_fee(l, fee)
    \/ \E fee \in FeeLevels, listingFee \in ListingFees : set_platform_params(fee, listingFee)

RegistrySpec == RegistryInit /\ [][RegistryNext]_registryVars

----------------------------------------------------------------------------
(* Properties *)

RegistryTypeOK ==
    /\ config \in platformFromEnv
    /\ listings \in [Leaders -> {NoListing} \cup
          [status: Statuses, vault: BOOLEAN, fee: FeeLevels \cup {NoFee},
           paid: ListingFees \cup {NoFee}]]
    /\ platform \in [fee: FeeLevels, listingFee: ListingFees]
    /\ vaults \in [Leaders -> {NoFee} \cup [fee: FeeLevels, paid: ListingFees]]
    /\ quoted \in [Leaders -> ListingFees \cup {NoFee}]
    /\ lookup \in [Leaders -> FeeLevels \cup {NoFee}]
    /\ suspended \in [Leaders -> 0..MaxSuspensions]
    /\ reprices \in 0..MaxReprices

\* A row on the roster, cranked or suspended, stands for a vault that exists
\* and was paid for at no more than its lister was shown, and records the fee
\* actually paid: declining to crank the unpaid is the only enforcement of
\* the listing fee there is (registry.ts:8-20, fees.ts:105-113).
OnlyThePaidAreLive ==
    \A l \in roster :
        /\ vaults[l] # NoFee
        /\ listings[l].paid = vaults[l].paid
        /\ vaults[l].paid <= quoted[l]

\* What the page quotes for an exit is never better than what the program
\* will do: the cached fee may be stale, but only on the dear side, and no
\* exit of any size pays out less than quoted (fees.ts:3-12, registry.ts:219-225).
QuotesNeverFlatter ==
    \A l \in Listing :
        listings[l].fee # NoFee =>
            /\ vaults[l] # NoFee
            /\ vaults[l].fee <= maxWithdrawalCostBps(listings[l].fee)
            /\ \A shares \in Redemptions :
                  quoteWithdrawal(shares, listings[l].fee) <= quoteWithdrawal(shares, vaults[l].fee)

\* The cap holds for the vaults that took a seat and kept it.  A suspended
\* vault gives its seat away and still resumes past the cap (goLive), so live
\* vaults in all may exceed maxLiveVaults by as many as were ever suspended.
SeatsWithinCap ==
    Cardinality({l \in WithStatus("live") : suspended[l] = 0}) <= config.maxLiveVaults

==============================================================================
