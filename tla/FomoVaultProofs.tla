-------------------------- MODULE FomoVaultProofs --------------------------
(***************************************************************************)
(* Proofs about FomoVault, for every finite set of holders, every set of   *)
(* treasuries and mints, every parameter and every bound.  The inductive   *)
(* invariant IInv adds to the type invariant what a claim account          *)
(* remembers of its burn, how mint indices are handed out, and what        *)
(* pending_claims counts; PayInv adds what is still to be drawn.  The      *)
(* totals of the balance tables are sums, of which LedgerMath speaks.     *)
(***************************************************************************)
EXTENDS FomoVault, LedgerMath, TLAPS

-----------------------------------------------------------------------------
(* The inductive invariant. *)

\* What an open claim fixed at its burn, and its bitmap against its counter.
ClaimsSane ==
    \A h \in Holders :
        claim[h].open =>
            /\ claim[h].sharesBurned \in 1..claim[h].totalAtBurn
            /\ claim[h].assetCountAtBurn \in 1..assetCount
            /\ claim[h].bitmap \subseteq 0..(assetCount - 1)
            /\ IsFiniteSet(claim[h].bitmap)
            /\ Cardinality(claim[h].bitmap) = claim[h].assetsClaimed
            /\ ~lateDraw => claim[h].bitmap
                                \subseteq 0..(claim[h].assetCountAtBurn - 1)

\* Indices 0..assetCount-1 are handed out, each to one mint.
IndicesSane ==
    /\ \A a \in Assets : Registered(a) => index[a] \in 0..(assetCount - 1)
    /\ \A i \in 0..(assetCount - 1) : \E a \in Assets : index[a] = i

\* Before the listing there is nothing to redeem, and no fee was agreed to.
ListingSane ==
    /\ listed <=> assetCount > 0
    /\ ~listed => /\ shareAccounts = {}
                  /\ \A h \in Holders : /\ request[h] = 0
                                        /\ agreedFee[h] = MAX_WITHDRAW_FEE_BPS

\* pending_claims is a flag, and is raised only for an incomplete claim.
PendingSane ==
    /\ pendingClaims \in {0, 1}
    /\ pendingClaims = 1 => \E h \in Holders : Incomplete(h)

\* The fee only ever goes down, so it is at most what each holder agreed to.
FeeSane == \A h \in Holders : withdrawFeeBps <= agreedFee[h]

IInv ==
    /\ TypeOK
    /\ ClaimsSane
    /\ IndicesSane
    /\ ListingSane
    /\ PendingSane
    /\ SerialClaims
    /\ FeeSane

-----------------------------------------------------------------------------
(* Arithmetic of mul_div_floor (state.rs:150). *)

\* The result of mul_div_floor is a natural.
LEMMA FloorNat ==
    ASSUME NEW a \in Nat, NEW b \in Nat, NEW c \in Nat, c > 0
    PROVE  MulDivFloor(a, b, c) \in Nat
<1>1. a * b \in Nat
  OBVIOUS
<1>. QED
  BY <1>1, DivNat DEF MulDivFloor

\* A fraction of at most one takes at most the whole: a draw never overdraws.
LEMMA FloorPart ==
    ASSUME NEW a \in Nat, NEW b \in Nat, NEW c \in Nat, c > 0, b <= c
    PROVE  MulDivFloor(a, b, c) <= a
<1>1. /\ a * b \in Nat
      /\ a * c \in Nat
      /\ a * b <= a * c
  OBVIOUS
<1>2. (a * b) \div c <= (a * c) \div c
  BY <1>1, DivMono
<1>3. (a * c) \div c = a
  <2> DEFINE q == (a * c) \div c
  <2>1. q \in Nat /\ q * c <= a * c /\ a * c < q * c + c
    BY <1>1, DivNat
  <2> HIDE DEF q
  <2>2. q * c + c = (q + 1) * c
    BY <2>1
  <2>3. ~(q > a)
    BY <2>1
  <2>4. ~(q < a)
    <3>1. SUFFICES ASSUME q + 1 <= a PROVE FALSE
      BY <2>1
    <3>2. (q + 1) * c <= a * c
      BY <2>1, <3>1
    <3>. QED BY <2>1, <2>2, <3>2
  <2>. QED BY <2>1, <2>3, <2>4 DEF q
<1>. QED
  BY <1>2, <1>3 DEF MulDivFloor

\* A larger rate never costs less.
LEMMA FloorMono ==
    ASSUME NEW a \in Nat, NEW b \in Nat, NEW d \in Nat, NEW c \in Nat,
           c > 0, b <= d
    PROVE  MulDivFloor(a, b, c) <= MulDivFloor(a, d, c)
<1>1. /\ a * b \in Nat
      /\ a * d \in Nat
      /\ a * b <= a * d
  OBVIOUS
<1>. QED
  BY <1>1, DivMono DEF MulDivFloor

\* A larger balance never pays less.
LEMMA FloorMonoBase ==
    ASSUME NEW a \in Nat, NEW d \in Nat, NEW b \in Nat, NEW c \in Nat,
           c > 0, a <= d
    PROVE  MulDivFloor(a, b, c) <= MulDivFloor(d, b, c)
<1>1. /\ a * b \in Nat
      /\ d * b \in Nat
      /\ a * b <= d * b
  OBVIOUS
<1>. QED
  BY <1>1, DivMono DEF MulDivFloor

-----------------------------------------------------------------------------
(* The initial state, and the steps that touch neither claims nor shares. *)

\* The state initialize_platform leaves satisfies the invariant.
LEMMA InitIInv == Init => IInv
<1> SUFFICES ASSUME Init PROVE IInv
  OBVIOUS
<1> USE HolderAssumption, ParameterAssumption, InputAssumption
<1>1. TypeOK
  <2>1. NoClaim \in ClaimRecord /\ NoAmounts \in [Assets -> Nat]
    BY DEF NoClaim, ClaimRecord, NoAmounts
  <2>2. platformFeeBps \in 0..MAX_WITHDRAW_FEE_BPS
    BY DEF Init, ValidFee, MAX_WITHDRAW_FEE_BPS
  <2>3. index \in [Assets -> Nat \cup {Unregistered}]
    BY DEF Init
  <2>4. claim \in [Holders -> ClaimRecord]
    BY <2>1 DEF Init
  <2>5. /\ book \in [Assets -> Nat]
        /\ burnBook \in [Holders -> [Assets -> Nat]]
        /\ paid \in [Holders -> [Assets -> Nat]]
    BY <2>1 DEF Init
  <2>6. /\ agreedFee \in [Holders -> 0..MAX_WITHDRAW_FEE_BPS]
        /\ withdrawFeeBps \in 0..MAX_WITHDRAW_FEE_BPS
        /\ assetCount \in 0..MAX_ASSETS
    BY DEF Init, MAX_WITHDRAW_FEE_BPS
  <2>7. /\ request \in [Holders -> Nat]
        /\ shares \in [Holders -> Nat]
        /\ wallet \in [Holders -> Nat]
        /\ lamports \in [Treasuries -> Nat]
        /\ shareAccounts \subseteq Holders
    BY DEF Init
  <2>8. /\ navQuote \in Nat /\ navSlot \in Nat /\ pendingClaims \in Nat
        /\ supply \in Nat /\ pendingQuote \in Nat /\ now \in Nat
        /\ burns \in Nat /\ vaultCount \in Nat /\ bucketTraded \in Int
        /\ listingFee \in Nat
    BY DEF Init
  <2>. QED
    BY <2>2, <2>3, <2>4, <2>5, <2>6, <2>7, <2>8, Zenon DEF Init, TypeOK
<1>2. ClaimsSane /\ PendingSane /\ SerialClaims
  BY DEF Init, ClaimsSane, PendingSane, SerialClaims, Incomplete, NoClaim
<1>3. IndicesSane /\ ListingSane
  BY DEF Init, IndicesSane, ListingSane, Registered, Unregistered,
         MAX_WITHDRAW_FEE_BPS
<1>4. FeeSane
  BY DEF Init, FeeSane, MAX_WITHDRAW_FEE_BPS
<1>. QED
  BY <1>1, <1>2, <1>3, <1>4 DEF IInv

\* The parts of IInv other than TypeOK read only these variables.
watched == <<claim, assetCount, index, shareAccounts, listed, pendingClaims,
             lateDraw, withdrawFeeBps, agreedFee, request>>

\* A step that leaves those variables alone need only keep the types.
LEMMA FrameIInv ==
    ASSUME IInv, TypeOK', UNCHANGED watched
    PROVE  IInv'
<1>1. ClaimsSane' /\ PendingSane' /\ SerialClaims'
  BY DEF IInv, ClaimsSane, PendingSane, SerialClaims, Incomplete, IsComplete,
         watched
<1>2. IndicesSane' /\ ListingSane' /\ FeeSane'
  BY DEF IInv, IndicesSane, ListingSane, FeeSane, Registered, watched
<1>. QED
  BY <1>1, <1>2 DEF IInv

\* The instructions of the platform authority keep the invariant: the
\* withdrawal fee of a listed vault is only ever lowered.
LEMMA AuthorityIInv ==
    ASSUME IInv, AuthorityNext
    PROVE  IInv'
<1> USE HolderAssumption, ParameterAssumption, InputAssumption
<1>1. PICK k \in Authorities :
          \/ \E f \in WithdrawFees, l \in ListingFees : SetPlatformParams(k, f, l)
          \/ \E t \in Treasuries : SetPlatformTreasury(k, t)
          \/ \E new \in Authorities : SetPlatformAuthority(k, new)
          \/ \E p \in PauseChoices : SetListingsPaused(k, p)
          \/ \E f \in WithdrawFees : SetVaultWithdrawFee(k, f)
  BY DEF AuthorityNext
<1>2. CASE \E f \in WithdrawFees, l \in ListingFees : SetPlatformParams(k, f, l)
  <2>1. TypeOK'
    BY <1>2 DEF IInv, TypeOK, SetPlatformParams, PlatformOnly, ValidFee,
                MAX_WITHDRAW_FEE_BPS, vaultVars, navVars, shareVars,
                quoteVars, historyVars
  <2>. QED
    BY <1>2, <2>1, FrameIInv DEF SetPlatformParams, PlatformOnly, watched,
                                 vaultVars, shareVars, historyVars
<1>3. CASE \E t \in Treasuries : SetPlatformTreasury(k, t)
  <2>1. TypeOK'
    BY <1>3 DEF IInv, TypeOK, SetPlatformTreasury, PlatformOnly, vaultVars,
                navVars, shareVars, quoteVars, historyVars
  <2>. QED
    BY <1>3, <2>1, FrameIInv DEF SetPlatformTreasury, PlatformOnly, watched,
                                 vaultVars, shareVars, historyVars
<1>4. CASE \E new \in Authorities : SetPlatformAuthority(k, new)
  <2>1. TypeOK'
    BY <1>4 DEF IInv, TypeOK, SetPlatformAuthority, PlatformOnly, vaultVars,
                navVars, shareVars, quoteVars, historyVars
  <2>. QED
    BY <1>4, <2>1, FrameIInv DEF SetPlatformAuthority, PlatformOnly, watched,
                                 vaultVars, shareVars, historyVars
<1>5. CASE \E p \in PauseChoices : SetListingsPaused(k, p)
  <2>1. TypeOK'
    BY <1>5 DEF IInv, TypeOK, SetListingsPaused, PlatformOnly, vaultVars,
                navVars, shareVars, quoteVars, historyVars
  <2>. QED
    BY <1>5, <2>1, FrameIInv DEF SetListingsPaused, PlatformOnly, watched,
                                 vaultVars, shareVars, historyVars
<1>6. CASE \E f \in WithdrawFees : SetVaultWithdrawFee(k, f)
  <2>1. PICK f \in WithdrawFees : SetVaultWithdrawFee(k, f)
    BY <1>6
  <2>2. TypeOK'
    BY <2>1 DEF IInv, TypeOK, SetVaultWithdrawFee, platformVars, navVars,
                shareVars, quoteVars, historyVars, MAX_WITHDRAW_FEE_BPS
  <2>3. ClaimsSane' /\ PendingSane' /\ SerialClaims'
    BY <2>1 DEF IInv, ClaimsSane, PendingSane, SerialClaims, Incomplete,
                IsComplete, SetVaultWithdrawFee, historyVars
  <2>4. IndicesSane' /\ ListingSane'
    BY <2>1 DEF IInv, IndicesSane, ListingSane, Registered, SetVaultWithdrawFee,
                shareVars, historyVars
  <2>5. FeeSane'
    BY <2>1 DEF IInv, TypeOK, FeeSane, SetVaultWithdrawFee, historyVars
  <2>. QED
    BY <2>2, <2>3, <2>4, <2>5 DEF IInv
<1>. QED
  BY <1>1, <1>2, <1>3, <1>4, <1>5, <1>6

-----------------------------------------------------------------------------
(* Steps of the manager. *)

\* initialize_vault gives the quote mint index 0, and only that one.
LEMMA InitializeVaultIInv ==
    ASSUME IInv, NEW m \in Managers, NEW f \in ListingFees, InitializeVault(m, f)
    PROVE  IInv'
<1> USE HolderAssumption, ParameterAssumption, InputAssumption
<1>1. /\ assetCount = 0
      /\ \A h \in Holders : agreedFee[h] = MAX_WITHDRAW_FEE_BPS
  BY DEF IInv, TypeOK, ListingSane, InitializeVault, InitializeVaultAccounts
<1>2. TypeOK'
  BY DEF IInv, TypeOK, InitializeVault, InitializeVaultAccounts, navVars,
         quoteVars, historyVars
<1>3. ClaimsSane'
  BY <1>1 DEF IInv, ClaimsSane, InitializeVault, historyVars
<1>4. PendingSane' /\ SerialClaims' /\ FeeSane'
  <2>1. PendingSane' /\ SerialClaims'
    BY DEF IInv, PendingSane, SerialClaims, Incomplete, IsComplete,
           InitializeVault, historyVars
  <2>2. FeeSane'
    BY <1>1 DEF IInv, TypeOK, FeeSane, InitializeVault, historyVars,
                MAX_WITHDRAW_FEE_BPS
  <2>. QED BY <2>1, <2>2
<1>5. IndicesSane'
  <2>1. \A a \in Assets : index[a] = Unregistered
    BY <1>1 DEF IInv, TypeOK, IndicesSane, Registered
  <2>2. \A a \in Assets : Registered(a)' => a = Quote /\ index'[a] = 0
    BY <2>1 DEF IInv, TypeOK, InitializeVault, Registered
  <2>3. index'[Quote] = 0
    BY DEF IInv, TypeOK, InitializeVault
  <2>. QED
    BY <2>2, <2>3 DEF IndicesSane, InitializeVault
<1>6. ListingSane'
  BY DEF ListingSane, InitializeVault
<1>. QED
  BY <1>2, <1>3, <1>4, <1>5, <1>6 DEF IInv

\* register_asset hands out the next index, once per mint.
LEMMA RegisterAssetIInv ==
    ASSUME IInv, NEW m \in Managers, NEW a \in Assets, RegisterAsset(m, a)
    PROVE  IInv'
<1> USE HolderAssumption, ParameterAssumption, InputAssumption
<1>1. /\ assetCount \in Nat
      /\ assetCount' = assetCount + 1
      /\ index' = [index EXCEPT ![a] = assetCount]
      /\ index[a] = Unregistered
  BY DEF IInv, TypeOK, RegisterAsset, RegisterAssetAccounts, Registered
<1>2. TypeOK'
  BY DEF IInv, TypeOK, RegisterAsset, RegisterAssetAccounts, platformVars,
         navVars, shareVars, quoteVars, historyVars
<1>3. ClaimsSane'
  BY <1>1 DEF IInv, TypeOK, ClaimsSane, ClaimRecord, RegisterAsset, historyVars
<1>4. PendingSane' /\ SerialClaims' /\ FeeSane'
  BY DEF IInv, PendingSane, SerialClaims, FeeSane, Incomplete, IsComplete,
         RegisterAsset, historyVars
<1>5. IndicesSane'
  <2>1. \A b \in Assets : Registered(b)' => index'[b] \in 0..(assetCount' - 1)
    BY <1>1 DEF IInv, TypeOK, IndicesSane, Registered
  <2>2. ASSUME NEW i \in 0..(assetCount' - 1)
        PROVE  \E b \in Assets : index'[b] = i
    <3>1. CASE i = assetCount
      BY <1>1, <3>1 DEF IInv, TypeOK
    <3>2. CASE i # assetCount
      <4>1. PICK b \in Assets : index[b] = i
        BY <1>1, <3>2 DEF IInv, IndicesSane
      <4>2. b # a
        BY <1>1, <4>1 DEF Unregistered
      <4>. QED
        BY <1>1, <4>1, <4>2 DEF IInv, TypeOK
    <3>. QED BY <3>1, <3>2
  <2>. QED
    BY <2>1, <2>2 DEF IndicesSane
<1>6. ListingSane'
  BY <1>1 DEF IInv, ListingSane, RegisterAsset, RegisterAssetAccounts,
              shareVars, historyVars
<1>. QED
  BY <1>2, <1>3, <1>4, <1>5, <1>6 DEF IInv

\* A route takes no more of an account than it has.
LEMMA RouteLeaves ==
    ASSUME TypeOK, NEW m \in Managers, NEW a \in VaultAccounts, NEW b \in VaultAccounts,
           NEW fill \in Fills, NEW limit \in Fills, ExecuteTrade(m, a, b, fill, limit)
    PROVE  /\ book' \in [Assets -> Nat]
           /\ pendingQuote' \in Nat
           /\ bucketTraded' \in Int
<1>1. fill[1] \in Nat /\ fill[2] \in Nat
  BY InputAssumption
<1>2. \A x \in VaultAccounts : Balance(x) \in Nat
  BY DEF TypeOK, VaultAccounts, Balance
<1>3. fill[1] <= Balance(a)
  BY DEF ExecuteTrade
<1>4. \A x \in VaultAccounts : AfterRoute(x, a, b, fill) \in Nat
  <2>1. TAKE x \in VaultAccounts
  <2>2. Balance(x) \in Nat
    BY <1>2
  <2>. QED BY <1>1, <1>3, <2>2 DEF AfterRoute
<1>5. /\ book' = [x \in Assets |-> AfterRoute(x, a, b, fill)]
      /\ pendingQuote' = AfterRoute(PendingBucket, a, b, fill)
      /\ bucketTraded' = bucketTraded + pendingQuote' - pendingQuote
  BY DEF ExecuteTrade
<1>6. book' \in [Assets -> Nat] /\ pendingQuote' \in Nat
  BY <1>4, <1>5 DEF VaultAccounts
<1>. QED BY <1>5, <1>6 DEF TypeOK

\* The instructions of the manager keep the invariant.
LEMMA ManagerIInv ==
    ASSUME IInv, ManagerNext
    PROVE  IInv'
<1> USE HolderAssumption, ParameterAssumption, InputAssumption
<1>1. PICK m \in Managers :
          \/ \E f \in ListingFees : InitializeVault(m, f)
          \/ \E a \in Assets : RegisterAsset(m, a)
          \/ \E nav \in NavChoices : PostNav(m, nav)
          \/ \E a, b \in VaultAccounts, fill, limit \in Fills :
                 ExecuteTrade(m, a, b, fill, limit)
          \/ \E p \in PauseChoices : SetPaused(m, p)
          \/ \E new \in Managers : SetManager(m, new)
  BY DEF ManagerNext
<1>2. CASE \E nav \in NavChoices : PostNav(m, nav)
  <2>1. TypeOK'
    BY <1>2 DEF IInv, TypeOK, PostNav, platformVars, shareVars, quoteVars,
                historyVars
  <2>. QED
    BY <1>2, <2>1, FrameIInv DEF PostNav, watched, shareVars, historyVars
<1>3. CASE \E a, b \in VaultAccounts, fill, limit \in Fills :
               ExecuteTrade(m, a, b, fill, limit)
  <2>1. PICK a \in VaultAccounts, b \in VaultAccounts, fill \in Fills, limit \in Fills :
            ExecuteTrade(m, a, b, fill, limit)
    BY <1>3
  <2>2. book' \in [Assets -> Nat] /\ pendingQuote' \in Nat /\ bucketTraded' \in Int
    BY <2>1, RouteLeaves DEF IInv
  <2>3. TypeOK'
    BY <2>1, <2>2 DEF IInv, TypeOK, ExecuteTrade, platformVars, vaultVars,
                      navVars, shareVars
  <2>. QED
    BY <2>1, <2>3, FrameIInv DEF ExecuteTrade, watched, vaultVars, shareVars
<1>4. CASE \E p \in PauseChoices : SetPaused(m, p)
  <2>1. TypeOK'
    BY <1>4 DEF IInv, TypeOK, SetPaused, ManagerOnly, platformVars, navVars,
                shareVars, quoteVars, historyVars
  <2>. QED
    BY <1>4, <2>1, FrameIInv DEF SetPaused, ManagerOnly, watched, shareVars,
                                 historyVars
<1>5. CASE \E new \in Managers : SetManager(m, new)
  <2>1. TypeOK'
    BY <1>5 DEF IInv, TypeOK, SetManager, ManagerOnly, platformVars, navVars,
                shareVars, quoteVars, historyVars
  <2>. QED
    BY <1>5, <2>1, FrameIInv DEF SetManager, ManagerOnly, watched, shareVars,
                                 historyVars
<1>. QED
  BY <1>1, <1>2, <1>3, <1>4, <1>5, InitializeVaultIInv, RegisterAssetIInv

-----------------------------------------------------------------------------
(* Deposits. *)

\* The parts of IInv about claims and indices read only these variables.
claimWatched == <<claim, assetCount, index, pendingClaims, lateDraw>>

\* A step that leaves those variables alone keeps those parts.
LEMMA FrameClaims ==
    ASSUME IInv, UNCHANGED claimWatched
    PROVE  ClaimsSane' /\ PendingSane' /\ SerialClaims' /\ IndicesSane'
BY DEF IInv, ClaimsSane, PendingSane, SerialClaims, IndicesSane, Incomplete,
       IsComplete, Registered, claimWatched

\* request_deposit keeps the invariant.
LEMMA RequestDepositIInv ==
    ASSUME IInv, NEW h \in Holders, NEW amount \in DepositAmounts,
           RequestDeposit(h, amount)
    PROVE  IInv'
<1> USE HolderAssumption, ParameterAssumption, InputAssumption
<1>1. amount \in Nat
  OBVIOUS
<1>2. TypeOK'
  <2>1. wallet[h] - amount \in Nat
    BY <1>1 DEF IInv, TypeOK, RequestDeposit
  <2>2. /\ wallet' \in [Holders -> Nat]
        /\ request' \in [Holders -> Nat]
        /\ pendingQuote' \in Nat
    BY <1>1, <2>1 DEF IInv, TypeOK, RequestDeposit
  <2>. QED
    BY <2>2 DEF IInv, TypeOK, RequestDeposit, platformVars, vaultVars, navVars,
                shareVars, historyVars
<1>3. ClaimsSane' /\ PendingSane' /\ SerialClaims' /\ IndicesSane'
  BY FrameClaims DEF RequestDeposit, claimWatched, vaultVars, historyVars
<1>4. ListingSane' /\ FeeSane'
  BY DEF IInv, ListingSane, FeeSane, RequestDeposit, RequestDepositAccounts,
         vaultVars, historyVars
<1>. QED
  BY <1>2, <1>3, <1>4 DEF IInv

\* cancel_deposit keeps the invariant: the refund is in the bucket.
LEMMA CancelDepositIInv ==
    ASSUME IInv, NEW h \in Holders, CancelDeposit(h)
    PROVE  IInv'
<1>1. TypeOK'
  <2>1. /\ pendingQuote - request[h] \in Nat
        /\ wallet[h] + request[h] \in Nat
    BY DEF IInv, TypeOK, CancelDeposit
  <2>2. /\ wallet' \in [Holders -> Nat]
        /\ request' \in [Holders -> Nat]
        /\ pendingQuote' \in Nat
    BY <2>1 DEF IInv, TypeOK, CancelDeposit, CloseRequest
  <2>. QED
    BY <2>2 DEF IInv, TypeOK, CancelDeposit, platformVars, vaultVars, navVars,
                shareVars, historyVars
<1>2. ClaimsSane' /\ PendingSane' /\ SerialClaims' /\ IndicesSane'
  BY FrameClaims DEF CancelDeposit, claimWatched, vaultVars, historyVars
<1>3. listed
  BY DEF IInv, TypeOK, ListingSane, CancelDeposit
<1>4. ListingSane' /\ FeeSane'
  BY <1>3 DEF IInv, ListingSane, FeeSane, CancelDeposit, vaultVars, historyVars
<1>. QED
  BY <1>1, <1>2, <1>4 DEF IInv

\* A settlement mints a natural number of shares: it never divides by zero.
LEMMA SharesForNat ==
    ASSUME IInv, NEW h \in Holders, SettleDeposit(h)
    PROVE  SharesFor(request[h]) \in Nat
<1>1. request[h] \in Nat /\ supply \in Nat /\ navQuote \in Nat
  BY DEF IInv, TypeOK
<1>2. CASE supply = 0
  BY <1>1, <1>2 DEF SharesFor
<1>3. CASE supply # 0
  <2>1. navQuote > 0
    BY <1>3 DEF SettleDeposit, NavFresh
  <2>. QED
    BY <1>1, <1>3, <2>1, FloorNat DEF SharesFor
<1>. QED
  BY <1>2, <1>3

\* settle_deposit keeps the invariant: it records the fee now in force as
\* the one its depositor agreed to.
LEMMA SettleDepositIInv ==
    ASSUME IInv, NEW h \in Holders, SettleDeposit(h)
    PROVE  IInv'
<1> USE HolderAssumption
<1>1. request[h] \in Nat /\ supply \in Nat /\ navQuote \in Nat
  BY DEF IInv, TypeOK
<1>2. SharesFor(request[h]) \in Nat
  BY SharesForNat
<1>3. TypeOK'
  <2>1. /\ pendingQuote' \in Nat
        /\ book' \in [Assets -> Nat]
        /\ request' \in [Holders -> Nat]
        /\ navQuote' \in Nat
    BY <1>1 DEF IInv, TypeOK, SettleDeposit, SettleDepositAccounts, CloseRequest
  <2>2. /\ supply' \in Nat
        /\ shares' \in [Holders -> Nat]
        /\ shareAccounts' \subseteq Holders
    BY <1>1, <1>2 DEF IInv, TypeOK, SettleDeposit, SettleDepositAccounts
  <2>3. agreedFee' \in [Holders -> 0..MAX_WITHDRAW_FEE_BPS]
    BY DEF IInv, TypeOK, SettleDeposit
  <2>. QED
    BY <2>1, <2>2, <2>3 DEF IInv, TypeOK, SettleDeposit, platformVars
<1>4. ClaimsSane' /\ PendingSane' /\ SerialClaims' /\ IndicesSane'
  BY FrameClaims DEF SettleDeposit, claimWatched
<1>5. listed
  BY DEF IInv, TypeOK, ListingSane, SettleDeposit, SettleDepositAccounts
<1>6. ListingSane'
  BY <1>5 DEF IInv, ListingSane, SettleDeposit
<1>7. FeeSane'
  BY DEF IInv, TypeOK, FeeSane, SettleDeposit
<1>. QED
  BY <1>3, <1>4, <1>6, <1>7 DEF IInv

\* Opening a share account keeps the invariant.
LEMMA OpenShareAccountIInv ==
    ASSUME IInv, NEW t \in Treasuries, OpenShareAccount(t)
    PROVE  IInv'
<1>1. TypeOK'
  BY HolderAssumption
  DEF IInv, TypeOK, OpenShareAccount, platformVars, vaultVars, navVars,
      quoteVars, historyVars
<1>2. ClaimsSane' /\ PendingSane' /\ SerialClaims' /\ IndicesSane'
  BY FrameClaims DEF OpenShareAccount, claimWatched, vaultVars, historyVars
<1>3. ListingSane' /\ FeeSane'
  BY DEF IInv, ListingSane, FeeSane, OpenShareAccount, vaultVars, historyVars
<1>. QED
  BY <1>1, <1>2, <1>3 DEF IInv

\* The clock keeps the invariant.
LEMMA TickIInv == ASSUME IInv, Tick PROVE IInv'
<1>1. TypeOK'
  BY DEF IInv, TypeOK, Tick, platformVars, vaultVars, navVars, shareVars,
         quoteVars, historyVars
<1>. QED
  BY <1>1, FrameIInv DEF Tick, watched, vaultVars, shareVars, historyVars

-----------------------------------------------------------------------------
(* Withdrawals. *)

\* The amounts initiate_withdrawal moves: the burn and the fee are its parts.
LEMMA ExitAmounts ==
    ASSUME IInv, NEW h \in Holders, NEW amount \in Nat,
           InitiateWithdrawal(h, amount)
    PROVE  LET fee == FeeShares(h, amount)
               burned == amount - fee
           IN  /\ fee \in Nat
               /\ burned \in 1..supply
               /\ supply - burned \in Nat
               /\ shares[h] - amount \in Nat
               /\ supply \in Nat /\ supply > 0
<1> DEFINE fee == FeeShares(h, amount)
           burned == amount - fee
<1>1. fee \in Nat
  <2>1. withdrawFeeBps \in Nat /\ BPS \in Nat /\ BPS > 0
    BY DEF IInv, TypeOK, BPS, MAX_WITHDRAW_FEE_BPS
  <2>2. MulDivFloor(amount, withdrawFeeBps, BPS) \in Nat
    BY <2>1, FloorNat
  <2>. QED
    BY <2>2 DEF FeeShares
<1>2. burned > 0 /\ burned <= supply /\ amount <= shares[h]
  BY DEF InitiateWithdrawal
<1>3. supply \in Nat /\ shares[h] \in Nat
  BY DEF IInv, TypeOK
<1> HIDE DEF fee
<1>. QED
  BY <1>1, <1>2, <1>3 DEF fee

\* initiate_withdrawal keeps the invariant: it opens a claim only when
\* pending_claims shows that none is incomplete.
LEMMA InitiateWithdrawalIInv ==
    ASSUME IInv, NEW h \in Holders, NEW amount \in Nat,
           InitiateWithdrawal(h, amount)
    PROVE  IInv'
<1> DEFINE fee == FeeShares(h, amount)
           burned == amount - fee
           c == [open |-> TRUE, sharesBurned |-> burned, totalAtBurn |-> supply,
                 assetCountAtBurn |-> assetCount, assetsClaimed |-> 0,
                 bitmap |-> {}]
<1>1. /\ fee \in Nat
      /\ burned \in 1..supply
      /\ supply - burned \in Nat
      /\ shares[h] - amount \in Nat
      /\ supply \in Nat /\ supply > 0
  BY ExitAmounts
<1>2. /\ claim' = [claim EXCEPT ![h] = c]
      /\ pendingClaims' = pendingClaims + 1
      /\ pendingClaims = 0
      /\ lateDraw' = lateDraw
      /\ assetCount' = assetCount
      /\ index' = index
  BY DEF InitiateWithdrawal, NoClaimsOpen
<1>3. assetCount \in Nat /\ assetCount > 0
  BY DEF IInv, TypeOK, ListingSane, InitiateWithdrawal,
         InitiateWithdrawalAccounts
<1>4. TypeOK'
  <2>1. shares' \in [Holders -> Nat]
    BY <1>1 DEF IInv, TypeOK, InitiateWithdrawal, SharesLeft
  <2>2. claim' \in [Holders -> ClaimRecord]
    BY <1>1, <1>2, <1>3 DEF IInv, TypeOK, ClaimRecord
  <2>3. navQuote' \in Nat
    <3>1. navQuote' = MulDivFloor(navQuote, supply - burned, supply)
      BY DEF InitiateWithdrawal
    <3>. QED
      BY <1>1, <3>1, FloorNat DEF IInv, TypeOK
  <2>4. supply' \in Nat /\ burns' \in Nat /\ pendingClaims' \in Nat
    BY <1>1 DEF IInv, TypeOK, InitiateWithdrawal
  <2>5. /\ burnBook' \in [Holders -> [Assets -> Nat]]
        /\ paid' \in [Holders -> [Assets -> Nat]]
    BY DEF IInv, TypeOK, InitiateWithdrawal, NoAmounts
  <2>. QED
    BY <2>1, <2>2, <2>3, <2>4, <2>5
    DEF IInv, TypeOK, InitiateWithdrawal, platformVars, quoteVars
<1> HIDE DEF burned
<1>5. \A g \in Holders : claim'[g] = IF g = h THEN c ELSE claim[g]
  BY <1>2 DEF IInv, TypeOK
<1>6. ClaimsSane'
  BY <1>1, <1>2, <1>3, <1>5, FS_EmptySet DEF IInv, ClaimsSane
<1>7. \A g \in Holders : Incomplete(g)' <=> g = h \/ Incomplete(g)
  BY <1>3, <1>5 DEF Incomplete, IsComplete, InitiateWithdrawal,
                    InitiateWithdrawalAccounts
<1>8. PendingSane'
  BY <1>2, <1>7 DEF PendingSane
<1>9. SerialClaims'
  BY <1>2, <1>7 DEF IInv, SerialClaims
<1>10. IndicesSane'
  BY <1>2 DEF IInv, IndicesSane, Registered
<1>11. ListingSane' /\ FeeSane'
  BY DEF IInv, ListingSane, FeeSane, InitiateWithdrawal
<1>. QED
  BY <1>4, <1>6, <1>8, <1>9, <1>10, <1>11 DEF IInv

\* A complete claim whose bits are all of its burn has no bit of its burn left.
LEMMA CompleteIsFull ==
    ASSUME NEW B, NEW n \in Nat, B \subseteq 0..(n - 1), IsFiniteSet(B),
           Cardinality(B) >= n
    PROVE  B = 0..(n - 1)
<1>1. IsFiniteSet(0..(n - 1)) /\ Cardinality(0..(n - 1)) = n
  <2>1. 0 \in Int /\ n - 1 \in Int
    OBVIOUS
  <2>2. /\ IsFiniteSet(0..(n - 1))
        /\ Cardinality(0..(n - 1)) = IF 0 > n - 1 THEN 0 ELSE (n - 1) - 0 + 1
    BY <2>1, FS_Interval, Zenon
  <2>. QED
    BY <2>2
<1>2. Cardinality(B) <= n
  BY <1>1, FS_Subset
<1>3. Cardinality(B) = n
  BY <1>2, FS_CardinalityType
<1>. QED
  BY <1>1, <1>3, FS_Subset

\* claim_asset keeps the invariant: it lowers pending_claims exactly when the
\* claim it serves was incomplete and no longer is.
LEMMA ClaimAssetIInv ==
    ASSUME IInv, NEW h \in Holders, NEW a \in Assets, ClaimAsset(h, a)
    PROVE  IInv'
<1> DEFINE c == claim[h]
           amount == MulDivFloor(book[a], c.sharesBurned, c.totalAtBurn)
           marked == MarkClaimed(c, index[a])
<1>1. /\ c \in ClaimRecord
      /\ c.open
      /\ c.sharesBurned \in 1..c.totalAtBurn
      /\ c.assetCountAtBurn \in 1..assetCount
      /\ c.bitmap \subseteq 0..(assetCount - 1)
      /\ IsFiniteSet(c.bitmap)
      /\ Cardinality(c.bitmap) = c.assetsClaimed
      /\ ~lateDraw => c.bitmap \subseteq 0..(c.assetCountAtBurn - 1)
  BY DEF IInv, TypeOK, ClaimsSane, ClaimAsset, ClaimAssetAccounts
<1>2. /\ index[a] \in 0..(assetCount - 1)
      /\ index[a] \notin c.bitmap
  BY DEF IInv, IndicesSane, ClaimAsset, ClaimAssetAccounts
<1>3. /\ claim' = [claim EXCEPT ![h] = marked]
      /\ lateDraw' = (lateDraw \/ index[a] >= c.assetCountAtBurn)
      /\ pendingClaims' = IF IsComplete(marked)
                          THEN SaturatingSub(pendingClaims, 1)
                          ELSE pendingClaims
      /\ assetCount' = assetCount
      /\ index' = index
  BY DEF ClaimAsset
<1>4. /\ marked = [c EXCEPT !.bitmap = c.bitmap \cup {index[a]},
                            !.assetsClaimed = c.assetsClaimed + 1]
      /\ assetCount \in Nat
      /\ pendingClaims \in {0, 1}
  BY DEF MarkClaimed, IInv, TypeOK, PendingSane
<1>5. /\ amount \in Nat
      /\ amount <= book[a]
  <2>1. /\ book[a] \in Nat
        /\ c.sharesBurned \in Nat
        /\ c.totalAtBurn \in Nat
        /\ c.totalAtBurn > 0
        /\ c.sharesBurned <= c.totalAtBurn
    BY <1>1 DEF IInv, TypeOK, ClaimRecord
  <2>. QED
    BY <2>1, FloorNat, FloorPart
<1>6. marked \in ClaimRecord
  <2>1. index[a] \in Nat
    BY <1>2, <1>4
  <2>2. /\ c.bitmap \cup {index[a]} \in SUBSET Nat
        /\ c.assetsClaimed + 1 \in Nat
    BY <1>1, <2>1 DEF ClaimRecord
  <2>. QED
    BY <1>1, <1>4, <2>2 DEF ClaimRecord
<1>7. TypeOK'
  <2>1. book[a] - amount \in Nat
    BY <1>5 DEF IInv, TypeOK
  <2>2. book' \in [Assets -> Nat]
    BY <2>1 DEF IInv, TypeOK, ClaimAsset
  <2>3. wallet' \in [Holders -> Nat]
    BY <1>5 DEF IInv, TypeOK, ClaimAsset
  <2>4. claim' \in [Holders -> ClaimRecord]
    BY <1>3, <1>6 DEF IInv, TypeOK
  <2>5. pendingClaims' \in Nat
    BY <1>3, <1>4 DEF SaturatingSub
  <2>6. paid' \in [Holders -> [Assets -> Nat]]
    BY <1>5 DEF IInv, TypeOK, ClaimAsset
  <2>7. lateDraw' \in BOOLEAN
    BY <1>3
  <2>. QED
    BY <2>2, <2>3, <2>4, <2>5, <2>6, <2>7
    DEF IInv, TypeOK, ClaimAsset, platformVars, navVars, shareVars
<1> HIDE DEF amount, marked
<1>8. \A g \in Holders : claim'[g] = IF g = h THEN marked ELSE claim[g]
  BY <1>3 DEF IInv, TypeOK
<1>9. /\ marked.open
      /\ marked.sharesBurned = c.sharesBurned
      /\ marked.totalAtBurn = c.totalAtBurn
      /\ marked.assetCountAtBurn = c.assetCountAtBurn
      /\ marked.bitmap = c.bitmap \cup {index[a]}
      /\ marked.assetsClaimed = c.assetsClaimed + 1
  BY <1>1, <1>4 DEF ClaimRecord
<1>10. /\ IsFiniteSet(marked.bitmap)
       /\ Cardinality(marked.bitmap) = marked.assetsClaimed
  <2>1. /\ IsFiniteSet(c.bitmap \cup {index[a]})
        /\ Cardinality(c.bitmap \cup {index[a]}) = Cardinality(c.bitmap) + 1
    BY <1>1, <1>2, FS_AddElement
  <2>. QED
    BY <1>1, <1>9, <2>1
<1>11. ClaimsSane'
  <2>1. ASSUME NEW g \in Holders, claim'[g].open, g # h
        PROVE  /\ claim'[g].sharesBurned \in 1..claim'[g].totalAtBurn
               /\ claim'[g].assetCountAtBurn \in 1..assetCount'
               /\ claim'[g].bitmap \subseteq 0..(assetCount' - 1)
               /\ IsFiniteSet(claim'[g].bitmap)
               /\ Cardinality(claim'[g].bitmap) = claim'[g].assetsClaimed
               /\ ~lateDraw' => claim'[g].bitmap
                                   \subseteq 0..(claim'[g].assetCountAtBurn - 1)
    BY <1>3, <1>8, <2>1 DEF IInv, ClaimsSane
  <2>2. ~lateDraw' => marked.bitmap \subseteq 0..(marked.assetCountAtBurn - 1)
    <3>1. ASSUME ~lateDraw'
          PROVE  index[a] \in 0..(c.assetCountAtBurn - 1) /\ ~lateDraw
      <4>1. ~(index[a] >= c.assetCountAtBurn) /\ ~lateDraw
        BY <1>3, <3>1
      <4>2. c.assetCountAtBurn \in Nat /\ index[a] \in Nat
        BY <1>1, <1>2, <1>4
      <4>. QED
        BY <4>1, <4>2
    <3>. QED
      BY <1>1, <1>9, <3>1
  <2>3. marked.bitmap \subseteq 0..(assetCount - 1)
    BY <1>1, <1>2, <1>9
  <2>. QED
    BY <1>1, <1>3, <1>8, <1>9, <1>10, <2>1, <2>2, <2>3 DEF ClaimsSane
<1>12. \A g \in Holders : g # h => (Incomplete(g)' <=> Incomplete(g))
  BY <1>8 DEF Incomplete
<1>13. Incomplete(h)' <=> ~IsComplete(marked)
  BY <1>8, <1>9 DEF Incomplete
<1>14. PendingSane'
  BY <1>3, <1>4, <1>12, <1>13 DEF PendingSane, IInv, SaturatingSub
<1>15. SerialClaims'
  <2> SUFFICES ASSUME ~lateDraw'
               PROVE  /\ pendingClaims' = IF \E g \in Holders : Incomplete(g)'
                                          THEN 1 ELSE 0
                      /\ \A g1, g2 \in Holders :
                             Incomplete(g1)' /\ Incomplete(g2)' => g1 = g2
    BY DEF SerialClaims
  <2>1. ~lateDraw /\ index[a] < c.assetCountAtBurn
    <3>1. ~(index[a] >= c.assetCountAtBurn) /\ ~lateDraw
      BY <1>3
    <3>2. c.assetCountAtBurn \in Nat /\ index[a] \in Nat
      BY <1>1, <1>2, <1>4
    <3>. QED
      BY <3>1, <3>2
  <2>2. Incomplete(h)
    <3>1. SUFFICES ASSUME IsComplete(c) PROVE FALSE
      BY <1>1 DEF Incomplete
    <3>2. c.bitmap = 0..(c.assetCountAtBurn - 1)
      BY <1>1, <2>1, <3>1, CompleteIsFull DEF IsComplete
    <3>. QED
      BY <1>1, <1>2, <1>4, <2>1, <3>2
  <2>3. /\ pendingClaims = 1
        /\ \A g \in Holders : Incomplete(g) => g = h
    BY <2>1, <2>2 DEF IInv, SerialClaims
  <2>4. \A g \in Holders : Incomplete(g)' => g = h
    BY <1>12, <2>3
  <2>. QED
    BY <1>3, <1>13, <2>3, <2>4 DEF SaturatingSub
<1>16. IndicesSane'
  BY <1>3 DEF IInv, IndicesSane, Registered
<1>17. ListingSane' /\ FeeSane'
  BY DEF IInv, ListingSane, FeeSane, ClaimAsset, shareVars
<1>. QED
  BY <1>7, <1>11, <1>14, <1>15, <1>16, <1>17 DEF IInv

\* close_claim keeps the invariant: it closes complete claims only.
LEMMA CloseClaimIInv ==
    ASSUME IInv, NEW h \in Holders, CloseClaim(h)
    PROVE  IInv'
<1>1. /\ claim' = [claim EXCEPT ![h] = NoClaim]
      /\ UNCHANGED <<pendingClaims, lateDraw, assetCount, index>>
      /\ ~Incomplete(h)
  BY DEF CloseClaim, vaultVars, Incomplete
<1>2. \A g \in Holders : claim'[g] = IF g = h THEN NoClaim ELSE claim[g]
  BY <1>1 DEF IInv, TypeOK
<1>3. TypeOK'
  <2>1. NoClaim \in ClaimRecord /\ NoAmounts \in [Assets -> Nat]
    BY DEF NoClaim, ClaimRecord, NoAmounts
  <2>2. /\ claim' \in [Holders -> ClaimRecord]
        /\ burnBook' \in [Holders -> [Assets -> Nat]]
        /\ paid' \in [Holders -> [Assets -> Nat]]
    BY <1>1, <2>1 DEF IInv, TypeOK, CloseClaim
  <2>. QED
    BY <2>2 DEF IInv, TypeOK, CloseClaim, platformVars, vaultVars, navVars,
                shareVars, quoteVars
<1>4. \A g \in Holders : Incomplete(g)' <=> Incomplete(g)
  BY <1>1, <1>2 DEF Incomplete, NoClaim
<1>5. ClaimsSane'
  BY <1>1, <1>2 DEF IInv, ClaimsSane, NoClaim
<1>6. PendingSane' /\ SerialClaims'
  BY <1>1, <1>4 DEF IInv, PendingSane, SerialClaims
<1>7. IndicesSane'
  BY <1>1 DEF IInv, IndicesSane, Registered
<1>8. ListingSane' /\ FeeSane'
  BY DEF IInv, ListingSane, FeeSane, CloseClaim, vaultVars, shareVars
<1>. QED
  BY <1>3, <1>5, <1>6, <1>7, <1>8 DEF IInv


-----------------------------------------------------------------------------
(* The invariant is inductive. *)

\* The instructions of holders, and of whoever cranks for them, keep it.
LEMMA HolderIInv ==
    ASSUME IInv, HolderNext
    PROVE  IInv'
<1> USE InputAssumption
<1>1. PICK h \in Holders :
          \/ \E amount \in DepositAmounts : RequestDeposit(h, amount)
          \/ CancelDeposit(h)
          \/ SettleDeposit(h)
          \/ \E amount \in ShareAmounts \cup {shares[h]} :
                 InitiateWithdrawal(h, amount)
          \/ \E a \in Assets : ClaimAsset(h, a)
          \/ CloseClaim(h)
  BY DEF HolderNext
<1>2. \A amount \in ShareAmounts \cup {shares[h]} : amount \in Nat
  BY DEF IInv, TypeOK
<1>3. CASE \E amount \in ShareAmounts \cup {shares[h]} :
               InitiateWithdrawal(h, amount)
  BY <1>2, <1>3, InitiateWithdrawalIInv
<1>. QED
  BY <1>1, <1>3, RequestDepositIInv, CancelDepositIInv, SettleDepositIInv,
     ClaimAssetIInv, CloseClaimIInv

\* Every step keeps the invariant.
LEMMA NextIInv == IInv /\ [Next]_vars => IInv'
<1> SUFFICES ASSUME IInv, [Next]_vars PROVE IInv'
  OBVIOUS
<1>1. CASE UNCHANGED vars
  <2>1. TypeOK'
    BY <1>1 DEF IInv, TypeOK, vars, platformVars, vaultVars, navVars, shareVars,
                quoteVars, historyVars
  <2>. QED
    BY <1>1, <2>1, FrameIInv DEF vars, vaultVars, shareVars, historyVars, watched
<1>2. CASE \E t \in Treasuries : OpenShareAccount(t)
  BY <1>2, OpenShareAccountIInv
<1>. QED
  BY <1>1, <1>2, AuthorityIInv, ManagerIInv, HolderIInv, TickIInv DEF Next

\* IInv holds in every reachable state, whatever the constants.
THEOREM Inductive == Spec => []IInv
BY InitIInv, NextIInv, PTL DEF Spec

\* Every account field keeps its type: in particular no withdrawal or trade
\* takes a balance, the share supply or pending_claims below zero, and no fee
\* leaves the range that Platform::validate_fee allows.
THEOREM TypeCorrect == Spec => []TypeOK
<1>1. IInv => TypeOK
  BY DEF IInv
<1>. QED
  BY <1>1, Inductive, PTL

-----------------------------------------------------------------------------
(* The claim queue. *)

\* "One claim at a time, per vault" (lib.rs:384): until a claim draws an asset
\* registered after its burn, at most one claim is incomplete, and
\* pending_claims counts exactly that one.
THEOREM ClaimsAreSerial == Spec => []SerialClaims
<1>1. IInv => SerialClaims
  BY DEF IInv
<1>. QED
  BY <1>1, Inductive, PTL

\* An incomplete claim has a registered asset that it has not drawn: its bits
\* are fewer than the indices handed out.
LEMMA IncompleteIsCrankable ==
    ASSUME IInv, NEW h \in Holders, Incomplete(h)
    PROVE  \E a \in Assets : Registered(a) /\ a \notin Drawn(h)
<1> DEFINE c == claim[h]
           n == c.assetCountAtBurn
<1>1. /\ n \in 1..assetCount
      /\ assetCount \in Nat
      /\ IsFiniteSet(c.bitmap)
      /\ Cardinality(c.bitmap) = c.assetsClaimed
      /\ c.assetsClaimed \in Nat
      /\ c.assetsClaimed < n
  BY DEF IInv, TypeOK, ClaimsSane, Incomplete, IsComplete, ClaimRecord
<1>2. IsFiniteSet(0..(n - 1)) /\ Cardinality(0..(n - 1)) = n
  <2>1. 0 \in Int /\ n - 1 \in Int
    BY <1>1
  <2>2. /\ IsFiniteSet(0..(n - 1))
        /\ Cardinality(0..(n - 1)) = IF 0 > n - 1 THEN 0 ELSE (n - 1) - 0 + 1
    BY <2>1, FS_Interval, Zenon
  <2>. QED
    BY <1>1, <2>2
<1>3. PICK i \in 0..(n - 1) : i \notin c.bitmap
  <2>1. SUFFICES ASSUME 0..(n - 1) \subseteq c.bitmap PROVE FALSE
    OBVIOUS
  <2>2. Cardinality(0..(n - 1)) <= Cardinality(c.bitmap)
    BY <1>1, <2>1, FS_Subset
  <2>. QED
    BY <1>1, <1>2, <2>2
<1>4. i \in 0..(assetCount - 1)
  BY <1>1
<1>5. PICK a \in Assets : index[a] = i
  BY <1>4 DEF IInv, IndicesSane
<1>. QED
  BY <1>3, <1>4, <1>5 DEF Registered, Unregistered, Drawn

\* pending_claims, which blocks trades and exits (lib.rs:390, 559), is raised
\* only while somebody can crank the claim it waits for.
THEOREM NeverStranded == Spec => []BlockedOnlyByACrankableClaim
<1>1. IInv => BlockedOnlyByACrankableClaim
  <2> SUFFICES ASSUME IInv, pendingClaims > 0
               PROVE  \E h \in Holders :
                          /\ Incomplete(h)
                          /\ \E a \in Assets : Registered(a) /\ a \notin Drawn(h)
    BY DEF BlockedOnlyByACrankableClaim
  <2>1. pendingClaims = 1
    BY DEF IInv, PendingSane
  <2>2. PICK h \in Holders : Incomplete(h)
    BY <2>1 DEF IInv, PendingSane
  <2>. QED
    BY <2>2, IncompleteIsCrankable
<1>. QED
  BY <1>1, Inductive, PTL

\* A complete claim has drawn every mint of its burn, if none was drawn late.
LEMMA CompleteDrewAll ==
    ASSUME IInv, ~lateDraw, NEW h \in Holders, claim[h].open,
           IsComplete(claim[h])
    PROVE  AtBurn(h) \subseteq Drawn(h)
<1> DEFINE c == claim[h]
           n == c.assetCountAtBurn
<1>1. /\ n \in Nat
      /\ c.bitmap \subseteq 0..(n - 1)
      /\ IsFiniteSet(c.bitmap)
      /\ Cardinality(c.bitmap) >= n
  BY DEF IInv, TypeOK, ClaimsSane, IsComplete
<1>2. c.bitmap = 0..(n - 1)
  BY <1>1, CompleteIsFull
<1>. QED
  BY <1>2 DEF AtBurn, Drawn

CompleteClaimDrewEverything ==
    ~lateDraw =>
        \A h \in Holders :
            claim[h].open /\ IsComplete(claim[h]) => AtBurn(h) \subseteq Drawn(h)

\* "The claim is complete when every asset has been considered" (lib.rs:532),
\* so close_claim forfeits nothing, until a claim draws a late registration.
THEOREM CompleteClaimsAreFull == Spec => []CompleteClaimDrewEverything
<1>1. IInv => CompleteClaimDrewEverything
  BY CompleteDrewAll DEF CompleteClaimDrewEverything
<1>. QED
  BY <1>1, Inductive, PTL

-----------------------------------------------------------------------------
(* The terms a holder entered on. *)

\* Only initiate_withdrawal lowers the share supply.
LEMMA OnlyAnExitBurns ==
    ASSUME IInv, [Next]_vars, supply' < supply
    PROVE  \E h \in Holders : \E amount \in Nat : InitiateWithdrawal(h, amount)
<1> USE InputAssumption
<1>1. supply \in Nat
  BY DEF IInv, TypeOK
<1>2. ASSUME supply' = supply PROVE FALSE
  BY <1>1, <1>2
<1>3. ~UNCHANGED vars
  BY <1>2 DEF vars, shareVars
<1>4. ~AuthorityNext
  BY <1>2 DEF AuthorityNext, SetPlatformParams, SetPlatformTreasury,
              SetPlatformAuthority, SetListingsPaused, PlatformOnly,
              SetVaultWithdrawFee, shareVars
<1>5. ~ManagerNext
  BY <1>2 DEF ManagerNext, InitializeVault, RegisterAsset, PostNav,
              ExecuteTrade, SetPaused, SetManager, ManagerOnly, shareVars
<1>6. ~(\E t \in Treasuries : OpenShareAccount(t)) /\ ~Tick
  BY <1>2 DEF OpenShareAccount, Tick, shareVars
<1>7. PICK h \in Holders :
          \/ \E amount \in DepositAmounts : RequestDeposit(h, amount)
          \/ CancelDeposit(h)
          \/ SettleDeposit(h)
          \/ \E amount \in ShareAmounts \cup {shares[h]} :
                 InitiateWithdrawal(h, amount)
          \/ \E a \in Assets : ClaimAsset(h, a)
          \/ CloseClaim(h)
  BY <1>3, <1>4, <1>5, <1>6 DEF Next, HolderNext
<1>8. ~SettleDeposit(h)
  <2>1. SUFFICES ASSUME SettleDeposit(h) PROVE FALSE
    OBVIOUS
  <2>2. /\ supply' = supply + SharesFor(request[h])
        /\ SharesFor(request[h]) > 0
    BY <2>1 DEF SettleDeposit
  <2>3. SharesFor(request[h]) \in Nat
    BY <2>1, SharesForNat
  <2>. QED
    BY <1>1, <2>2, <2>3
<1>9. \A amount \in ShareAmounts \cup {shares[h]} : amount \in Nat
  BY DEF IInv, TypeOK
<1>. QED
  BY <1>2, <1>7, <1>8, <1>9 DEF RequestDeposit, CancelDeposit, ClaimAsset,
                                CloseClaim, shareVars

\* Leaving costs at most the fee agreed to at the last deposit (state.rs:90).
LEMMA ExitCost ==
    ASSUME IInv, [Next]_vars, supply' < supply,
           NEW g \in Holders, shares[g] - shares'[g] > 0
    PROVE  (shares[g] - shares'[g]) - (supply - supply')
               <= MulDivFloor(shares[g] - shares'[g], agreedFee[g], BPS)
<1>1. PICK h \in Holders, amount \in Nat : InitiateWithdrawal(h, amount)
  BY OnlyAnExitBurns
<1> DEFINE fee == FeeShares(h, amount)
<1>2. /\ fee \in Nat
      /\ amount - fee > 0
      /\ supply \in Nat
      /\ shares[g] \in Nat
      /\ supply' = supply - (amount - fee)
      /\ shares' = SharesLeft(h, amount, fee)
  BY <1>1, ExitAmounts DEF InitiateWithdrawal, IInv, TypeOK
<1>3. g = h /\ shares[g] - shares'[g] = amount
  <2> HIDE DEF fee
  <2>1. shares'[g] = IF g = h THEN shares[g] - amount
                     ELSE IF g = treasury THEN shares[g] + fee
                     ELSE shares[g]
    BY <1>2 DEF SharesLeft
  <2>2. CASE g = h
    BY <1>2, <2>1, <2>2
  <2>3. CASE g # h
    BY <1>2, <2>1, <2>3
  <2>. QED
    BY <2>2, <2>3
<1>4. amount - (supply - supply') = fee
  <2> HIDE DEF fee
  <2>. QED
    BY <1>2
<1>5. /\ withdrawFeeBps \in Nat /\ agreedFee[h] \in Nat
      /\ withdrawFeeBps <= agreedFee[h]
      /\ BPS \in Nat /\ BPS > 0
  <2>1. /\ withdrawFeeBps \in 0..MAX_WITHDRAW_FEE_BPS
        /\ agreedFee[h] \in 0..MAX_WITHDRAW_FEE_BPS
    BY DEF IInv, TypeOK
  <2>2. withdrawFeeBps <= agreedFee[h]
    BY DEF IInv, FeeSane
  <2>. QED
    BY <2>1, <2>2 DEF BPS, MAX_WITHDRAW_FEE_BPS
<1>6. fee <= MulDivFloor(amount, agreedFee[h], BPS)
  <2>1. MulDivFloor(amount, withdrawFeeBps, BPS)
            <= MulDivFloor(amount, agreedFee[h], BPS)
    BY <1>5, FloorMono
  <2>2. MulDivFloor(amount, agreedFee[h], BPS) \in Nat
    BY <1>5, FloorNat
  <2>3. 0 <= MulDivFloor(amount, agreedFee[h], BPS)
    BY <2>2
  <2>. QED
    BY <2>1, <2>3 DEF FeeShares
<1>. QED
  BY <1>3, <1>4, <1>6

\* Whatever the authority does to the fees between a holder's deposit and its
\* exit, what is not burned of an exit is within the fee agreed to.
THEOREM ExitsCostAsAgreed == Spec => ExitCostAsAgreed
<1> DEFINE P == \A h \in Holders :
                   LET debit == shares[h] - shares'[h]
                   IN  supply' < supply /\ debit > 0 =>
                           debit - (supply - supply')
                               <= MulDivFloor(debit, agreedFee[h], BPS)
<1>1. IInv /\ [Next]_vars => P
  BY ExitCost
<1>. QED
  BY <1>1, Inductive, PTL DEF Spec, ExitCostAsAgreed

-----------------------------------------------------------------------------
(* The price of a share. *)

\* Only settle_deposit raises the share supply.
LEMMA OnlyASettlementMints ==
    ASSUME IInv, [Next]_vars, supply' > supply
    PROVE  \E h \in Holders : SettleDeposit(h)
<1> USE InputAssumption
<1>1. supply \in Nat
  BY DEF IInv, TypeOK
<1>2. ASSUME supply' = supply PROVE FALSE
  BY <1>1, <1>2
<1>3. ~UNCHANGED vars
  BY <1>2 DEF vars, shareVars
<1>4. ~AuthorityNext
  BY <1>2 DEF AuthorityNext, SetPlatformParams, SetPlatformTreasury,
              SetPlatformAuthority, SetListingsPaused, PlatformOnly,
              SetVaultWithdrawFee, shareVars
<1>5. ~ManagerNext
  BY <1>2 DEF ManagerNext, InitializeVault, RegisterAsset, PostNav,
              ExecuteTrade, SetPaused, SetManager, ManagerOnly, shareVars
<1>6. ~(\E t \in Treasuries : OpenShareAccount(t)) /\ ~Tick
  BY <1>2 DEF OpenShareAccount, Tick, shareVars
<1>7. PICK h \in Holders :
          \/ \E amount \in DepositAmounts : RequestDeposit(h, amount)
          \/ CancelDeposit(h)
          \/ SettleDeposit(h)
          \/ \E amount \in ShareAmounts \cup {shares[h]} :
                 InitiateWithdrawal(h, amount)
          \/ \E a \in Assets : ClaimAsset(h, a)
          \/ CloseClaim(h)
  BY <1>3, <1>4, <1>5, <1>6 DEF Next, HolderNext
<1>8. ASSUME NEW amount \in ShareAmounts \cup {shares[h]},
             InitiateWithdrawal(h, amount)
      PROVE  FALSE
  <2>1. amount \in Nat
    BY DEF IInv, TypeOK
  <2>2. /\ amount - FeeShares(h, amount) \in 1..supply
        /\ supply' = supply - (amount - FeeShares(h, amount))
    BY <1>8, <2>1, ExitAmounts DEF InitiateWithdrawal
  <2> HIDE DEF FeeShares
  <2>. QED
    BY <1>1, <2>2
<1>. QED
  BY <1>2, <1>7, <1>8 DEF RequestDeposit, CancelDeposit, ClaimAsset,
                          CloseClaim, shareVars

\* A deposit leaves the posted value of a share where it was, or above.
LEMMA EntryPrice ==
    ASSUME IInv, [Next]_vars, supply > 0, supply' > supply
    PROVE  navQuote' * supply >= navQuote * supply'
<1>1. PICK h \in Holders : SettleDeposit(h)
  BY OnlyASettlementMints
<1> DEFINE r == request[h]
           minted == SharesFor(r)
<1>2. /\ r \in Nat /\ supply \in Nat /\ navQuote \in Nat
      /\ minted \in Nat
  BY <1>1, SharesForNat DEF IInv, TypeOK
<1>3. /\ navQuote > 0
      /\ navQuote' = navQuote + r
      /\ supply' = supply + minted
  BY <1>1, <1>2 DEF SettleDeposit, NavFresh
<1>4. minted = (r * supply) \div navQuote
  BY <1>2 DEF SharesFor, MulDivFloor
<1> HIDE DEF minted, r
<1>5. minted * navQuote <= r * supply
  <2>1. r * supply \in Nat
    BY <1>2
  <2>. QED
    BY <1>2, <1>3, <1>4, <2>1, DivNat
<1>6. /\ (navQuote + r) * supply = navQuote * supply + r * supply
      /\ navQuote * (supply + minted) = navQuote * supply + minted * navQuote
  BY <1>2
<1>7. /\ navQuote * supply \in Nat /\ r * supply \in Nat
      /\ minted * navQuote \in Nat
  BY <1>2
<1>. QED
  BY <1>3, <1>5, <1>6, <1>7

\* A withdrawal rounds the posted total down, by less than one unit of quote.
LEMMA ExitPrice ==
    ASSUME IInv, [Next]_vars, supply' < supply
    PROVE  /\ navQuote' * supply <= navQuote * supply'
           /\ navQuote * supply' < (navQuote' + 1) * supply
<1>1. PICK h \in Holders, amount \in Nat : InitiateWithdrawal(h, amount)
  BY OnlyAnExitBurns
<1>2. /\ supply \in Nat /\ supply > 0
      /\ supply' \in Nat
      /\ navQuote \in Nat
  <2>1. /\ supply - (amount - FeeShares(h, amount)) \in Nat
        /\ supply \in Nat /\ supply > 0
    BY <1>1, ExitAmounts
  <2>2. supply' = supply - (amount - FeeShares(h, amount))
    BY <1>1 DEF InitiateWithdrawal
  <2>. QED
    BY <2>1, <2>2 DEF IInv, TypeOK
<1>3. navQuote' = (navQuote * supply') \div supply
  BY <1>1 DEF InitiateWithdrawal, MulDivFloor
<1>4. navQuote * supply' \in Nat
  <2> DEFINE left == supply'
  <2>1. left \in Nat
    BY <1>2
  <2> HIDE DEF left
  <2>2. navQuote * left \in Nat
    BY <1>2, <2>1
  <2>. QED
    BY <2>2 DEF left
<1>5. /\ navQuote' \in Nat
      /\ navQuote' * supply <= navQuote * supply'
      /\ navQuote * supply' < navQuote' * supply + supply
  <2> DEFINE x == navQuote * supply'
  <2> HIDE DEF x
  <2>1. x \in Nat /\ navQuote' = x \div supply
    BY <1>3, <1>4 DEF x
  <2>2. /\ navQuote' \in Nat
        /\ navQuote' * supply <= x
        /\ x < navQuote' * supply + supply
    BY <1>2, <2>1, DivNat
  <2>. QED
    BY <2>2 DEF x
<1>6. (navQuote' + 1) * supply = navQuote' * supply + supply
  BY <1>2, <1>5
<1>. QED
  BY <1>5, <1>6

\* Rounding never favours whoever moves (state.rs:146): no deposit dilutes the
\* holders, and no withdrawal leaves them with a lower price than it must.
THEOREM PricesAreHonest == Spec => EntryPriceHonest
<1>1. IInv /\ [Next]_vars =>
          /\ supply > 0 /\ supply' > supply =>
                 navQuote' * supply >= navQuote * supply'
          /\ supply' < supply =>
                 /\ navQuote' * supply <= navQuote * supply'
                 /\ navQuote * supply' < (navQuote' + 1) * supply
  BY EntryPrice, ExitPrice
<1>. QED
  BY <1>1, Inductive, PTL DEF Spec, EntryPriceHonest

-----------------------------------------------------------------------------
(* What the balances add up to.  Each step changes at most two terms of a   *)
(* sum, and SumUpdate says what that does to the total.                     *)

\* A balance table is a function on the holders, so its total is their sum.
LEMMA HoldersTotal ==
    ASSUME NEW f \in [Holders -> Nat]
    PROVE  SumFunction(f) = SumFunctionOnSet(f, Holders)
  BY DEF SumFunction

\* One holder's entry changes: the total changes by as much.
LEMMA TotalUpdate ==
    ASSUME NEW f \in [Holders -> Nat], NEW g \in [Holders -> Nat],
           NEW h \in Holders, \A x \in Holders : x # h => g[x] = f[x]
    PROVE  /\ SumFunction(f) \in Nat
           /\ SumFunction(g) = SumFunction(f) + (g[h] - f[h])
<1>1. \A x \in Holders : f[x] \in Int /\ g[x] \in Int
  OBVIOUS
<1>2. SumFunctionOnSet(g, Holders)
          = SumFunctionOnSet(f, Holders) + (g[h] - f[h])
  BY <1>1, SumUpdate, HolderAssumption
<1>3. SumFunctionOnSet(f, Holders) \in Nat
  BY SumNat, HolderAssumption
<1>. QED
  BY <1>2, <1>3, HoldersTotal

\* Initially nobody has asked for, or owns, anything.
LEMMA InitBacked == Init => PendingBacked /\ SupplyBacked
<1> SUFFICES ASSUME Init PROVE PendingBacked /\ SupplyBacked
  OBVIOUS
<1>1. /\ request \in [Holders -> Nat] /\ \A h \in Holders : request[h] = 0
      /\ shares \in [Holders -> Nat] /\ \A h \in Holders : shares[h] = 0
      /\ pendingQuote = 0 /\ bucketTraded = 0 /\ supply = 0
  BY DEF Init
<1>2. /\ SumFunctionOnSet(request, Holders) = 0
      /\ SumFunctionOnSet(shares, Holders) = 0
  BY <1>1, SumZero, HolderAssumption
<1>. QED
  BY <1>1, <1>2, HoldersTotal DEF PendingBacked, SupplyBacked

\* Only the deposit instructions touch the requests, and only they and trades
\* the bucket.
LEMMA PendingStep ==
    ASSUME IInv, PendingBacked, [Next]_vars
    PROVE  PendingBacked'
<1> USE InputAssumption
<1>0. request \in [Holders -> Nat]
  BY DEF IInv, TypeOK
<1>1. /\ request \in [Holders -> Nat] /\ SumFunction(request) \in Nat
      /\ pendingQuote \in Nat /\ bucketTraded \in Int
  <2>1. SumFunction(request) = SumFunctionOnSet(request, Holders)
    BY <1>0, HoldersTotal
  <2>2. SumFunctionOnSet(request, Holders) \in Nat
    BY <1>0, SumNat, HolderAssumption
  <2>. QED BY <1>0, <2>1, <2>2 DEF IInv, TypeOK
<1>2. ASSUME UNCHANGED <<pendingQuote, request, bucketTraded>> PROVE PendingBacked'
  BY <1>2 DEF PendingBacked
<1>3. CASE UNCHANGED vars
  BY <1>2, <1>3 DEF vars, quoteVars, historyVars
<1>4. CASE AuthorityNext
  BY <1>2, <1>4 DEF AuthorityNext, SetPlatformParams, SetPlatformTreasury,
     SetPlatformAuthority, SetListingsPaused, PlatformOnly,
     SetVaultWithdrawFee, quoteVars, historyVars
<1>5. CASE ManagerNext
  <2>1. ASSUME NEW m \in Managers, NEW a \in VaultAccounts, NEW b \in VaultAccounts,
               NEW fill \in Fills, NEW limit \in Fills, ExecuteTrade(m, a, b, fill, limit)
        PROVE  PendingBacked'
    <3>1. pendingQuote' \in Nat
      BY <2>1, RouteLeaves DEF IInv
    <3>2. bucketTraded' = bucketTraded + pendingQuote' - pendingQuote /\ UNCHANGED request
      BY <2>1 DEF ExecuteTrade
    <3>. QED BY <1>1, <3>1, <3>2 DEF PendingBacked
  <2>. QED
    BY <1>2, <1>5, <2>1 DEF ManagerNext, InitializeVault, RegisterAsset, PostNav,
       SetPaused, SetManager, ManagerOnly, quoteVars, historyVars
<1>6. CASE (\E t \in Treasuries : OpenShareAccount(t)) \/ Tick
  BY <1>2, <1>6 DEF OpenShareAccount, Tick, quoteVars, historyVars
<1>7. ASSUME NEW h \in Holders, NEW amount \in DepositAmounts,
             RequestDeposit(h, amount)
      PROVE  PendingBacked'
  <2>1. /\ amount \in Nat
        /\ request[h] = 0
        /\ pendingQuote' = pendingQuote + amount
        /\ request' = [request EXCEPT ![h] = amount]
        /\ UNCHANGED bucketTraded
    BY <1>7 DEF RequestDeposit, RequestDepositAccounts, historyVars
  <2>2. /\ request' \in [Holders -> Nat]
        /\ request'[h] = amount
        /\ \A x \in Holders : x # h => request'[x] = request[x]
    BY <1>1, <2>1
  <2>3. SumFunction(request') = SumFunction(request) + (amount - 0)
    BY <1>1, <2>1, <2>2, TotalUpdate
  <2>. QED
    BY <1>1, <2>1, <2>3 DEF PendingBacked
<1>8. ASSUME NEW h \in Holders, CancelDeposit(h) \/ SettleDeposit(h)
      PROVE  PendingBacked'
  <2>1. /\ pendingQuote' = pendingQuote - request[h]
        /\ request' = [request EXCEPT ![h] = 0]
        /\ UNCHANGED bucketTraded
    BY <1>8 DEF CancelDeposit, SettleDeposit, SettleDepositAccounts,
                CloseRequest, historyVars
  <2>2. /\ request' \in [Holders -> Nat]
        /\ request'[h] = 0
        /\ \A x \in Holders : x # h => request'[x] = request[x]
    BY <1>1, <2>1
  <2>3. SumFunction(request') = SumFunction(request) + (0 - request[h])
    BY <1>1, <2>2, TotalUpdate
  <2>. QED
    BY <1>1, <2>1, <2>3 DEF PendingBacked
<1>9. ASSUME NEW h \in Holders,
             \/ \E amount \in ShareAmounts \cup {shares[h]} :
                    InitiateWithdrawal(h, amount)
             \/ \E a \in Assets : ClaimAsset(h, a)
             \/ CloseClaim(h)
      PROVE  PendingBacked'
  BY <1>2, <1>9 DEF InitiateWithdrawal, ClaimAsset, CloseClaim, quoteVars, historyVars
<1>. QED
  BY <1>3, <1>4, <1>5, <1>6, <1>7, <1>8, <1>9 DEF Next, HolderNext

\* An exit debits its owner and credits the treasury: together, the burn.
LEMMA ExitTotal ==
    ASSUME IInv, NEW h \in Holders, NEW amount \in Nat,
           InitiateWithdrawal(h, amount)
    PROVE  SumFunction(shares') - SumFunction(shares) = supply' - supply
<1> DEFINE fee == FeeShares(h, amount)
           less == [shares EXCEPT ![h] = @ - amount]
<1>1. /\ fee \in Nat
      /\ shares[h] - amount \in Nat
      /\ supply' = supply - (amount - fee)
      /\ shares' = SharesLeft(h, amount, fee)
      /\ supply \in Nat
  BY ExitAmounts DEF InitiateWithdrawal
<1>2. /\ shares \in [Holders -> Nat]
      /\ treasury \in Holders
      /\ shares[h] \in Nat
  BY HolderAssumption DEF IInv, TypeOK
<1>3. h = treasury => fee = 0
  BY DEF FeeShares
<1> HIDE DEF fee
<1>4. /\ less \in [Holders -> Nat]
      /\ less[h] = shares[h] - amount
      /\ \A x \in Holders : x # h => less[x] = shares[x]
  BY <1>1, <1>2
<1>5. /\ SumFunction(shares) \in Nat
      /\ SumFunction(less) = SumFunction(shares) - amount
  <2> HIDE DEF less
  <2>1. /\ SumFunction(shares) \in Nat
        /\ SumFunction(less) = SumFunction(shares) + (less[h] - shares[h])
    BY <1>2, <1>4, TotalUpdate
  <2>. QED
    BY <1>2, <1>4, <2>1
<1>6. CASE h = treasury
  <2>1. shares' = less
    BY <1>1, <1>2, <1>6 DEF SharesLeft
  <2>2. SumFunction(shares') = SumFunction(shares) - amount
    BY <1>5, <2>1
  <2> HIDE DEF less
  <2>. QED
    BY <1>1, <1>3, <1>5, <1>6, <2>2
<1>7. CASE h # treasury
  <2>1. /\ shares' \in [Holders -> Nat]
        /\ shares'[treasury] = less[treasury] + fee
        /\ \A x \in Holders : x # treasury => shares'[x] = less[x]
    BY <1>1, <1>2, <1>7 DEF SharesLeft
  <2>2. less[treasury] \in Nat
    BY <1>2, <1>4
  <2> HIDE DEF less
  <2>3. SumFunction(shares')
            = SumFunction(less) + (shares'[treasury] - less[treasury])
    BY <1>2, <1>4, <2>1, TotalUpdate
  <2>. QED
    BY <1>1, <1>5, <2>1, <2>2, <2>3
<1>. QED
  BY <1>6, <1>7

\* Only a settlement and an exit touch the shares or their supply.
LEMMA SupplyStep ==
    ASSUME IInv, SupplyBacked, [Next]_vars
    PROVE  SupplyBacked'
<1> USE InputAssumption
<1>1. shares \in [Holders -> Nat] /\ supply \in Nat
  BY DEF IInv, TypeOK
<1>2. ASSUME UNCHANGED <<supply, shares>> PROVE SupplyBacked'
  BY <1>2 DEF SupplyBacked
<1>3. CASE UNCHANGED vars
  BY <1>2, <1>3 DEF vars, shareVars
<1>4. CASE AuthorityNext
  BY <1>2, <1>4 DEF AuthorityNext, SetPlatformParams, SetPlatformTreasury,
     SetPlatformAuthority, SetListingsPaused, PlatformOnly,
     SetVaultWithdrawFee, shareVars
<1>5. CASE ManagerNext
  BY <1>2, <1>5 DEF ManagerNext, InitializeVault, RegisterAsset, PostNav,
     ExecuteTrade, SetPaused, SetManager, ManagerOnly, shareVars
<1>6. CASE (\E t \in Treasuries : OpenShareAccount(t)) \/ Tick
  BY <1>2, <1>6 DEF OpenShareAccount, Tick, shareVars
<1>7. ASSUME NEW h \in Holders, SettleDeposit(h)
      PROVE  SupplyBacked'
  <2> DEFINE minted == SharesFor(request[h])
  <2>1. minted \in Nat
    BY <1>7, SharesForNat
  <2>2. /\ supply' = supply + minted
        /\ shares' = [shares EXCEPT ![h] = shares[h] + minted]
    BY <1>7 DEF SettleDeposit
  <2> HIDE DEF minted
  <2>3. /\ shares[h] \in Nat
        /\ shares' \in [Holders -> Nat]
        /\ shares'[h] = shares[h] + minted
        /\ \A x \in Holders : x # h => shares'[x] = shares[x]
    BY <1>1, <2>1, <2>2
  <2>4. SumFunction(shares') = SumFunction(shares) + (shares'[h] - shares[h])
    BY <1>1, <2>3, TotalUpdate
  <2>. QED
    BY <1>1, <2>1, <2>2, <2>3, <2>4 DEF SupplyBacked
<1>8. ASSUME NEW h \in Holders, NEW amount \in ShareAmounts \cup {shares[h]},
             InitiateWithdrawal(h, amount)
      PROVE  SupplyBacked'
  <2>1. amount \in Nat
    BY <1>1
  <2>2. SumFunction(shares') - SumFunction(shares) = supply' - supply
    BY <1>8, <2>1, ExitTotal
  <2>3. SumFunction(shares) \in Nat /\ SumFunction(shares') \in Nat
    <3>1. shares' \in [Holders -> Nat]
      BY <1>8, <2>1, InitiateWithdrawalIInv DEF IInv, TypeOK
    <3>. QED
      BY <1>1, <3>1, SumNat, HoldersTotal, HolderAssumption
  <2>4. supply' \in Nat
    BY <1>8, <2>1, InitiateWithdrawalIInv DEF IInv, TypeOK
  <2>. QED
    BY <1>1, <2>2, <2>3, <2>4 DEF SupplyBacked
<1>9. ASSUME NEW h \in Holders,
             \/ \E amount \in DepositAmounts : RequestDeposit(h, amount)
             \/ CancelDeposit(h)
             \/ \E a \in Assets : ClaimAsset(h, a)
             \/ CloseClaim(h)
      PROVE  SupplyBacked'
  BY <1>2, <1>9 DEF RequestDeposit, CancelDeposit, ClaimAsset, CloseClaim,
                    shareVars
<1>. QED
  BY <1>3, <1>4, <1>5, <1>6, <1>7, <1>8, <1>9 DEF Next, HolderNext

\* The pending bucket holds what the open requests asked for, and what trades
\* that named it brought, less what they took, for any finite set of holders and
\* whatever the routes do: nothing but such a trade leaves a request short.
THEOREM RequestsAreBacked == Spec => []PendingBacked
<1>1. IInv /\ PendingBacked /\ [Next]_vars => PendingBacked'
  BY PendingStep
<1>. QED
  BY <1>1, InitBacked, Inductive, PTL DEF Spec

\* The share supply is the sum of the balances, whatever exits, fees and
\* changes of treasury did in between.
THEOREM SharesAreBacked == Spec => []SupplyBacked
<1>1. IInv /\ SupplyBacked /\ [Next]_vars => SupplyBacked'
  BY SupplyStep
<1>. QED
  BY <1>1, InitBacked, Inductive, PTL DEF Spec

-----------------------------------------------------------------------------
(* What a claim pays.  A draw happens some steps after the burn it serves;  *)
(* the invariant follows the balance of every mint still to be drawn.       *)

\* Two mints never share an index, so a bit of a claim stands for one mint.
OneMintPerIndex ==
    \A a, b \in Assets : Registered(a) /\ index[a] = index[b] => a = b

\* A holder without a claim has no asset to draw.
ClosedIsEmpty ==
    \A h \in Holders : ~claim[h].open => claim[h].assetCountAtBurn = 0

\* A mint is drawn for at least its fraction, or is still there in full.
DrawSane(h, a) ==
    IF a \in Drawn(h)
    THEN paid[h][a] >= MulDivFloor(burnBook[h][a], claim[h].sharesBurned,
                                   claim[h].totalAtBurn)
    ELSE book[a] >= burnBook[h][a]

DrawsSane == ~lateDraw => \A h \in Holders : \A a \in AtBurn(h) : DrawSane(h, a)

PayInv == OneMintPerIndex /\ ClosedIsEmpty /\ DrawsSane

\* No claim is open before the listing, and nothing is due then.
LEMMA InitPayInv == Init => PayInv
  BY DEF Init, PayInv, OneMintPerIndex, Registered, ClosedIsEmpty, NoClaim,
         DrawsSane, AtBurn

\* While pending_claims is down nothing is left to draw of any burn.
LEMMA NothingLeftToDraw ==
    ASSUME IInv, ClosedIsEmpty, ~lateDraw, pendingClaims = 0,
           NEW h \in Holders, NEW a \in AtBurn(h)
    PROVE  a \in Drawn(h)
<1>1. claim[h].open
  <2>1. SUFFICES ASSUME claim[h].assetCountAtBurn = 0 PROVE FALSE
    BY DEF ClosedIsEmpty
  <2>. QED
    BY <2>1 DEF AtBurn
<1>2. ~Incomplete(h)
  BY DEF IInv, SerialClaims
<1>. QED
  BY <1>1, <1>2, CompleteDrewAll DEF Incomplete

\* Steps that touch no claim and no index, and take nothing from the book.
LEMMA FramePayInv ==
    ASSUME IInv, PayInv,
           UNCHANGED <<index, claim, lateDraw, paid, burnBook>>,
           book' \in [Assets -> Nat],
           \A a \in Assets : book'[a] >= book[a]
    PROVE  PayInv'
<1>1. OneMintPerIndex' /\ ClosedIsEmpty'
  BY DEF PayInv, OneMintPerIndex, ClosedIsEmpty, Registered
<1>2. ASSUME ~lateDraw', NEW h \in Holders, NEW a \in AtBurn(h)'
      PROVE  DrawSane(h, a)'
  <2>1. a \in Assets /\ a \in AtBurn(h) /\ DrawSane(h, a)
    BY <1>2 DEF PayInv, DrawsSane, AtBurn
  <2>2. /\ book[a] \in Nat /\ burnBook[h][a] \in Nat
        /\ book'[a] \in Nat /\ book'[a] >= book[a]
    BY <2>1 DEF IInv, TypeOK
  <2>3. a \in Drawn(h)' <=> a \in Drawn(h)
    BY DEF Drawn
  <2>. QED
    BY <2>1, <2>2, <2>3 DEF DrawSane
<1>. QED
  BY <1>1, <1>2 DEF PayInv, DrawsSane

\* A trade moves the book only while nothing is left to draw (lib.rs:559).
LEMMA TradePayInv ==
    ASSUME IInv, PayInv, pendingClaims = 0,
           UNCHANGED <<index, claim, lateDraw, paid, burnBook>>
    PROVE  PayInv'
<1>1. OneMintPerIndex' /\ ClosedIsEmpty'
  BY DEF PayInv, OneMintPerIndex, ClosedIsEmpty, Registered
<1>2. ASSUME ~lateDraw', NEW h \in Holders, NEW a \in AtBurn(h)'
      PROVE  DrawSane(h, a)'
  <2>1. a \in AtBurn(h) /\ DrawSane(h, a)
    BY <1>2 DEF PayInv, DrawsSane, AtBurn
  <2>2. a \in Drawn(h)
    BY <1>2, <2>1, NothingLeftToDraw DEF PayInv
  <2>3. a \in Drawn(h)'
    BY <2>2 DEF Drawn
  <2>. QED
    BY <2>1, <2>2, <2>3 DEF DrawSane
<1>. QED
  BY <1>1, <1>2 DEF PayInv, DrawsSane

\* A new index is beyond the burn of every open claim, and in no bitmap.
LEMMA NewIndexPayInv ==
    ASSUME IInv, PayInv, NEW a \in Assets, index[a] = Unregistered,
           index' = [index EXCEPT ![a] = assetCount],
           UNCHANGED <<claim, lateDraw, paid, burnBook, book>>
    PROVE  PayInv'
<1>1. /\ index \in [Assets -> Nat \cup {Unregistered}]
      /\ assetCount \in Nat
      /\ \A b \in Assets : b # a => index'[b] = index[b]
      /\ index'[a] = assetCount
  BY DEF IInv, TypeOK
<1>2. \A b \in Assets : index[b] # assetCount
  BY <1>1 DEF IInv, IndicesSane, Registered, Unregistered
<1>3. OneMintPerIndex' /\ ClosedIsEmpty'
  BY <1>1, <1>2 DEF PayInv, OneMintPerIndex, ClosedIsEmpty, Registered
<1>4. ASSUME ~lateDraw', NEW h \in Holders, NEW b \in AtBurn(h)'
      PROVE  DrawSane(h, b)'
  <2>1. b \in Assets /\ index'[b] \in 0..(claim[h].assetCountAtBurn - 1)
    BY DEF AtBurn
  <2>2. claim[h].assetCountAtBurn \in 0..assetCount
    <3>1. CASE claim[h].open
      BY <1>1, <3>1 DEF IInv, ClaimsSane
    <3>2. CASE ~claim[h].open
      BY <1>1, <3>2 DEF PayInv, ClosedIsEmpty
    <3>. QED BY <3>1, <3>2
  <2>3. b # a
    BY <1>1, <2>1, <2>2
  <2>4. b \in AtBurn(h) /\ DrawSane(h, b)
    BY <1>1, <1>4, <2>1, <2>3 DEF PayInv, DrawsSane, AtBurn
  <2>5. b \in Drawn(h)' <=> b \in Drawn(h)
    BY <1>1, <2>1, <2>3 DEF Drawn
  <2>. QED
    BY <2>4, <2>5 DEF DrawSane
<1>. QED
  BY <1>3, <1>4 DEF PayInv, DrawsSane

\* A burn remembers the book it found, of which it has drawn nothing.
LEMMA BurnPayInv ==
    ASSUME IInv, PayInv, NEW h \in Holders, NEW amount \in Nat,
           InitiateWithdrawal(h, amount)
    PROVE  PayInv'
<1>1. /\ UNCHANGED <<index, lateDraw, book>>
      /\ \A g \in Holders : g # h => /\ claim'[g] = claim[g]
                                     /\ burnBook'[g] = burnBook[g]
                                     /\ paid'[g] = paid[g]
      /\ claim'[h].open /\ claim'[h].bitmap = {}
      /\ burnBook'[h] = book
  BY DEF InitiateWithdrawal, IInv, TypeOK
<1>2. OneMintPerIndex' /\ ClosedIsEmpty'
  BY <1>1 DEF PayInv, OneMintPerIndex, ClosedIsEmpty, Registered
<1>3. ASSUME ~lateDraw', NEW g \in Holders, NEW a \in AtBurn(g)'
      PROVE  DrawSane(g, a)'
  <2>1. a \in Assets
    BY DEF AtBurn
  <2>2. CASE g = h
    <3>1. a \notin Drawn(g)'
      BY <1>1, <2>2 DEF Drawn
    <3>2. book'[a] >= burnBook'[g][a]
      BY <1>1, <2>1, <2>2 DEF IInv, TypeOK
    <3>. QED
      BY <3>1, <3>2 DEF DrawSane
  <2>3. CASE g # h
    <3>1. a \in AtBurn(g) /\ DrawSane(g, a)
      BY <1>1, <1>3, <2>3 DEF PayInv, DrawsSane, AtBurn
    <3>2. a \in Drawn(g)' <=> a \in Drawn(g)
      BY <1>1, <2>3 DEF Drawn
    <3>. QED
      BY <1>1, <2>3, <3>1, <3>2 DEF DrawSane
  <2>. QED BY <2>2, <2>3
<1>. QED
  BY <1>2, <1>3 DEF PayInv, DrawsSane

\* A draw pays its fraction of a balance that is at least the one at the burn,
\* and no other open claim has anything left to draw.
LEMMA DrawPayInv ==
    ASSUME IInv, PayInv, NEW h \in Holders, NEW a \in Assets, ClaimAsset(h, a)
    PROVE  PayInv'
<1> DEFINE c == claim[h]
           amount == MulDivFloor(book[a], c.sharesBurned, c.totalAtBurn)
<1>1. /\ UNCHANGED <<index, burnBook>>
      /\ c.open /\ Registered(a) /\ index[a] \notin c.bitmap
      /\ \A g \in Holders : g # h => /\ claim'[g] = claim[g]
                                     /\ paid'[g] = paid[g]
      /\ \A b \in Assets : b # a => /\ paid'[h][b] = paid[h][b]
                                    /\ book'[b] = book[b]
      /\ paid'[h][a] = amount
      /\ lateDraw' = (lateDraw \/ index[a] >= c.assetCountAtBurn)
      /\ claim'[h].bitmap = c.bitmap \cup {index[a]}
      /\ claim'[h].open
      /\ claim'[h].assetCountAtBurn = c.assetCountAtBurn
      /\ claim'[h].sharesBurned = c.sharesBurned
      /\ claim'[h].totalAtBurn = c.totalAtBurn
  <2>1. c \in ClaimRecord
    BY DEF IInv, TypeOK
  <2>2. claim' = [claim EXCEPT ![h] = MarkClaimed(c, index[a])]
    BY DEF ClaimAsset
  <2>3. /\ claim'[h] = [c EXCEPT !.bitmap = c.bitmap \cup {index[a]},
                                 !.assetsClaimed = c.assetsClaimed + 1]
        /\ \A g \in Holders : g # h => claim'[g] = claim[g]
    BY <2>2 DEF IInv, TypeOK, MarkClaimed
  <2>4. /\ claim'[h].bitmap = c.bitmap \cup {index[a]}
        /\ claim'[h].open = c.open
        /\ claim'[h].assetCountAtBurn = c.assetCountAtBurn
        /\ claim'[h].sharesBurned = c.sharesBurned
        /\ claim'[h].totalAtBurn = c.totalAtBurn
    BY <2>1, <2>3 DEF ClaimRecord
  <2>5. /\ paid' = [paid EXCEPT ![h] = [paid[h] EXCEPT ![a] = amount]]
        /\ book' = [book EXCEPT ![a] = book[a] - amount]
    BY DEF ClaimAsset
  <2>6. /\ \A g \in Holders : g # h => paid'[g] = paid[g]
        /\ \A b \in Assets : b # a => /\ paid'[h][b] = paid[h][b]
                                      /\ book'[b] = book[b]
        /\ paid'[h][a] = amount
    BY <2>5 DEF IInv, TypeOK
  <2>7. /\ UNCHANGED <<index, burnBook>>
        /\ c.open /\ Registered(a) /\ index[a] \notin c.bitmap
        /\ lateDraw' = (lateDraw \/ index[a] >= c.assetCountAtBurn)
    BY DEF ClaimAsset, ClaimAssetAccounts
  <2>. QED
    BY <2>3, <2>4, <2>6, <2>7
<1>2. OneMintPerIndex' /\ ClosedIsEmpty'
  BY <1>1 DEF PayInv, OneMintPerIndex, ClosedIsEmpty, Registered
<1> HIDE DEF amount
<1>3. ASSUME ~lateDraw', NEW g \in Holders, NEW b \in AtBurn(g)'
      PROVE  DrawSane(g, b)'
  <2>1. /\ ~lateDraw
        /\ index[a] \in 0..(c.assetCountAtBurn - 1)
    <3>1. ~lateDraw /\ ~(index[a] >= c.assetCountAtBurn)
      BY <1>1, <1>3
    <3>2. /\ index[a] \in Nat
          /\ c.assetCountAtBurn \in Nat
      BY <1>1 DEF IInv, TypeOK, ClaimRecord, Registered
    <3>. QED BY <3>1, <3>2
  <2>2. b \in Assets /\ b \in AtBurn(g) /\ DrawSane(g, b)
    <3>1. b \in AtBurn(g) /\ b \in Assets
      BY <1>1 DEF AtBurn
    <3>. QED BY <2>1, <3>1 DEF PayInv, DrawsSane
  <2>3. a \in AtBurn(h) /\ a \notin Drawn(h) /\ DrawSane(h, a)
    BY <1>1, <2>1 DEF PayInv, DrawsSane, AtBurn, Drawn
  <2>4. CASE g # h
    <3>1. b \in Drawn(g)' <=> b \in Drawn(g)
      BY <1>1, <2>4 DEF Drawn
    <3>2. b \in Drawn(g)
      <4>1. Incomplete(h)
        BY <1>1, <2>1, <2>3, CompleteDrewAll DEF Incomplete
      <4>2. ~Incomplete(g)
        BY <2>1, <2>4, <4>1 DEF IInv, SerialClaims
      <4>3. claim[g].open
        <5>1. SUFFICES ASSUME claim[g].assetCountAtBurn = 0 PROVE FALSE
          BY DEF PayInv, ClosedIsEmpty
        <5>. QED BY <2>2, <5>1 DEF AtBurn
      <4>. QED
        BY <2>1, <2>2, <4>2, <4>3, CompleteDrewAll DEF Incomplete
    <3>. QED
      BY <1>1, <2>2, <2>4, <3>1, <3>2 DEF DrawSane
  <2>5. CASE g = h /\ b # a
    <3>1. index[b] # index[a]
      BY <1>1, <2>2, <2>5 DEF PayInv, OneMintPerIndex
    <3>2. b \in Drawn(g)' <=> b \in Drawn(g)
      BY <1>1, <2>5, <3>1 DEF Drawn
    <3>. QED
      BY <1>1, <2>2, <2>5, <3>2 DEF DrawSane
  <2>6. CASE g = h /\ b = a
    <3>1. b \in Drawn(g)'
      BY <1>1, <2>6 DEF Drawn
    <3>2. book[a] >= burnBook[h][a]
      BY <2>3 DEF DrawSane
    <3>3. /\ book[a] \in Nat /\ burnBook[h][a] \in Nat
          /\ c.sharesBurned \in Nat /\ c.totalAtBurn \in Nat
          /\ c.totalAtBurn > 0
      BY <1>1 DEF IInv, TypeOK, ClaimRecord, ClaimsSane
    <3>4. amount >= MulDivFloor(burnBook[h][a], c.sharesBurned, c.totalAtBurn)
      BY <3>2, <3>3, FloorMonoBase DEF amount
    <3>. QED
      BY <1>1, <2>6, <3>1, <3>4 DEF DrawSane
  <2>. QED BY <2>4, <2>5, <2>6
<1>. QED
  BY <1>2, <1>3 DEF PayInv, DrawsSane

\* Closing a claim leaves its holder with nothing to draw.
LEMMA ClosePayInv ==
    ASSUME IInv, PayInv, NEW h \in Holders, CloseClaim(h)
    PROVE  PayInv'
<1>1. /\ UNCHANGED <<index, lateDraw, book>>
      /\ claim'[h] = NoClaim
      /\ \A g \in Holders : g # h => /\ claim'[g] = claim[g]
                                     /\ burnBook'[g] = burnBook[g]
                                     /\ paid'[g] = paid[g]
  BY DEF CloseClaim, IInv, TypeOK, vaultVars
<1>2. OneMintPerIndex' /\ ClosedIsEmpty'
  BY <1>1 DEF PayInv, OneMintPerIndex, ClosedIsEmpty, Registered, NoClaim
<1>3. ASSUME ~lateDraw', NEW g \in Holders, NEW a \in AtBurn(g)'
      PROVE  DrawSane(g, a)'
  <2>1. g # h
    BY <1>1 DEF AtBurn, NoClaim
  <2>2. a \in AtBurn(g) /\ DrawSane(g, a)
    BY <1>1, <1>3, <2>1 DEF PayInv, DrawsSane, AtBurn
  <2>3. a \in Drawn(g)' <=> a \in Drawn(g)
    BY <1>1, <2>1 DEF Drawn
  <2>. QED
    BY <1>1, <2>1, <2>2, <2>3 DEF DrawSane
<1>. QED
  BY <1>2, <1>3 DEF PayInv, DrawsSane

\* The pay invariant is inductive, beside the one of the claims.
LEMMA NextPayInv == IInv /\ PayInv /\ [Next]_vars => PayInv'
<1> SUFFICES ASSUME IInv, PayInv, [Next]_vars PROVE PayInv'
  OBVIOUS
<1> USE InputAssumption
<1>1. /\ book \in [Assets -> Nat]
      /\ \A a \in Assets : book[a] >= book[a]
  BY DEF IInv, TypeOK
<1>2. ASSUME UNCHANGED <<index, claim, lateDraw, paid, burnBook, book>>
      PROVE  PayInv'
  BY <1>1, <1>2, FramePayInv
<1>3. CASE UNCHANGED vars
  BY <1>2, <1>3 DEF vars, historyVars
<1>4. CASE AuthorityNext
  BY <1>2, <1>4 DEF AuthorityNext, SetPlatformParams, SetPlatformTreasury,
     SetPlatformAuthority, SetListingsPaused, PlatformOnly,
     SetVaultWithdrawFee, historyVars
<1>5. CASE (\E t \in Treasuries : OpenShareAccount(t)) \/ Tick
  BY <1>2, <1>5 DEF OpenShareAccount, Tick, historyVars
<1>6. CASE ManagerNext
  <2>1. PICK m \in Managers :
            \/ \E f \in ListingFees : InitializeVault(m, f)
            \/ \E a \in Assets : RegisterAsset(m, a)
            \/ \E nav \in NavChoices : PostNav(m, nav)
            \/ \E a, b \in VaultAccounts, fill, limit \in Fills :
                   ExecuteTrade(m, a, b, fill, limit)
            \/ \E p \in PauseChoices : SetPaused(m, p)
            \/ \E new \in Managers : SetManager(m, new)
    BY <1>6 DEF ManagerNext
  <2>2. ASSUME NEW f \in ListingFees, InitializeVault(m, f) PROVE PayInv'
    <3>1. assetCount = 0
      BY <2>2 DEF IInv, TypeOK, ListingSane, InitializeVault,
                  InitializeVaultAccounts
    <3>2. index[Quote] = Unregistered
      BY <3>1, HolderAssumption DEF IInv, TypeOK, IndicesSane, Registered
    <3>3. /\ index' = [index EXCEPT ![Quote] = assetCount]
          /\ UNCHANGED <<claim, lateDraw, paid, burnBook, book>>
      BY <2>2, <3>1 DEF InitializeVault, historyVars
    <3>. QED
      BY <3>2, <3>3, NewIndexPayInv, HolderAssumption
  <2>3. ASSUME NEW a \in Assets, RegisterAsset(m, a) PROVE PayInv'
    <3>1. /\ index[a] = Unregistered
          /\ index' = [index EXCEPT ![a] = assetCount]
          /\ UNCHANGED <<claim, lateDraw, paid, burnBook, book>>
      BY <2>3 DEF RegisterAsset, RegisterAssetAccounts, Registered, historyVars
    <3>. QED
      BY <3>1, NewIndexPayInv
  <2>4. ASSUME NEW a \in VaultAccounts, NEW b \in VaultAccounts, NEW fill \in Fills,
               NEW limit \in Fills, ExecuteTrade(m, a, b, fill, limit)
        PROVE  PayInv'
    <3>1. /\ pendingClaims = 0
          /\ UNCHANGED <<index, claim, lateDraw, paid, burnBook>>
      BY <2>4 DEF ExecuteTrade, MayTrade, NoClaimsOpen
    <3>. QED
      BY <3>1, TradePayInv
  <2>5. ASSUME \/ \E nav \in NavChoices : PostNav(m, nav)
               \/ \E p \in PauseChoices : SetPaused(m, p)
               \/ \E new \in Managers : SetManager(m, new)
        PROVE  PayInv'
    BY <1>2, <2>5 DEF PostNav, SetPaused, SetManager, ManagerOnly, historyVars
  <2>. QED
    BY <2>1, <2>2, <2>3, <2>4, <2>5
<1>7. ASSUME NEW h \in Holders, SettleDeposit(h) PROVE PayInv'
  <2>1. /\ request[h] \in Nat
        /\ book' = [book EXCEPT ![Quote] = book[Quote] + request[h]]
        /\ UNCHANGED <<index, claim, lateDraw, paid, burnBook>>
    BY <1>7 DEF SettleDeposit, IInv, TypeOK
  <2>2. book' \in [Assets -> Nat] /\ \A a \in Assets : book'[a] >= book[a]
    BY <1>1, <2>1, HolderAssumption
  <2>. QED
    BY <2>1, <2>2, FramePayInv
<1>8. ASSUME NEW h \in Holders, NEW amount \in ShareAmounts \cup {shares[h]},
             InitiateWithdrawal(h, amount)
      PROVE  PayInv'
  <2>1. amount \in Nat
    BY DEF IInv, TypeOK
  <2>. QED
    BY <1>8, <2>1, BurnPayInv
<1>9. ASSUME NEW h \in Holders,
             \/ \E amount \in DepositAmounts : RequestDeposit(h, amount)
             \/ CancelDeposit(h)
      PROVE  PayInv'
  BY <1>2, <1>9 DEF RequestDeposit, CancelDeposit, historyVars
<1>. QED
  BY <1>3, <1>4, <1>5, <1>6, <1>7, <1>8, <1>9, DrawPayInv, ClosePayInv
  DEF Next, HolderNext

\* A claimant is never worse off for drawing late (lib.rs:506): whatever is
\* deposited, traded or drawn between its burn and a draw, it receives at least
\* its fraction of the balance at the burn, until something is drawn late.
THEOREM ClaimantsAreNotShortPaid == Spec => []ClaimantNeverShortPaid
<1>1. PayInv => ClaimantNeverShortPaid
  BY DEF PayInv, DrawsSane, DrawSane, ClaimantNeverShortPaid
<1>. QED
  BY <1>1, InitPayInv, NextPayInv, Inductive, PTL DEF Spec

-----------------------------------------------------------------------------
(* The vault implements VaultPromise.  Most steps leave what it speaks of   *)
(* alone; once a mint was drawn late it says nothing any more.              *)

\* No step unmakes a late draw.
LEMMA LateStaysLate == [Next]_vars /\ lateDraw => lateDraw'
<1> SUFFICES ASSUME [Next]_vars PROVE lateDraw => lateDraw'
  OBVIOUS
<1>1. CASE UNCHANGED vars
  BY <1>1 DEF vars, historyVars
<1>2. CASE AuthorityNext
  BY <1>2 DEF AuthorityNext, SetPlatformParams, SetPlatformTreasury, SetPlatformAuthority,
     SetListingsPaused, PlatformOnly, SetVaultWithdrawFee, historyVars
<1>3. CASE ManagerNext
  <2>1. lateDraw' = lateDraw
    BY <1>3 DEF ManagerNext, InitializeVault, RegisterAsset, PostNav, ExecuteTrade, SetPaused,
       SetManager, ManagerOnly, historyVars
  <2>. QED BY <2>1
<1>4. CASE (\E t \in Treasuries : OpenShareAccount(t)) \/ Tick
  BY <1>4 DEF OpenShareAccount, Tick, historyVars
<1>5. ASSUME NEW h \in Holders, NEW a \in Assets, ClaimAsset(h, a)
      PROVE  lateDraw => lateDraw'
  BY <1>5 DEF ClaimAsset
<1>6. ASSUME NEW h \in Holders,
             \/ \E amount \in DepositAmounts : RequestDeposit(h, amount)
             \/ CancelDeposit(h)
             \/ SettleDeposit(h)
             \/ \E amount \in ShareAmounts \cup {shares[h]} : InitiateWithdrawal(h, amount)
             \/ CloseClaim(h)
      PROVE  lateDraw => lateDraw'
  <2>1. lateDraw' = lateDraw
    BY <1>6 DEF RequestDeposit, CancelDeposit, SettleDeposit, InitiateWithdrawal, CloseClaim,
       historyVars
  <2>. QED BY <2>1
<1>. QED
  BY <1>1, <1>2, <1>3, <1>4, <1>5, <1>6 DEF Next, HolderNext

\* At first nothing is on offer and nobody is owed anything.
LEMMA PromiseStarts == Init => Promise!Init
<1> SUFFICES ASSUME Init PROVE Promise!Init
  OBVIOUS
<1>1. \A h \in Holders : AtBurn(h) = {}
  BY DEF Init, AtBurn, NoClaim, Unregistered
<1>2. \A h \in Holders : Owed(h) = [a \in {} |-> 0]
  BY <1>1 DEF Owed
<1>3. {a \in Assets : Registered(a)} = {}
  BY DEF Init, Registered
<1>4. supply = 0 /\ book = [a \in Assets |-> 0] /\ lateDraw = FALSE
  BY DEF Init, NoAmounts
<1>. QED
  BY <1>2, <1>3, <1>4 DEF Promise!Init

\* What is owed to a holder depends on the claim, its burn and the indices.
LEMMA OwedSame ==
    ASSUME NEW h \in Holders, index' = index, claim'[h] = claim[h],
           burnBook'[h] = burnBook[h]
    PROVE  Owed(h)' = Owed(h)
<1>1. AtBurn(h)' = AtBurn(h) /\ Drawn(h)' = Drawn(h)
  BY DEF AtBurn, Drawn
<1>. QED
  BY <1>1 DEF Owed

LEMMA QuietStep ==
    ASSUME UNCHANGED <<index, claim, burnBook, lateDraw, supply, book>>
    PROVE  UNCHANGED Promise!vars
<1>1. \A h \in Holders : Owed(h)' = Owed(h)
  BY OwedSame
<1>2. {a \in Assets : Registered(a)}' = {a \in Assets : Registered(a)}
  BY DEF Registered
<1>. QED
  BY <1>1, <1>2 DEF Promise!vars

\* A burn's assets are those that had an index at the time, which a claim's
\* count bounds.
LEMMA CountBounded ==
    ASSUME IInv, ClosedIsEmpty, NEW h \in Holders
    PROVE  claim[h].assetCountAtBurn \in 0..assetCount
<1>1. assetCount \in Nat
  BY DEF IInv, TypeOK
<1>2. CASE claim[h].open
  BY <1>1, <1>2 DEF IInv, ClaimsSane
<1>3. CASE ~claim[h].open
  BY <1>1, <1>3 DEF ClosedIsEmpty
<1>. QED BY <1>2, <1>3

\* A new index puts a mint on offer, and is owed to nobody who left before.
LEMMA OfferStep ==
    ASSUME IInv, PayInv, NEW a \in Assets, index[a] = Unregistered,
           index' = [index EXCEPT ![a] = assetCount],
           UNCHANGED <<claim, burnBook, lateDraw, supply, book>>
    PROVE  Promise!Next
<1>1. /\ index \in [Assets -> Nat \cup {Unregistered}]
      /\ assetCount \in Nat
      /\ \A b \in Assets : b # a => index'[b] = index[b]
      /\ index'[a] = assetCount
  BY DEF IInv, TypeOK
<1>2. \A h \in Holders : Owed(h)' = Owed(h)
  <2>1. TAKE h \in Holders
  <2>2. claim[h].assetCountAtBurn \in 0..assetCount
    BY CountBounded DEF PayInv
  <2>3. \A b \in Assets : b \in AtBurn(h)' <=> b \in AtBurn(h)
    <3>1. a \notin AtBurn(h)' /\ a \notin AtBurn(h)
      BY <1>1, <2>2 DEF AtBurn, Unregistered
    <3>2. ASSUME NEW b \in Assets, b # a
          PROVE  b \in AtBurn(h)' <=> b \in AtBurn(h)
      BY <1>1, <3>2 DEF AtBurn
    <3>. QED BY <3>1, <3>2
  <2>4. AtBurn(h)' = AtBurn(h) /\ AtBurn(h) \subseteq Assets \ {a}
    <3>1. a \notin AtBurn(h)
      BY <1>1, <2>2 DEF AtBurn, Unregistered
    <3>. QED BY <2>3, <3>1 DEF AtBurn
  <2>5. \A b \in AtBurn(h) : b \in Drawn(h)' <=> b \in Drawn(h)
    BY <1>1, <2>4 DEF Drawn
  <2>6. (AtBurn(h) \ Drawn(h))' = AtBurn(h) \ Drawn(h)
    BY <2>4, <2>5
  <2>. QED BY <2>6 DEF Owed
<1>3. /\ ~Registered(a)
      /\ {b \in Assets : Registered(b)}' = {b \in Assets : Registered(b)} \cup {a}
  BY <1>1 DEF Registered, Unregistered
<1>4. a \in Assets \ {b \in Assets : Registered(b)} /\ Promise!Offer(a)
  BY <1>2, <1>3 DEF Promise!Offer
<1>. QED
  BY <1>4 DEF Promise!Next

\* The lock of claims is open only when nobody is owed anything.
LEMMA FreeOwesNobody ==
    ASSUME IInv, PayInv, ~lateDraw, pendingClaims = 0
    PROVE  Promise!NobodyIsOwed
<1>1. ASSUME NEW h \in Holders PROVE DOMAIN Owed(h) = {}
  <2>1. AtBurn(h) \ Drawn(h) = {}
    BY NothingLeftToDraw DEF PayInv
  <2>. QED BY <2>1 DEF Owed
<1>. QED
  BY <1>1 DEF Promise!NobodyIsOwed, Promise!Unpaid

\* A trade changes the book while the lock is open.
LEMMA TradeStep ==
    ASSUME IInv, PayInv, ~lateDraw, pendingClaims = 0, book' \in [Assets -> Nat],
           UNCHANGED <<index, claim, burnBook, lateDraw, supply>>
    PROVE  [Promise!Next]_(Promise!vars)
<1>1. \A h \in Holders : Owed(h)' = Owed(h)
  BY OwedSame
<1>2. {a \in Assets : Registered(a)}' = {a \in Assets : Registered(a)}
  BY DEF Registered
<1>3. CASE book' = book
  BY <1>3, QuietStep
<1>4. CASE book' # book
  <2>1. Promise!Trade
    BY <1>1, <1>2, <1>4, FreeOwesNobody DEF Promise!Trade
  <2>. QED BY <2>1 DEF Promise!Next
<1>. QED BY <1>3, <1>4

\* A settlement brings quote in and shares out.
LEMMA EnterStep ==
    ASSUME IInv, NEW h \in Holders, SettleDeposit(h)
    PROVE  Promise!Next
<1> DEFINE amount == request[h]
           minted == SharesFor(amount)
<1>1. /\ amount \in Nat \ {0}
      /\ minted \in Nat \ {0}
      /\ book' = [book EXCEPT ![Quote] = book[Quote] + amount]
      /\ supply' = supply + minted
      /\ UNCHANGED <<index, claim, burnBook, lateDraw>>
  <2>1. amount \in Nat \ {0}
    BY DEF SettleDeposit, SettleDepositAccounts, IInv, TypeOK
  <2>2. minted \in Nat
    BY <2>1, SharesForNat DEF SettleDeposit
  <2>. QED BY <2>1, <2>2 DEF SettleDeposit
<1> HIDE DEF amount, minted
<1>2. /\ supply \in Nat
      /\ book \in [Assets -> Nat] /\ book[Quote] \in Nat
  BY HolderAssumption DEF IInv, TypeOK
<1>3. /\ book'[Quote] = book[Quote] + amount
      /\ supply' > supply
  BY <1>1, <1>2, HolderAssumption
<1>4. Promise!Only(Quote)
  <2>1. book' = [book EXCEPT ![Quote] = book'[Quote]]
    BY <1>1, <1>3, Zenon
  <2>2. book'[Quote] \in Nat
    BY <1>1, <1>2, <1>3
  <2>. QED BY <2>1, <2>2 DEF Promise!Only
<1>5. \A g \in Holders : Owed(g)' = Owed(g)
  BY <1>1, OwedSame
<1>6. {a \in Assets : Registered(a)}' = {a \in Assets : Registered(a)}
  BY <1>1 DEF Registered
<1>7. book'[Quote] > book[Quote]
  BY <1>1, <1>2, <1>3
<1>8. Promise!Enter
  BY <1>1, <1>3, <1>4, <1>5, <1>6, <1>7 DEF Promise!Enter
<1>. QED
  BY <1>8 DEF Promise!Next

\* A burn owes its fraction of every mint that has an index by then.
LEMMA LeaveStep ==
    ASSUME IInv, PayInv, ~lateDraw, NEW h \in Holders, NEW amount \in Nat,
           InitiateWithdrawal(h, amount)
    PROVE  Promise!Next
<1> DEFINE burned == amount - FeeShares(h, amount)
           on == {a \in Assets : Registered(a)}
<1>1. /\ pendingClaims = 0
      /\ burned \in 1..supply
      /\ supply \in Nat
      /\ supply' = supply - burned
      /\ UNCHANGED <<index, lateDraw, book>>
      /\ claim' = [claim EXCEPT ![h] =
                      [open |-> TRUE, sharesBurned |-> burned, totalAtBurn |-> supply,
                       assetCountAtBurn |-> assetCount, assetsClaimed |-> 0, bitmap |-> {}]]
      /\ burnBook' = [burnBook EXCEPT ![h] = book]
  BY ExitAmounts DEF InitiateWithdrawal, NoClaimsOpen
<1> HIDE DEF burned
<1>2. /\ claim'[h].sharesBurned = burned
      /\ claim'[h].totalAtBurn = supply
      /\ claim'[h].assetCountAtBurn = assetCount
      /\ claim'[h].bitmap = {}
      /\ burnBook'[h] = book
      /\ \A g \in Holders : g # h => claim'[g] = claim[g] /\ burnBook'[g] = burnBook[g]
  BY <1>1 DEF IInv, TypeOK
<1>3. /\ burned = supply - supply'
      /\ supply' \in 0..(supply - 1)
  BY <1>1
<1>4. (AtBurn(h) \ Drawn(h))' = on
  <2>1. \A a \in Assets : index[a] \in 0..(assetCount - 1) <=> Registered(a)
    BY DEF IInv, TypeOK, IndicesSane, Registered, Unregistered
  <2>2. AtBurn(h)' = on
    BY <1>1, <1>2, <2>1 DEF AtBurn
  <2>3. Drawn(h)' = {}
    BY <1>2 DEF Drawn
  <2>. QED BY <2>2, <2>3
<1>5. Owed(h)' = [a \in on |-> (book[a] * (supply - supply')) \div supply]
  <2>1. Owed(h)' = [a \in on |-> MulDivFloor(book[a], burned, supply)]
    BY <1>2, <1>4 DEF Owed
  <2>. QED BY <1>3, <2>1 DEF MulDivFloor
<1>6. \A g \in Holders : g # h => Owed(g)' = Owed(g)
  BY <1>1, <1>2, OwedSame
<1>7. on' = on
  BY <1>1 DEF Registered
<1>8. Promise!Leave(h)
  BY <1>1, <1>3, <1>5, <1>6, <1>7, FreeOwesNobody DEF Promise!Leave
<1>. QED
  BY <1>8 DEF Promise!Next

\* A claim that can be closed owes nothing.
LEMMA CloseStep ==
    ASSUME IInv, ~lateDraw, NEW h \in Holders, CloseClaim(h)
    PROVE  UNCHANGED Promise!vars
<1>1. /\ UNCHANGED <<index, lateDraw, book, supply>>
      /\ claim'[h] = NoClaim
      /\ \A g \in Holders : g # h => claim'[g] = claim[g] /\ burnBook'[g] = burnBook[g]
  BY DEF CloseClaim, IInv, TypeOK, shareVars
<1>2. AtBurn(h) \ Drawn(h) = {}
  BY CompleteDrewAll DEF CloseClaim
<1>3. (AtBurn(h) \ Drawn(h))' = {}
  BY <1>1 DEF AtBurn, NoClaim
<1>4. Owed(h)' = Owed(h)
  BY <1>2, <1>3 DEF Owed
<1>5. \A g \in Holders : Owed(g)' = Owed(g)
  BY <1>1, <1>4, OwedSame
<1>6. {a \in Assets : Registered(a)}' = {a \in Assets : Registered(a)}
  BY <1>1 DEF Registered
<1>. QED
  BY <1>1, <1>5, <1>6 DEF Promise!vars

\* A draw pays what is owed of a mint, or, of a mint that is not, voids the
\* promise.
LEMMA DrawStep ==
    ASSUME IInv, PayInv, ~lateDraw, NEW h \in Holders, NEW a \in Assets, ClaimAsset(h, a)
    PROVE  Promise!Next
<1> DEFINE c == claim[h]
           amount == MulDivFloor(book[a], c.sharesBurned, c.totalAtBurn)
           n == c.assetCountAtBurn
           on == {b \in Assets : Registered(b)}
           due == AtBurn(h) \ Drawn(h)
<1>1. /\ UNCHANGED <<index, burnBook, supply>>
      /\ Registered(a) /\ index[a] \notin c.bitmap
      /\ book' = [book EXCEPT ![a] = book[a] - amount]
      /\ claim' = [claim EXCEPT ![h] = MarkClaimed(c, index[a])]
      /\ lateDraw' = (lateDraw \/ index[a] >= n)
  BY DEF ClaimAsset, ClaimAssetAccounts, shareVars
<1>2. /\ claim'[h].bitmap = c.bitmap \cup {index[a]}
      /\ claim'[h].assetCountAtBurn = n
      /\ claim'[h].sharesBurned = c.sharesBurned
      /\ claim'[h].totalAtBurn = c.totalAtBurn
      /\ \A g \in Holders : g # h => claim'[g] = claim[g]
  <2>1. c \in ClaimRecord /\ claim \in [Holders -> ClaimRecord]
    BY DEF IInv, TypeOK
  <2>2. /\ claim'[h] = [c EXCEPT !.bitmap = c.bitmap \cup {index[a]},
                                 !.assetsClaimed = c.assetsClaimed + 1]
        /\ \A g \in Holders : g # h => claim'[g] = claim[g]
    BY <1>1, <2>1 DEF MarkClaimed
  <2>. QED BY <2>1, <2>2 DEF ClaimRecord
<1>3. /\ book[a] \in Nat /\ burnBook[h][a] \in Nat
      /\ c.sharesBurned \in Nat /\ c.totalAtBurn \in Nat /\ n \in Nat
      /\ c.totalAtBurn > 0 /\ c.sharesBurned <= c.totalAtBurn
  BY DEF IInv, TypeOK, ClaimRecord, ClaimsSane, ClaimAsset, ClaimAssetAccounts
<1>4. amount \in Nat /\ amount <= book[a]
  BY <1>3, FloorNat, FloorPart
<1> HIDE DEF amount
<1>5. /\ book'[a] = book[a] - amount
      /\ Promise!Only(a)
  <2>1. book'[a] = book[a] - amount
    BY <1>1 DEF IInv, TypeOK
  <2>2. book' = [book EXCEPT ![a] = book'[a]]
    BY <1>1, <2>1, Zenon
  <2>3. book'[a] \in Nat
    BY <1>3, <1>4, <2>1
  <2>. QED BY <2>1, <2>2, <2>3 DEF Promise!Only
<1>6. on' = on /\ a \in on
  BY <1>1 DEF Registered
<1>7. /\ index[a] \in Nat
      /\ a \notin Drawn(h)
      /\ (AtBurn(h) \ Drawn(h))' = due \ {a}
  <2>1. index[a] \in Nat
    BY <1>1 DEF IInv, TypeOK, Registered
  <2>2. AtBurn(h)' = AtBurn(h)
    BY <1>1, <1>2 DEF AtBurn
  <2>3. \A b \in Assets : index[b] = index[a] => b = a
    BY <1>1 DEF PayInv, OneMintPerIndex
  <2>4. Drawn(h)' = Drawn(h) \cup {a}
    BY <1>1, <1>2, <2>3 DEF Drawn
  <2>. QED BY <1>1, <2>1, <2>2, <2>4 DEF Drawn
<1>8. \A g \in Holders : g # h => Owed(g)' = Owed(g)
  BY <1>1, <1>2, OwedSame
<1>9. Owed(h)' = [b \in due \ {a} |-> Owed(h)[b]]
  <2>1. Owed(h)' = [b \in due \ {a} |-> MulDivFloor(burnBook[h][b], c.sharesBurned, c.totalAtBurn)]
    BY <1>1, <1>2, <1>7 DEF Owed
  <2>. QED BY <2>1 DEF Owed
<1>10. DOMAIN Owed(h) = due
  BY DEF Owed
<1>11. CASE index[a] < n
  <2>1. a \in due
    BY <1>3, <1>7, <1>11 DEF AtBurn
  <2>2. lateDraw' = lateDraw
    <3>1. lateDraw \in BOOLEAN /\ ~(index[a] >= n)
      BY <1>3, <1>7, <1>11 DEF IInv, TypeOK
    <3>. QED BY <1>1, <3>1
  <2>3. book'[a] + Owed(h)[a] <= book[a]
    <3>1. book[a] >= burnBook[h][a]
      BY <2>1 DEF PayInv, DrawsSane, DrawSane
    <3>2. MulDivFloor(burnBook[h][a], c.sharesBurned, c.totalAtBurn) <= amount
      BY <1>3, <3>1, FloorMonoBase DEF amount
    <3>3. Owed(h)[a] = MulDivFloor(burnBook[h][a], c.sharesBurned, c.totalAtBurn)
      BY <2>1 DEF Owed
    <3>4. MulDivFloor(burnBook[h][a], c.sharesBurned, c.totalAtBurn) \in Nat
      BY <1>3, FloorNat
    <3>. QED BY <1>3, <1>4, <1>5, <3>2, <3>3, <3>4
  <2> HIDE DEF due, on
  <2>4. Promise!Pay(h, a)
    <3> DEFINE all == [g \in Holders |-> Owed(g)]
               rest == [b \in due \ {a} |-> Owed(h)[b]]
    <3>1. all' = [all EXCEPT ![h] = rest]
      BY <1>8, <1>9
    <3>2. /\ all[h] = Owed(h)
          /\ rest = [b \in DOMAIN all[h] \ {a} |-> all[h][b]]
      BY <1>10
    <3>3. all' = [all EXCEPT ![h] = [b \in DOMAIN all[h] \ {a} |-> all[h][b]]]
      BY <3>1, <3>2
    <3>4. /\ book'[a] + all[h][a] <= book[a]
          /\ (~lateDraw)' = ~lateDraw
      BY <2>2, <2>3, <3>2
    <3>. QED BY <1>1, <1>5, <1>6, <3>3, <3>4 DEF Promise!Pay, Promise!Unpaid, on
  <2>5. a \in Promise!Unpaid(h)
    BY <1>10, <2>1 DEF Promise!Unpaid
  <2>. QED BY <2>4, <2>5 DEF Promise!Next
<1>12. CASE index[a] >= n
  <2>1. a \notin due
    BY <1>3, <1>7, <1>12 DEF AtBurn
  <2>2. lateDraw'
    BY <1>1, <1>12
  <2>3. Owed(h)' = Owed(h)
    BY <1>9, <2>1 DEF Owed
  <2>4. book'[a] <= book[a]
    BY <1>3, <1>4, <1>5
  <2>5. Promise!Overpay(a)
    BY <1>1, <1>5, <1>6, <1>8, <2>2, <2>3, <2>4 DEF Promise!Overpay
  <2>6. a \in {b \in Assets : Registered(b)} \ Promise!Unpaid(h)
    BY <1>6, <1>10, <2>1 DEF Promise!Unpaid
  <2>. QED BY <2>5, <2>6 DEF Promise!Next
<1>. QED
  BY <1>3, <1>7, <1>11, <1>12

\* Every step of the vault is one of the promise, or one it does not see.
LEMMA StepPromise ==
    ASSUME IInv, PayInv, [Next]_vars
    PROVE  [Promise!Next]_(Promise!vars)
<1> USE InputAssumption
<1>1. CASE lateDraw
  <2>1. Promise!Void
    BY <1>1, LateStaysLate DEF Promise!Void
  <2>. QED BY <2>1 DEF Promise!Next
<1>2. ASSUME UNCHANGED <<index, claim, burnBook, lateDraw, supply, book>>
      PROVE  [Promise!Next]_(Promise!vars)
  BY <1>2, QuietStep
<1>3. CASE UNCHANGED vars
  BY <1>2, <1>3 DEF vars, historyVars, shareVars
<1>4. CASE AuthorityNext
  BY <1>2, <1>4 DEF AuthorityNext, SetPlatformParams, SetPlatformTreasury,
     SetPlatformAuthority, SetListingsPaused, PlatformOnly, SetVaultWithdrawFee, historyVars, shareVars
<1>5. CASE (\E t \in Treasuries : OpenShareAccount(t)) \/ Tick
  BY <1>2, <1>5 DEF OpenShareAccount, Tick, historyVars, shareVars
<1>6. ASSUME NEW m \in Managers, NEW f \in ListingFees, InitializeVault(m, f)
      PROVE  Promise!Next
  <2>1. assetCount = 0
    BY <1>6 DEF IInv, TypeOK, ListingSane, InitializeVault, InitializeVaultAccounts
  <2>2. index[Quote] = Unregistered
    BY <2>1, HolderAssumption DEF IInv, TypeOK, IndicesSane, Registered
  <2>3. /\ index' = [index EXCEPT ![Quote] = assetCount]
        /\ UNCHANGED <<claim, burnBook, lateDraw, supply, book>>
    BY <1>6, <2>1 DEF InitializeVault, historyVars
  <2>. QED BY <2>2, <2>3, OfferStep, HolderAssumption
<1>7. ASSUME NEW m \in Managers, NEW a \in Assets, RegisterAsset(m, a)
      PROVE  Promise!Next
  <2>1. /\ index[a] = Unregistered
        /\ index' = [index EXCEPT ![a] = assetCount]
        /\ UNCHANGED <<claim, burnBook, lateDraw, supply, book>>
    BY <1>7 DEF RegisterAsset, RegisterAssetAccounts, Registered, historyVars, shareVars
  <2>. QED BY <2>1, OfferStep
<1>8. ASSUME ~lateDraw, NEW m \in Managers, NEW a \in VaultAccounts, NEW b \in VaultAccounts,
             NEW fill \in Fills, NEW limit \in Fills, ExecuteTrade(m, a, b, fill, limit)
      PROVE  [Promise!Next]_(Promise!vars)
  <2>1. /\ pendingClaims = 0
        /\ UNCHANGED <<index, claim, burnBook, lateDraw, supply>>
    BY <1>8 DEF ExecuteTrade, MayTrade, NoClaimsOpen, shareVars
  <2>2. book' \in [Assets -> Nat]
    BY <1>8, RouteLeaves DEF IInv
  <2>. QED BY <1>8, <2>1, <2>2, TradeStep
<1>9. ASSUME NEW m \in Managers,
             \/ \E nav \in NavChoices : PostNav(m, nav)
             \/ \E p \in PauseChoices : SetPaused(m, p)
             \/ \E new \in Managers : SetManager(m, new)
      PROVE  [Promise!Next]_(Promise!vars)
  BY <1>2, <1>9 DEF PostNav, SetPaused, SetManager, ManagerOnly, historyVars, shareVars
<1>10. CASE ManagerNext /\ ~lateDraw
  BY <1>6, <1>7, <1>8, <1>9, <1>10 DEF ManagerNext
<1>11. ASSUME ~lateDraw, NEW h \in Holders, NEW amount \in ShareAmounts \cup {shares[h]},
              InitiateWithdrawal(h, amount)
       PROVE  Promise!Next
  <2>1. amount \in Nat
    BY DEF IInv, TypeOK
  <2>. QED BY <1>11, <2>1, LeaveStep
<1>12. ASSUME NEW h \in Holders,
              \/ \E amount \in DepositAmounts : RequestDeposit(h, amount)
              \/ CancelDeposit(h)
       PROVE  [Promise!Next]_(Promise!vars)
  BY <1>2, <1>12 DEF RequestDeposit, CancelDeposit, historyVars, shareVars
<1>13. CASE HolderNext /\ ~lateDraw
  BY <1>11, <1>12, <1>13, EnterStep, DrawStep, CloseStep DEF HolderNext
<1>. QED
  BY <1>1, <1>3, <1>4, <1>5, <1>10, <1>13 DEF Next

\* The vault implements VaultPromise: a burn and its draws are one transfer in
\* kind of the burned fraction, of every mint on offer and for no less than the
\* book held at the burn, whoever cranks them and whatever comes in between
\* (lib.rs:390, 506, 548), until a mint is drawn that the burn did not cover.
THEOREM VaultRedeemsInKind == Spec => RedeemsInKind
<1>1. IInv /\ PayInv /\ [Next]_vars => [Promise!Next]_(Promise!vars)
  BY StepPromise
<1>. QED
  BY <1>1, PromiseStarts, InitPayInv, NextPayInv, Inductive, PTL
  DEF Spec, RedeemsInKind, Promise!Spec
=============================================================================
