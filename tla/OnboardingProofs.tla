-------------------------- MODULE OnboardingProofs --------------------------
(***************************************************************************)
(* How a trader gets on the roster, proved: the listing registry beside    *)
(* the vaults it lists (ListingRegistry), for every set of leaders, fees   *)
(* and bounds, and the inbox of applications before it (TraderInbox), for  *)
(* every set of tabs and addresses; and the web application they and their *)
(* followers use (Dashboard), for every roster and any number of clicks.   *)
(***************************************************************************)
EXTENDS ListingRegistry, TraderInbox, Dashboard, LedgerMath

----------------------------------------------------------------------------
(* The registry: what its rows, reads and quotes know of the chain *)

Row == [status: Statuses, vault: BOOLEAN, fee: FeeLevels \cup {NoFee},
        paid: ListingFees \cup {NoFee}]
Vault == [fee: FeeLevels, paid: ListingFees]

\* The fee of a vault never passes the ceiling, and listing it cost at most
\* what its lister signed.
VaultSound(l) ==
    vaults[l] # NoFee =>
        /\ vaults[l].fee <= MAX_WITHDRAW_FEE_BPS
        /\ quoted[l] # NoFee
        /\ vaults[l].paid <= quoted[l]

\* A read that is not yet recorded is at worst too dear.
LookupSound(l) ==
    lookup[l] # NoFee =>
        /\ vaults[l] # NoFee
        /\ vaults[l].fee <= lookup[l]
        /\ lookup[l] <= MAX_WITHDRAW_FEE_BPS

\* The same of the fee a row caches.
CacheSound(l) ==
    listings[l] # NoListing /\ listings[l].fee # NoFee =>
        /\ vaults[l] # NoFee
        /\ vaults[l].fee <= listings[l].fee
        /\ listings[l].fee <= MAX_WITHDRAW_FEE_BPS

\* Statuses that are reached through recordListed only.
Listed == {"listed", "live", "suspended", "delisted"}

PaidFor(l) ==
    listings[l] # NoListing /\ listings[l].status \in Listed =>
        /\ vaults[l] # NoFee
        /\ listings[l].paid = vaults[l].paid

SuspensionsCounted(l) ==
    listings[l] # NoListing /\ listings[l].status = "suspended" => suspended[l] > 0

Chain == platform.fee <= MAX_WITHDRAW_FEE_BPS /\ \A l \in Leaders : VaultSound(l)
Knowledge == \A l \in Leaders : LookupSound(l) /\ CacheSound(l)
Rows == \A l \in Leaders : PaidFor(l) /\ SuspensionsCounted(l)

RegistryInv == RegistryTypeOK /\ Chain /\ Knowledge /\ Rows

\* A row is never mistaken for a missing one, nor a vault for one.
LEMMA RowsAreRows ==
    ASSUME NEW r \in Row
    PROVE  r # NoListing
<1>1. FeeLevels \subseteq Nat /\ ListingFees \subseteq Nat
  BY RegistryAssumption
<1>2. r \in [status: Statuses, vault: BOOLEAN, fee: Nat \cup {NoFee}, paid: Nat \cup {NoFee}]
  BY <1>1 DEF Row
<1>. QED
  BY <1>2, RegistryAssumption

LEMMA VaultsAreVaults ==
    ASSUME NEW v \in Vault
    PROVE  v # NoFee
  BY RegistryAssumption DEF Vault

\* A change of status moves one row along the table and leaves the rest of it.
Moved(l, to) ==
    /\ listings[l] \in Row
    /\ to \in TRANSITIONS[listings[l].status]
    /\ listings'[l] \in Row
    /\ listings'[l].status = to
    /\ listings'[l].fee = listings[l].fee
    /\ listings'[l].paid = listings[l].paid
    /\ listings' \in [Leaders -> {NoListing} \cup Row]
    /\ \A k \in Leaders : k # l => listings'[k] = listings[k]

LEMMA TransitionMoves ==
    ASSUME RegistryTypeOK, NEW l \in Leaders, NEW to \in Statuses, transition(l, to)
    PROVE  Moved(l, to)
<1>1. /\ listings[l] \in Row
      /\ to \in TRANSITIONS[listings[l].status]
  BY DEF RegistryTypeOK, transition, MayMove, Listing, canTransition, Row
<1>2. listings' = [listings EXCEPT ![l] = [@ EXCEPT !.status = to]]
  BY DEF transition
<1>3. /\ [listings[l] EXCEPT !.status = to] \in Row
      /\ [listings[l] EXCEPT !.status = to].status = to
      /\ [listings[l] EXCEPT !.status = to].fee = listings[l].fee
      /\ [listings[l] EXCEPT !.status = to].paid = listings[l].paid
  BY <1>1 DEF Row
<1>4. listings \in [Leaders -> {NoListing} \cup Row]
  BY DEF RegistryTypeOK, Row
<1>. QED
  BY <1>1, <1>2, <1>3, <1>4 DEF Moved

LEMMA RegistryStarts == RegistryInit => RegistryInv
<1> SUFFICES ASSUME RegistryInit PROVE RegistryInv
  OBVIOUS
<1> USE RegistryAssumption
<1>1. RegistryTypeOK
  BY DEF RegistryInit, RegistryTypeOK, platformFromEnv
<1>2. Chain /\ Knowledge /\ Rows
  BY DEF RegistryInit, Chain, Knowledge, Rows, VaultSound, LookupSound,
         CacheSound, PaidFor, SuspensionsCounted
<1>. QED
  BY <1>1, <1>2 DEF RegistryInv

\* The moves that change a status and nothing else.
LEMMA MoveKeeps ==
    ASSUME RegistryInv, NEW l \in Leaders, NEW to \in Statuses, transition(l, to),
           suspended' \in [Leaders -> 0..MaxSuspensions],
           \A k \in Leaders : suspended[k] <= suspended'[k],
           to = "suspended" => suspended'[l] > 0,
           to # "listed"
    PROVE  RegistryInv'
<1>1. Moved(l, to)
  BY TransitionMoves DEF RegistryInv
<1>2. UNCHANGED <<config, platform, vaults, quoted, lookup, reprices>>
  BY DEF transition, chainVars
<1>3. RegistryTypeOK'
  BY <1>1, <1>2 DEF RegistryInv, RegistryTypeOK, Moved, Row, platformFromEnv
<1>4. Chain'
  BY <1>2 DEF RegistryInv, Chain, VaultSound
<1>5. listings[l] # NoListing
  BY <1>1, RowsAreRows DEF Moved
<1>6. Knowledge'
  <2> SUFFICES ASSUME NEW k \in Leaders PROVE (LookupSound(k) /\ CacheSound(k))'
    BY DEF Knowledge
  <2>1. LookupSound(k) /\ CacheSound(k)
    BY DEF RegistryInv, Knowledge
  <2>. QED
    BY <2>1, <1>1, <1>2, <1>5 DEF LookupSound, CacheSound, Moved
<1>7. Rows'
  <2> SUFFICES ASSUME NEW k \in Leaders PROVE (PaidFor(k) /\ SuspensionsCounted(k))'
    BY DEF Rows
  <2>1. PaidFor(k) /\ SuspensionsCounted(k) /\ PaidFor(l)
    BY DEF RegistryInv, Rows
  <2>2. to \in Listed => listings[l].status \in Listed
    BY <1>1 DEF Moved, Listed, TRANSITIONS, Row, Statuses
  <2>3. PaidFor(k)'
    BY <2>1, <2>2, <1>1, <1>2, <1>5 DEF PaidFor, Moved
  <2>4. SuspensionsCounted(k)'
    <3>1. suspended[k] \in Nat /\ suspended'[k] \in Nat /\ suspended[k] <= suspended'[k]
      BY DEF RegistryInv, RegistryTypeOK
    <3>2. CASE k = l
      BY <3>2, <1>1 DEF SuspensionsCounted, Moved
    <3>3. CASE k # l
      BY <3>1, <3>3, <2>1, <1>1 DEF SuspensionsCounted, Moved
    <3>. QED
      BY <3>2, <3>3
  <2>. QED
    BY <2>3, <2>4
<1>. QED
  BY <1>3, <1>4, <1>6, <1>7 DEF RegistryInv

\* Every action of the registry, the program and the operator keeps it.
LEMMA RegistryKeeps == RegistryInv /\ [RegistryNext]_registryVars => RegistryInv'
<1> SUFFICES ASSUME RegistryInv, [RegistryNext]_registryVars PROVE RegistryInv'
  OBVIOUS
<1>0. /\ RegistryTypeOK /\ Chain /\ Knowledge /\ Rows
      /\ FeeLevels \subseteq Nat /\ ListingFees \subseteq Nat
      /\ {MaxReprices, MaxSuspensions} \subseteq Nat /\ NoFee \notin Nat
  BY RegistryAssumption DEF RegistryInv
<1>1. ASSUME NEW l \in Leaders, apply(l) PROVE RegistryInv'
  <2> DEFINE r == [status |-> "applied", vault |-> FALSE, fee |-> NoFee, paid |-> NoFee]
  <2>1. r \in Row
    BY DEF Row, Statuses
  <2>2. /\ listings' = [listings EXCEPT ![l] = r]
        /\ UNCHANGED <<config, platform, vaults, quoted, lookup, suspended, reprices>>
    BY <1>1 DEF apply, chainVars
  <2>3. r.fee = NoFee /\ r.status \notin Listed /\ r.status # "suspended"
    BY DEF Listed
  <2> HIDE DEF r
  <2>4. /\ listings \in [Leaders -> {NoListing} \cup Row]
        /\ listings' \in [Leaders -> {NoListing} \cup Row]
        /\ \A k \in Leaders : listings'[k] = IF k = l THEN r ELSE listings[k]
    BY <1>0, <2>1, <2>2 DEF RegistryTypeOK, Row
  <2>5. RegistryTypeOK'
    BY <1>0, <2>2, <2>4 DEF RegistryTypeOK, Row, platformFromEnv
  <2>6. Chain'
    BY <1>0, <2>2 DEF Chain, VaultSound
  <2>7. Knowledge'
    BY <1>0, <2>2, <2>3, <2>4 DEF Knowledge, LookupSound, CacheSound
  <2>8. Rows'
    BY <1>0, <2>2, <2>3, <2>4 DEF Rows, PaidFor, SuspensionsCounted
  <2>. QED
    BY <2>5, <2>6, <2>7, <2>8 DEF RegistryInv
<1>2. ASSUME NEW l \in Leaders, NEW to \in {"approved", "rejected", "delisted", "live"},
             transition(l, to), UNCHANGED suspended
      PROVE RegistryInv'
  <2>1. suspended' \in [Leaders -> 0..MaxSuspensions]
    BY <1>0, <1>2 DEF RegistryTypeOK
  <2>2. \A k \in Leaders : suspended[k] <= suspended'[k]
    BY <1>0, <1>2, <2>1
  <2>3. to \in Statuses /\ to # "suspended" /\ to # "listed"
    BY DEF Statuses
  <2>. QED
    BY <1>2, <2>1, <2>2, <2>3, MoveKeeps
<1>3. ASSUME NEW l \in Leaders, suspend(l) PROVE RegistryInv'
  <2>1. /\ suspended' \in [Leaders -> 0..MaxSuspensions]
        /\ suspended'[l] > 0
        /\ \A k \in Leaders : suspended[k] <= suspended'[k]
    BY <1>0, <1>3 DEF suspend, RegistryTypeOK
  <2>2. "suspended" \in Statuses
    BY DEF Statuses
  <2>. QED
    BY <1>3, <2>1, <2>2, MoveKeeps DEF suspend
<1>4. ASSUME NEW l \in Leaders, recordListed(l) PROVE RegistryInv'
  <2> DEFINE r == [listings[l] EXCEPT !.status = "listed", !.vault = TRUE,
                                      !.fee = lookup[l], !.paid = vaults[l].paid]
  <2>1. listings[l] \in Row /\ lookup[l] \in FeeLevels /\ vaults[l] # NoFee
    BY <1>0, <1>4 DEF recordListed, MayMove, Listing, RegistryTypeOK, Row, Knowledge, LookupSound
  <2>2. vaults[l] \in Vault
    BY <1>0, <2>1 DEF RegistryTypeOK, Vault
  <2>3. r \in Row
    BY <2>1, <2>2 DEF Row, Vault, Statuses
  <2>4. r.status = "listed" /\ r.fee = lookup[l] /\ r.paid = vaults[l].paid
    BY <2>1 DEF Row
  <2>5. /\ listings' = [listings EXCEPT ![l] = r]
        /\ lookup' = [lookup EXCEPT ![l] = NoFee]
        /\ lookup[l] # NoFee
        /\ UNCHANGED <<config, platform, vaults, quoted, suspended, reprices>>
    BY <1>4 DEF recordListed, chainVars
  <2> HIDE DEF r
  <2>6. /\ listings \in [Leaders -> {NoListing} \cup Row]
        /\ listings' \in [Leaders -> {NoListing} \cup Row]
        /\ \A k \in Leaders : listings'[k] = IF k = l THEN r ELSE listings[k]
    BY <1>0, <2>3, <2>5 DEF RegistryTypeOK, Row
  <2>7. /\ lookup' \in [Leaders -> FeeLevels \cup {NoFee}]
        /\ \A k \in Leaders : lookup'[k] = IF k = l THEN NoFee ELSE lookup[k]
    BY <1>0, <2>5 DEF RegistryTypeOK
  <2>8. RegistryTypeOK'
    BY <1>0, <2>5, <2>6, <2>7 DEF RegistryTypeOK, Row, platformFromEnv
  <2>9. Chain'
    BY <1>0, <2>5 DEF Chain, VaultSound
  <2>10. Knowledge'
    BY <1>0, <2>1, <2>4, <2>5, <2>6, <2>7 DEF Knowledge, LookupSound, CacheSound
  <2>11. Rows'
    BY <1>0, <2>1, <2>4, <2>5, <2>6 DEF Rows, PaidFor, SuspensionsCounted
  <2>. QED
    BY <2>8, <2>9, <2>10, <2>11 DEF RegistryInv
<1>5. ASSUME NEW l \in Leaders, reconcile(l) PROVE RegistryInv'
  <2> DEFINE r == [listings[l] EXCEPT !.fee = lookup[l]]
  <2>1. listings[l] \in Row /\ lookup[l] \in FeeLevels /\ vaults[l] # NoFee
    BY <1>0, <1>5 DEF reconcile, Listing, RegistryTypeOK, Row, Knowledge, LookupSound
  <2>3. r \in Row
    BY <2>1 DEF Row
  <2>4. /\ r.status = listings[l].status
        /\ r.fee = lookup[l]
        /\ r.paid = listings[l].paid
    BY <2>1 DEF Row
  <2>5. /\ listings' = [listings EXCEPT ![l] = r]
        /\ lookup' = [lookup EXCEPT ![l] = NoFee]
        /\ lookup[l] # NoFee /\ listings[l] # NoListing
        /\ UNCHANGED <<config, platform, vaults, quoted, suspended, reprices>>
    BY <1>5 DEF reconcile, chainVars, Listing
  <2> HIDE DEF r
  <2>6. /\ listings \in [Leaders -> {NoListing} \cup Row]
        /\ listings' \in [Leaders -> {NoListing} \cup Row]
        /\ \A k \in Leaders : listings'[k] = IF k = l THEN r ELSE listings[k]
    BY <1>0, <2>3, <2>5 DEF RegistryTypeOK, Row
  <2>7. /\ lookup' \in [Leaders -> FeeLevels \cup {NoFee}]
        /\ \A k \in Leaders : lookup'[k] = IF k = l THEN NoFee ELSE lookup[k]
    BY <1>0, <2>5 DEF RegistryTypeOK
  <2>8. RegistryTypeOK'
    BY <1>0, <2>5, <2>6, <2>7 DEF RegistryTypeOK, Row, platformFromEnv
  <2>9. Chain'
    BY <1>0, <2>5 DEF Chain, VaultSound
  <2>10. Knowledge'
    BY <1>0, <2>1, <2>4, <2>5, <2>6, <2>7 DEF Knowledge, LookupSound, CacheSound
  <2>11. Rows'
    BY <1>0, <2>1, <2>4, <2>5, <2>6 DEF Rows, PaidFor, SuspensionsCounted
  <2>. QED
    BY <2>8, <2>9, <2>10, <2>11 DEF RegistryInv
<1>6. ASSUME NEW l \in Leaders, quoteListing(l) PROVE RegistryInv'
  <2>1. config.listingFeeLamports \in ListingFees
    BY <1>0 DEF RegistryTypeOK, platformFromEnv
  <2>2. /\ quoted' = [quoted EXCEPT ![l] = config.listingFeeLamports]
        /\ vaults[l] = NoFee
        /\ UNCHANGED <<config, listings, platform, vaults, lookup, suspended, reprices>>
    BY <1>6 DEF quoteListing, chainVars
  <2>3. RegistryTypeOK'
    BY <1>0, <2>1, <2>2 DEF RegistryTypeOK, platformFromEnv
  <2>4. \A k \in Leaders : k # l => quoted'[k] = quoted[k]
    BY <1>0, <2>2 DEF RegistryTypeOK
  <2>5. Chain'
    BY <1>0, <2>2, <2>4 DEF Chain, VaultSound
  <2>6. Knowledge' /\ Rows'
    BY <1>0, <2>2 DEF Knowledge, LookupSound, CacheSound, Rows, PaidFor, SuspensionsCounted
  <2>. QED
    BY <2>3, <2>5, <2>6 DEF RegistryInv
<1>7. ASSUME NEW l \in Leaders, initialize_vault(l) PROVE RegistryInv'
  <2> DEFINE v == [fee |-> platform.fee, paid |-> platform.listingFee]
  <2>1. v \in Vault
    BY <1>0 DEF RegistryTypeOK, Vault
  <2>2. v.fee = platform.fee /\ v.paid = platform.listingFee
    OBVIOUS
  <2>3. /\ quoted[l] # NoFee /\ vaults[l] = NoFee
        /\ \/ /\ platform.listingFee <= quoted[l]
              /\ vaults' = [vaults EXCEPT ![l] = v]
              /\ quoted' = quoted
           \/ /\ quoted' = [quoted EXCEPT ![l] = NoFee]
              /\ vaults' = vaults
        /\ UNCHANGED <<config, listings, platform, lookup, suspended, reprices>>
    BY <1>7 DEF initialize_vault, FeeAccepted
  <2> HIDE DEF v
  <2>4. /\ vaults' \in [Leaders -> {NoFee} \cup Vault]
        /\ quoted' \in [Leaders -> ListingFees \cup {NoFee}]
        /\ \A k \in Leaders : k # l => vaults'[k] = vaults[k] /\ quoted'[k] = quoted[k]
        /\ vaults'[l] # NoFee => /\ vaults'[l] = v /\ quoted'[l] = quoted[l]
                                 /\ platform.listingFee <= quoted[l]
    BY <1>0, <2>1, <2>3 DEF RegistryTypeOK, Vault
  <2>5. RegistryTypeOK'
    BY <1>0, <2>3, <2>4 DEF RegistryTypeOK, Vault, platformFromEnv
  <2>6. Chain'
    BY <1>0, <2>2, <2>3, <2>4 DEF Chain, VaultSound
  <2>7. Knowledge'
    BY <1>0, <2>3, <2>4 DEF Knowledge, LookupSound, CacheSound
  <2>8. Rows'
    BY <1>0, <2>3, <2>4 DEF Rows, PaidFor, SuspensionsCounted
  <2>. QED
    BY <2>5, <2>6, <2>7, <2>8 DEF RegistryInv
<1>8. ASSUME NEW l \in Leaders, ReadVault(l) PROVE RegistryInv'
  <2>1. vaults[l] \in Vault /\ vaults[l] # NoFee
    BY <1>0, <1>8 DEF ReadVault, RegistryTypeOK, Vault
  <2>2. /\ lookup' = [lookup EXCEPT ![l] = vaults[l].fee]
        /\ UNCHANGED <<config, listings, platform, vaults, quoted, suspended, reprices>>
    BY <1>8 DEF ReadVault, chainVars
  <2>3. /\ vaults[l].fee \in FeeLevels /\ vaults[l].fee \in Nat
        /\ vaults[l].fee <= MAX_WITHDRAW_FEE_BPS
    BY <1>0, <2>1 DEF Vault, Chain, VaultSound
  <2>4. /\ lookup' \in [Leaders -> FeeLevels \cup {NoFee}]
        /\ \A k \in Leaders : lookup'[k] = IF k = l THEN vaults[l].fee ELSE lookup[k]
    BY <1>0, <2>2, <2>3 DEF RegistryTypeOK
  <2>5. RegistryTypeOK'
    BY <1>0, <2>2, <2>4 DEF RegistryTypeOK, platformFromEnv
  <2>6. Chain' /\ Rows'
    BY <1>0, <2>2 DEF Chain, VaultSound, Rows, PaidFor, SuspensionsCounted
  <2>7. Knowledge'
    BY <1>0, <2>1, <2>2, <2>3, <2>4 DEF Knowledge, LookupSound, CacheSound
  <2>. QED
    BY <2>5, <2>6, <2>7 DEF RegistryInv
<1>9. ASSUME NEW l \in Leaders, NEW fee \in FeeLevels, set_vault_withdraw_fee(l, fee)
      PROVE RegistryInv'
  <2> DEFINE v == [vaults[l] EXCEPT !.fee = fee]
  <2>1. vaults[l] \in Vault /\ vaults[l] # NoFee
    BY <1>0, <1>9 DEF set_vault_withdraw_fee, RegistryTypeOK, Vault
  <2>2. v \in Vault /\ v.fee = fee /\ v.paid = vaults[l].paid
    BY <2>1 DEF Vault
  <2>3. /\ vaults' = [vaults EXCEPT ![l] = v]
        /\ fee <= vaults[l].fee
        /\ UNCHANGED <<config, listings, platform, quoted, lookup, suspended, reprices>>
    BY <1>9 DEF set_vault_withdraw_fee, FeeNotRaised
  <2> HIDE DEF v
  <2>4. v # NoFee /\ vaults[l].fee \in Nat /\ fee \in Nat
    BY <1>0, <2>1, <2>2, VaultsAreVaults DEF Vault
  <2>5. /\ vaults' \in [Leaders -> {NoFee} \cup Vault]
        /\ \A k \in Leaders : vaults'[k] = IF k = l THEN v ELSE vaults[k]
    BY <1>0, <2>2, <2>3 DEF RegistryTypeOK, Vault
  <2>6. RegistryTypeOK'
    BY <1>0, <2>3, <2>5 DEF RegistryTypeOK, Vault, platformFromEnv
  <2>7. Chain'
    <3>1. vaults[l].fee <= MAX_WITHDRAW_FEE_BPS /\ MAX_WITHDRAW_FEE_BPS \in Nat
      BY <1>0, <2>1 DEF Chain, VaultSound, MAX_WITHDRAW_FEE_BPS
    <3>2. fee <= MAX_WITHDRAW_FEE_BPS
      BY <3>1, <2>3, <2>4
    <3>. QED
      BY <1>0, <3>2, <2>1, <2>2, <2>3, <2>5 DEF Chain, VaultSound
  <2>8. Knowledge'
    <3> SUFFICES ASSUME NEW k \in Leaders PROVE (LookupSound(k) /\ CacheSound(k))'
      BY DEF Knowledge
    <3>1. LookupSound(k) /\ CacheSound(k)
      BY <1>0 DEF Knowledge
    <3>2. CASE k # l
      BY <3>1, <3>2, <2>3, <2>5 DEF LookupSound, CacheSound
    <3>3. CASE k = l
      <4>1. lookup[l] \in Nat \cup {NoFee}
        BY <1>0 DEF RegistryTypeOK
      <4>2. listings[l] # NoListing => listings[l].fee \in Nat \cup {NoFee}
        BY <1>0 DEF RegistryTypeOK
      <4>. QED
        BY <3>1, <3>3, <4>1, <4>2, <2>2, <2>3, <2>4, <2>5 DEF LookupSound, CacheSound
    <3>. QED
      BY <3>2, <3>3
  <2>9. Rows'
    BY <1>0, <2>1, <2>2, <2>3, <2>4, <2>5 DEF Rows, PaidFor, SuspensionsCounted
  <2>. QED
    BY <2>6, <2>7, <2>8, <2>9 DEF RegistryInv
<1>10. ASSUME NEW fee \in FeeLevels, NEW listingFee \in ListingFees,
              set_platform_params(fee, listingFee)
       PROVE RegistryInv'
  <2>1. /\ platform' = [fee |-> fee, listingFee |-> listingFee]
        /\ fee <= MAX_WITHDRAW_FEE_BPS
        /\ reprices < MaxReprices /\ reprices' = reprices + 1
        /\ UNCHANGED <<config, listings, vaults, quoted, lookup, suspended>>
    BY <1>10 DEF set_platform_params
  <2>2. RegistryTypeOK'
    BY <1>0, <2>1 DEF RegistryTypeOK, platformFromEnv
  <2>3. Chain'
    BY <1>0, <2>1 DEF Chain, VaultSound
  <2>4. Knowledge' /\ Rows'
    BY <1>0, <2>1 DEF Knowledge, LookupSound, CacheSound, Rows, PaidFor, SuspensionsCounted
  <2>. QED
    BY <2>2, <2>3, <2>4 DEF RegistryInv
<1>11. CASE UNCHANGED registryVars
  BY <1>0, <1>11 DEF registryVars, RegistryInv, RegistryTypeOK, platformFromEnv, Chain,
         VaultSound, Knowledge, LookupSound, CacheSound, Rows, PaidFor, SuspensionsCounted
<1>. QED
  BY <1>1, <1>2, <1>3, <1>4, <1>5, <1>6, <1>7, <1>8, <1>9, <1>10, <1>11
     DEF RegistryNext, approve, reject, delist, goLive

\* Rows, reads and vaults keep their types: every fee a row or a quote shows is
\* one somebody set (registry.ts:40-79).
THEOREM RegistryTypeCorrect == RegistrySpec => []RegistryTypeOK
<1>1. RegistryInv => RegistryTypeOK
  BY DEF RegistryInv
<1>. QED
  BY <1>1, RegistryStarts, RegistryKeeps, PTL DEF RegistrySpec

\* Whatever is repriced, lowered or read late, a row on the roster stands for a
\* vault that was paid for at no more than its lister signed, and records that
\* payment (registry.ts:134-165).
THEOREM RosterIsPaidFor == RegistrySpec => []OnlyThePaidAreLive
<1>1. RegistryInv => OnlyThePaidAreLive
  BY DEF RegistryInv, Chain, VaultSound, Rows, PaidFor, Listed, OnlyThePaidAreLive,
         roster, WithStatus, Listing
<1>. QED
  BY <1>1, RegistryStarts, RegistryKeeps, PTL DEF RegistrySpec

\* A lower fee takes fewer shares of an exit, whatever is rounded.
LEMMA DearerQuotesLess ==
    ASSUME NEW shares \in Nat, NEW a \in Nat, NEW b \in Nat, a <= b
    PROVE  quoteWithdrawal(shares, b) <= quoteWithdrawal(shares, a)
<1>1. PICK c \in Nat : c = BpsScale /\ c > 0
  BY DEF BpsScale
<1>2. shares * a \in Nat /\ shares * b \in Nat /\ shares * a <= shares * b
  BY ProductMono
<1>3. (shares * a) \div c <= (shares * b) \div c
  BY <1>1, <1>2, DivMono
<1>4. (shares * a) \div c \in Nat /\ (shares * b) \div c \in Nat
  BY <1>1, <1>2, DivNat
<1>. QED
  BY <1>1, <1>3, <1>4 DEF quoteWithdrawal, withdrawalFeeShares

\* A fee that is lowered between the read and the record leaves the cache dear,
\* never cheap: for no size of an exit does the page promise more shares than
\* the program burns into money (fees.ts:38-86).
THEOREM PagesNeverFlatter == RegistrySpec => []QuotesNeverFlatter
<1>1. RegistryInv => QuotesNeverFlatter
  <2> SUFFICES ASSUME RegistryInv, NEW l \in Listing, listings[l].fee # NoFee
               PROVE  /\ vaults[l] # NoFee
                      /\ vaults[l].fee <= maxWithdrawalCostBps(listings[l].fee)
                      /\ \A shares \in Redemptions :
                            quoteWithdrawal(shares, listings[l].fee)
                                <= quoteWithdrawal(shares, vaults[l].fee)
    BY DEF QuotesNeverFlatter
  <2>1. /\ l \in Leaders /\ listings[l] # NoListing
        /\ vaults[l] # NoFee
        /\ vaults[l].fee <= listings[l].fee
        /\ listings[l].fee <= MAX_WITHDRAW_FEE_BPS
    BY DEF RegistryInv, Knowledge, CacheSound, Listing
  <2>2. /\ vaults[l].fee \in FeeLevels
        /\ listings[l].fee \in FeeLevels
    BY <2>1 DEF RegistryInv, RegistryTypeOK
  <2>3. vaults[l].fee \in Nat /\ listings[l].fee \in Nat /\ Redemptions \subseteq Nat
    BY <2>2, RegistryAssumption
  <2>4. vaults[l].fee <= maxWithdrawalCostBps(listings[l].fee)
    BY <2>1, <2>3 DEF maxWithdrawalCostBps, MAX_WITHDRAW_FEE_BPS
  <2>. QED
    BY <2>1, <2>3, <2>4, DearerQuotesLess
<1>. QED
  BY <1>1, RegistryStarts, RegistryKeeps, PTL DEF RegistrySpec

\* The vaults that took a seat and kept it.
Seated == {l \in WithStatus("live") : suspended[l] = 0}

\* Only goLive adds to them, and only below the cap.
LEMMA SeatsAreTakenOneByOne ==
    ASSUME RegistryInv, [RegistryNext]_registryVars
    PROVE  \/ Seated' \subseteq Seated
           \/ liveCount < config.maxLiveVaults
              /\ \E l \in Leaders : Seated' \subseteq Seated \cup {l}
<1>0. RegistryTypeOK /\ listings \in [Leaders -> {NoListing} \cup Row]
  BY DEF RegistryInv, RegistryTypeOK, Row
<1>1. ASSUME NEW l \in Leaders, NEW to \in Statuses, to # "live",
             transition(l, to), \A k \in Leaders : suspended'[k] = 0 => suspended[k] = 0
      PROVE  Seated' \subseteq Seated
  <2>1. Moved(l, to)
    BY <1>0, <1>1, TransitionMoves
  <2>. QED
    BY <1>1, <2>1 DEF Moved, Seated, WithStatus, Listing
<1>2. ASSUME NEW l \in Leaders, goLive(l)
      PROVE  \/ Seated' \subseteq Seated
             \/ liveCount < config.maxLiveVaults /\ Seated' \subseteq Seated \cup {l}
  <2>1. "live" \in Statuses
    BY DEF Statuses
  <2>2. Moved(l, "live") /\ UNCHANGED suspended /\ HasRoom(l)
    BY <1>0, <1>2, <2>1, TransitionMoves DEF goLive
  <2>3. Seated' \subseteq Seated \cup {l}
    BY <2>2 DEF Moved, Seated, WithStatus, Listing
  <2>4. CASE listings[l].status = "suspended"
    <3>1. listings[l] # NoListing
      BY <2>2, RowsAreRows DEF Moved
    <3>2. suspended[l] > 0 /\ suspended[l] \in Nat
      BY <2>4, <3>1, <1>0, RegistryAssumption
         DEF RegistryInv, Rows, SuspensionsCounted, RegistryTypeOK
    <3>3. l \notin Seated'
      BY <2>2, <3>2 DEF Seated
    <3>. QED
      BY <2>3, <3>3
  <2>. QED
    BY <2>2, <2>3, <2>4 DEF HasRoom
<1>3. ASSUME NEW l \in Leaders, suspend(l) PROVE Seated' \subseteq Seated
  <2>1. "suspended" \in Statuses /\ transition(l, "suspended")
    BY <1>3 DEF Statuses, suspend
  <2>2. \A k \in Leaders : suspended'[k] = 0 => suspended[k] = 0
    BY <1>0, <1>3, RegistryAssumption DEF suspend, RegistryTypeOK
  <2>. QED
    BY <1>1, <2>1, <2>2
<1>4. ASSUME NEW l \in Leaders, approve(l) \/ reject(l) \/ delist(l)
      PROVE  Seated' \subseteq Seated
  BY <1>1, <1>4 DEF approve, reject, delist, Statuses
<1>5. ASSUME NEW l \in Leaders, apply(l) \/ recordListed(l) \/ reconcile(l)
      PROVE  Seated' \subseteq Seated
  <2>1. UNCHANGED suspended
    BY <1>5 DEF apply, recordListed, reconcile
  <2>2. \A k \in Leaders : k # l => listings'[k] = listings[k]
    BY <1>0, <1>5 DEF apply, recordListed, reconcile
  <2>3. \/ listings'[l].status \in {"applied", "listed"}
        \/ listings[l] # NoListing /\ listings'[l].status = listings[l].status
    <3>1. CASE apply(l)
      BY <1>0, <3>1 DEF apply
    <3>2. CASE recordListed(l)
      <4>1. listings[l] \in Row
        BY <1>0, <3>2 DEF recordListed, MayMove, Listing
      <4>. QED
        BY <1>0, <3>2, <4>1 DEF recordListed, Row
    <3>3. CASE reconcile(l)
      <4>1. listings[l] \in Row /\ listings[l] # NoListing
        BY <1>0, <3>3 DEF reconcile, Listing
      <4>. QED
        BY <1>0, <3>3, <4>1 DEF reconcile, Row
    <3>. QED
      BY <1>5, <3>1, <3>2, <3>3
  <2>. QED
    BY <2>1, <2>2, <2>3 DEF Seated, WithStatus, Listing
<1>6. CASE UNCHANGED <<listings, suspended>>
  BY <1>6 DEF Seated, WithStatus, Listing
<1>7. ASSUME NEW l \in Leaders,
             \/ quoteListing(l) \/ initialize_vault(l) \/ ReadVault(l)
             \/ \E fee \in FeeLevels : set_vault_withdraw_fee(l, fee)
      PROVE  UNCHANGED <<listings, suspended>>
  BY <1>7 DEF quoteListing, initialize_vault, ReadVault, set_vault_withdraw_fee
<1>8. ASSUME NEW fee \in FeeLevels, NEW listingFee \in ListingFees,
             set_platform_params(fee, listingFee)
      PROVE  UNCHANGED <<listings, suspended>>
  BY <1>8 DEF set_platform_params
<1>9. CASE UNCHANGED registryVars
  BY <1>9 DEF registryVars, Seated, WithStatus, Listing
<1>. QED
  BY <1>2, <1>3, <1>4, <1>5, <1>6, <1>7, <1>8, <1>9 DEF RegistryNext

\* The cap holds for every number of leaders: goLive counts every live vault
\* before it seats one more, and a resumed vault is not one that kept its seat
\* (registry.ts:180-190).
THEOREM CapHolds == RegistrySpec => []SeatsWithinCap
<1>1. RegistryInit => SeatsWithinCap
  <2> SUFFICES ASSUME RegistryInit PROVE Cardinality(Seated) <= config.maxLiveVaults
    BY DEF SeatsWithinCap, Seated
  <2>1. Seated = {}
    BY DEF RegistryInit, Seated, WithStatus, Listing
  <2>2. config.maxLiveVaults \in Int /\ config.maxLiveVaults >= 1
    BY RegistryAssumption DEF RegistryInit, platformFromEnv, validatePlatformConfig
  <2>. QED
    BY <2>1, <2>2, FS_EmptySet
<1>2. SeatsWithinCap /\ RegistryInv /\ [RegistryNext]_registryVars => SeatsWithinCap'
  <2> SUFFICES ASSUME SeatsWithinCap, RegistryInv, [RegistryNext]_registryVars
               PROVE  SeatsWithinCap'
    OBVIOUS
  <2>1. PICK cap \in Int : cap = config.maxLiveVaults /\ cap = config'.maxLiveVaults
    <3>1. config.maxLiveVaults \in Int
      BY RegistryAssumption DEF RegistryInv, RegistryTypeOK, platformFromEnv
    <3>2. config' = config
      BY DEF RegistryNext, registryVars, apply, approve, reject, delist, suspend, goLive,
             transition, recordListed, reconcile, quoteListing, initialize_vault, ReadVault,
             set_vault_withdraw_fee, set_platform_params
    <3>. QED
      BY <3>1, <3>2
  <2>2. /\ IsFiniteSet(Seated) /\ IsFiniteSet(WithStatus("live"))
        /\ Seated \subseteq WithStatus("live")
    <3>1. /\ Seated \subseteq WithStatus("live")
          /\ WithStatus("live") \subseteq Leaders
      BY DEF Seated, WithStatus, Listing
    <3>. QED
      BY <3>1, FS_Subset, RegistryAssumption
  <2>3. /\ Cardinality(Seated) \in Nat
        /\ Cardinality(Seated) <= liveCount /\ liveCount \in Nat
    BY <2>2, FS_Subset, FS_CardinalityType DEF liveCount
  <2>4. Cardinality(Seated) <= cap
    BY <2>1 DEF SeatsWithinCap, Seated
  <2>5. CASE Seated' \subseteq Seated
    <3>1. Cardinality(Seated') <= Cardinality(Seated) /\ Cardinality(Seated') \in Nat
      BY <2>2, <2>5, FS_Subset, FS_CardinalityType
    <3>2. Cardinality(Seated') <= cap
      BY <3>1, <2>3, <2>4
    <3>. QED
      BY <3>2, <2>1 DEF SeatsWithinCap, Seated
  <2>6. ASSUME NEW l \in Leaders, liveCount < config.maxLiveVaults,
               Seated' \subseteq Seated \cup {l}
        PROVE  SeatsWithinCap'
    <3>1. /\ IsFiniteSet(Seated \cup {l})
          /\ Cardinality(Seated \cup {l}) \in Nat
          /\ Cardinality(Seated \cup {l}) <= Cardinality(Seated) + 1
      <4>1. /\ IsFiniteSet(Seated \cup {l})
            /\ \/ Cardinality(Seated \cup {l}) = Cardinality(Seated)
               \/ Cardinality(Seated \cup {l}) = Cardinality(Seated) + 1
        BY <2>2, FS_AddElement
      <4>. QED
        BY <4>1, <2>3
    <3>2. Cardinality(Seated') <= Cardinality(Seated \cup {l}) /\ Cardinality(Seated') \in Nat
      BY <2>6, <3>1, FS_Subset, FS_CardinalityType
    <3>3. Cardinality(Seated') <= cap
      BY <2>1, <2>3, <2>6, <3>1, <3>2
    <3>. QED
      BY <3>3, <2>1 DEF SeatsWithinCap, Seated
  <2>. QED
    BY <2>5, <2>6, SeatsAreTakenOneByOne
<1>. QED
  BY <1>1, <1>2, RegistryStarts, RegistryKeeps, PTL DEF RegistrySpec

----------------------------------------------------------------------------
(* The inbox: what its table, its requests and its pages know of each other *)

AppRow == [id: 0..MaxSubmits, createdAt: 0..MaxTime, status: LeadStatuses,
           bookedAt: 0..MaxTime \cup {NoTime}, answers: Answers]
Sent == [state: {"sent"}, id: 0..MaxSubmits, address: Addresses, answers: Answers]
Ids == 0..MaxSubmits \cup {NoId}
Codes == {201, 400, 429}
AnsweredRequest ==
    [state: {"answered"}, id: Ids, code: Codes, body: BOOLEAN]
Page == [phase: {"form", "sent"}, busy: BOOLEAN, errors: BOOLEAN, offline: BOOLEAN,
         id: Ids]

LEMMA ApplicationsAreRows ==
    ASSUME NEW r \in AppRow
    PROVE  r # NoRow
<1>1. r \in [id: Nat, createdAt: Nat, status: LeadStatuses, bookedAt: Nat \cup {NoTime},
            answers: Answers]
  BY InboxAssumption DEF AppRow
<1>. QED
  BY <1>1, InboxAssumption

\* Some row carries this id.
Recorded(id) == \E a \in Applied : rows[a].id = id

\* An answer that says so speaks of a row; the page repeats it.
AnswerSound(t) ==
    requests[t] \in AnsweredRequest /\ requests[t].code = 201 => Recorded(requests[t].id)
PageSound(t) == page[t].phase = "sent" /\ ~page[t].offline => Recorded(page[t].id)
TabsSound == \A t \in Tabs : AnswerSound(t) /\ PageSound(t)

InboxInv == InboxTypeOK /\ TabsSound

LEMMA InboxStarts == InboxInit => InboxInv
<1> SUFFICES ASSUME InboxInit PROVE InboxInv
  OBVIOUS
<1>1. InboxTypeOK
  BY InboxAssumption DEF InboxInit, InboxTypeOK, FreshPage
<1>2. NoRequest \notin AnsweredRequest
  BY DEF NoRequest, AnsweredRequest
<1>3. TabsSound
  BY <1>2 DEF InboxInit, TabsSound, AnswerSound, PageSound, FreshPage
<1>. QED
  BY <1>1, <1>3 DEF InboxInv

\* Rows are never dropped and keep their ids and their place in time.
RowsStay ==
    \A a \in Applied :
        a \in Applied' /\ rows'[a].id = rows[a].id /\ rows'[a].createdAt = rows[a].createdAt

LEMMA RecordsStay ==
    ASSUME RowsStay
    PROVE  \A id : Recorded(id) => Recorded(id)'
  BY DEF RowsStay, Recorded

\* What Store writes: the row that was there with its answers corrected, or the
\* new one.
LEMMA UpsertKeeps ==
    ASSUME InboxTypeOK, NEW r \in Sent
    PROVE  LET row == Upserted(r.address, createApplication(r)) IN
           /\ row \in AppRow
           /\ rows[r.address] = NoRow => row.createdAt = now
           /\ rows[r.address] # NoRow =>
                 /\ row.id = rows[r.address].id
                 /\ row.createdAt = rows[r.address].createdAt
                 /\ row.status = rows[r.address].status
                 /\ row.bookedAt = rows[r.address].bookedAt
<1>1. rows[r.address] \in {NoRow} \cup AppRow /\ now \in 0..MaxTime
  BY DEF InboxTypeOK, AppRow, Sent
<1>2. CASE rows[r.address] = NoRow
  BY <1>1, <1>2 DEF Upserted, createApplication, AppRow, Sent, LeadStatuses
<1>3. CASE rows[r.address] # NoRow
  BY <1>1, <1>3 DEF Upserted, createApplication, AppRow, Sent
<1>. QED
  BY <1>2, <1>3

LEMMA StoreUpserts ==
    ASSUME InboxTypeOK, NEW t \in Tabs, Store(t)
    PROVE  \E a \in Addresses, row \in AppRow :
              /\ rows' = [rows EXCEPT ![a] = row]
              /\ rows[a] = NoRow => row.createdAt = now
              /\ rows[a] # NoRow =>
                    /\ row.id = rows[a].id
                    /\ row.createdAt = rows[a].createdAt
                    /\ row.status = rows[a].status
                    /\ row.bookedAt = rows[a].bookedAt
              /\ applicationsSince(now - Hour) < APPLICATIONS_PER_HOUR
              /\ Answer(t, row.id, 201)
              /\ UNCHANGED <<now, page, submits>>
<1> DEFINE r == requests[t]
           row == Upserted(r.address, createApplication(r))
<1>1. r \in Sent
  BY DEF Store, InboxTypeOK, Sent, NoRequest
<1>2. r.address \in Addresses
  BY <1>1 DEF Sent
<1>3. /\ row \in AppRow
      /\ rows[r.address] = NoRow => row.createdAt = now
      /\ rows[r.address] # NoRow =>
            /\ row.id = rows[r.address].id
            /\ row.createdAt = rows[r.address].createdAt
            /\ row.status = rows[r.address].status
            /\ row.bookedAt = rows[r.address].bookedAt
  BY <1>1, UpsertKeeps
<1>4. /\ rows' = [rows EXCEPT ![r.address] = row]
      /\ applicationsSince(now - Hour) < APPLICATIONS_PER_HOUR
      /\ Answer(t, row.id, 201)
      /\ UNCHANGED <<now, page, submits>>
  BY DEF Store
<1> HIDE DEF r, row
<1>. QED
  BY <1>2, <1>3, <1>4

\* The operator's hand touches a status and a first booking.
LEMMA HandKeeps ==
    ASSUME InboxTypeOK, NEW id, NEW status \in ByHand, setApplicationStatus(id, status)
    PROVE  /\ rows' \in [Addresses -> {NoRow} \cup AppRow]
           /\ \A a \in Applied :
                 /\ rows'[a] # NoRow
                 /\ rows'[a].id = rows[a].id
                 /\ rows'[a].createdAt = rows[a].createdAt
                 /\ rows[a].bookedAt # NoTime => rows'[a].bookedAt = rows[a].bookedAt
           /\ \A a \in Addresses : rows[a] = NoRow => rows'[a] = NoRow
<1> DEFINE Edited(row) ==
               [row EXCEPT !.status = status,
                           !.bookedAt = IF status = "booked" /\ @ = NoTime THEN now ELSE @]
<1>1. /\ rows \in [Addresses -> {NoRow} \cup AppRow] /\ now \in 0..MaxTime
      /\ status \in LeadStatuses
  BY InboxAssumption DEF InboxTypeOK, AppRow
<1>2. ASSUME NEW row \in AppRow
      PROVE  /\ Edited(row) \in AppRow
             /\ Edited(row).id = row.id
             /\ Edited(row).createdAt = row.createdAt
             /\ row.bookedAt # NoTime => Edited(row).bookedAt = row.bookedAt
  BY <1>1 DEF AppRow
<1>3. rows' = [a \in Addresses |-> IF a \notin Applied \/ rows[a].id # id THEN rows[a]
                                  ELSE Edited(rows[a])]
  BY DEF setApplicationStatus
<1>4. \A a \in Addresses : rows'[a] = rows[a] \/ (a \in Applied /\ rows'[a] = Edited(rows[a]))
  BY <1>3
<1>5. \A a \in Applied : rows[a] \in AppRow
  BY <1>1 DEF Applied
<1> HIDE DEF Edited
<1>6. \A a \in Addresses : rows'[a] \in {NoRow} \cup AppRow
  BY <1>1, <1>2, <1>4, <1>5
<1>7. rows' \in [Addresses -> {NoRow} \cup AppRow]
  BY <1>3, <1>6
<1>8. \A a \in Applied :
          /\ rows'[a] # NoRow
          /\ rows'[a].id = rows[a].id
          /\ rows'[a].createdAt = rows[a].createdAt
          /\ rows[a].bookedAt # NoTime => rows'[a].bookedAt = rows[a].bookedAt
  BY <1>2, <1>4, <1>5, ApplicationsAreRows DEF Applied
<1>. QED
  BY <1>4, <1>7, <1>8 DEF Applied

\* No step drops a row, changes its id or its place in time.
LEMMA StepsKeepRows ==
    ASSUME InboxTypeOK, [InboxNext]_inboxVars
    PROVE  RowsStay
<1>1. ASSUME NEW t \in Tabs, Store(t) PROVE RowsStay
  <2>1. PICK a \in Addresses, row \in AppRow :
              /\ rows' = [rows EXCEPT ![a] = row]
              /\ rows[a] # NoRow => row.id = rows[a].id /\ row.createdAt = rows[a].createdAt
    BY <1>1, StoreUpserts
  <2>2. \A b \in Addresses : rows'[b] = IF b = a THEN row ELSE rows[b]
    BY <2>1 DEF InboxTypeOK
  <2>. QED
    BY <2>1, <2>2, ApplicationsAreRows DEF RowsStay, Applied
<1>2. ASSUME NEW id, NEW status \in ByHand, setApplicationStatus(id, status) PROVE RowsStay
  BY <1>2, HandKeeps DEF RowsStay, Applied
<1>3. CASE UNCHANGED rows
  BY <1>3 DEF RowsStay, Applied
<1>. QED
  BY <1>1, <1>2, <1>3 DEF InboxNext, inboxVars, Submit, Answered, Unreachable, Reload, Refuse,
                          InboxTick

\* What a page becomes once its request is settled.
LEMMA SettlingKeeps ==
    ASSUME InboxTypeOK, NEW t \in Tabs, NEW p \in Page, Settled(t, p),
           requests' = [requests EXCEPT ![t] = NoRequest]
    PROVE  /\ page' \in [Tabs -> Page]
           /\ page'[t].phase = p.phase /\ page'[t].offline = p.offline /\ page'[t].id = p.id
           /\ requests' \in [Tabs -> {NoRequest} \cup Sent \cup AnsweredRequest]
           /\ requests'[t] = NoRequest
           /\ \A u \in Tabs : u # t => page'[u] = page[u] /\ requests'[u] = requests[u]
<1> DEFINE q == [p EXCEPT !.busy = FALSE]
<1>1. q \in Page /\ q.phase = p.phase /\ q.offline = p.offline /\ q.id = p.id
  BY DEF Page
<1>2. page' = [page EXCEPT ![t] = q]
  BY DEF Settled
<1> HIDE DEF q
<1>. QED
  BY <1>1, <1>2 DEF InboxTypeOK, Page, Sent, AnsweredRequest, Ids, Codes

\* What the server answers.
LEMMA AnswerKeeps ==
    ASSUME InboxTypeOK, NEW t \in Tabs, NEW id \in Ids,
           NEW code \in Codes, Answer(t, id, code)
    PROVE  /\ requests' \in [Tabs -> {NoRequest} \cup Sent \cup AnsweredRequest]
           /\ requests'[t].id = id /\ requests'[t].code = code
           /\ \A u \in Tabs : u # t => requests'[u] = requests[u]
<1>1. PICK body \in BOOLEAN :
          requests' = [requests EXCEPT ![t] =
              [state |-> "answered", id |-> id, code |-> code, body |-> body]]
  BY DEF Answer
<1> DEFINE r == [state |-> "answered", id |-> id, code |-> code, body |-> body]
<1>2. r \in AnsweredRequest /\ r.id = id /\ r.code = code
  BY DEF AnsweredRequest
<1>3. requests' = [requests EXCEPT ![t] = r]
  BY <1>1
<1> HIDE DEF r
<1>. QED
  BY <1>2, <1>3 DEF InboxTypeOK, Sent, AnsweredRequest, Ids, Codes

LEMMA InboxKeeps == InboxInv /\ [InboxNext]_inboxVars => InboxInv'
<1> SUFFICES ASSUME InboxInv, [InboxNext]_inboxVars PROVE InboxInv'
  OBVIOUS
<1>0. /\ InboxTypeOK /\ TabsSound
      /\ rows \in [Addresses -> {NoRow} \cup AppRow]
      /\ page \in [Tabs -> Page]
      /\ requests \in [Tabs -> {NoRequest} \cup Sent \cup AnsweredRequest]
      /\ \A id : Recorded(id) => Recorded(id)'
  BY StepsKeepRows, RecordsStay DEF InboxInv, InboxTypeOK, AppRow, Page, Sent, AnsweredRequest, Ids, Codes
<1>1. ASSUME now' \in 0..MaxTime, submits' \in 0..MaxSubmits,
             rows' \in [Addresses -> {NoRow} \cup AppRow],
             page' \in [Tabs -> Page],
             requests' \in [Tabs -> {NoRequest} \cup Sent \cup AnsweredRequest],
             NEW t, \A u \in Tabs : u # t => page'[u] = page[u] /\ requests'[u] = requests[u],
             t \in Tabs => AnswerSound(t)' /\ PageSound(t)'
      PROVE  InboxInv'
  <2>1. InboxTypeOK'
    BY <1>1 DEF InboxTypeOK, AppRow, Page, Sent, AnsweredRequest, NoRequest, Ids, Codes
  <2>2. ASSUME NEW u \in Tabs PROVE AnswerSound(u)' /\ PageSound(u)'
    <3>1. CASE u = t
      BY <1>1, <3>1
    <3>2. CASE u # t
      <4>1. page'[u] = page[u] /\ requests'[u] = requests[u]
        BY <1>1, <3>2
      <4>2. AnswerSound(u) /\ PageSound(u)
        BY <1>0 DEF TabsSound
      <4>3. AnswerSound(u)'
        BY <1>0, <4>1, <4>2 DEF AnswerSound, AnsweredRequest
      <4>4. PageSound(u)'
        BY <1>0, <4>1, <4>2 DEF PageSound
      <4>. QED
        BY <4>3, <4>4
    <3>. QED
      BY <3>1, <3>2
  <2>. QED
    BY <2>1, <2>2 DEF InboxInv, TabsSound
<1>2. now \in 0..MaxTime /\ submits \in 0..MaxSubmits /\ MaxSubmits \in Nat /\ MaxTime \in Nat
  BY <1>0, InboxAssumption DEF InboxTypeOK
<1>3. ASSUME NEW t \in Tabs, NEW a \in Addresses, NEW answers \in Answers, Submit(t, a, answers)
      PROVE  InboxInv'
  <2> DEFINE p == [[page[t] EXCEPT !.busy = TRUE] EXCEPT !.errors = FALSE]
             r == [state |-> "sent", id |-> submits, address |-> a, answers |-> answers]
  <2>1. p \in Page /\ p.phase = "form" /\ r \in Sent
    BY <1>0, <1>2, <1>3 DEF Submit, Page, Sent
  <2>2. page' = [page EXCEPT ![t] = p]
    BY <1>0, <1>3 DEF Submit
  <2>3. /\ requests' = [requests EXCEPT ![t] = r]
        /\ submits < MaxSubmits /\ submits' = submits + 1
        /\ UNCHANGED <<now, rows>>
    BY <1>3 DEF Submit
  <2>4. r \notin AnsweredRequest
    BY DEF AnsweredRequest
  <2> HIDE DEF p, r
  <2>5. /\ page' \in [Tabs -> Page] /\ page'[t] = p
        /\ requests' \in [Tabs -> {NoRequest} \cup Sent \cup AnsweredRequest]
        /\ requests'[t] = r
        /\ \A u \in Tabs : u # t => page'[u] = page[u] /\ requests'[u] = requests[u]
    BY <1>0, <2>1, <2>2, <2>3
  <2>. QED
    <3>1. AnswerSound(t)' /\ PageSound(t)'
      BY <2>1, <2>4, <2>5 DEF AnswerSound, PageSound
    <3>. QED
      BY <1>0, <1>1, <1>2, <2>3, <2>5, <3>1
<1>4. ASSUME NEW t \in Tabs, NEW p \in Page, Settled(t, p),
             requests' = [requests EXCEPT ![t] = NoRequest],
             UNCHANGED <<now, rows, submits>>,
             p.phase = "sent" /\ ~p.offline => Recorded(p.id)
      PROVE  InboxInv'
  <2>1. /\ page' \in [Tabs -> Page]
        /\ page'[t].phase = p.phase /\ page'[t].offline = p.offline /\ page'[t].id = p.id
        /\ requests' \in [Tabs -> {NoRequest} \cup Sent \cup AnsweredRequest]
        /\ requests'[t] = NoRequest
        /\ \A u \in Tabs : u # t => page'[u] = page[u] /\ requests'[u] = requests[u]
    BY <1>0, <1>4, SettlingKeeps
  <2>2. NoRequest \notin AnsweredRequest
    BY DEF NoRequest, AnsweredRequest
  <2>3. AnswerSound(t)'
    BY <2>1, <2>2 DEF AnswerSound
  <2>4. PageSound(t)'
    <3>1. page'[t].phase = "sent" /\ ~page'[t].offline => Recorded(p.id)'
      BY <1>0, <1>4, <2>1
    <3>. QED
      BY <2>1, <3>1 DEF PageSound
  <2>. QED
    BY <1>0, <1>1, <1>2, <1>4, <2>1, <2>3, <2>4
<1>5. ASSUME NEW t \in Tabs, Answered(t) PROVE InboxInv'
  <2>1. requests[t] \in AnsweredRequest /\ page[t] \in Page
    BY <1>0, <1>5 DEF Answered, NoRequest, Sent
  <2> DEFINE received == [page[t] EXCEPT !.phase = "sent", !.offline = FALSE, !.id = requests[t].id]
             refused == [page[t] EXCEPT !.errors = TRUE]
  <2>2. /\ received \in Page /\ received.id = requests[t].id
        /\ refused \in Page /\ refused.phase = page[t].phase
        /\ (refused.offline <=> page[t].offline) /\ refused.id = page[t].id
    <3>1. received \in Page /\ received.id = requests[t].id
      <4>1. PICK id \in Ids : id = requests[t].id
        BY <2>1 DEF AnsweredRequest
      <4>2. received = [page[t] EXCEPT !.phase = "sent", !.offline = FALSE, !.id = id]
        BY <4>1
      <4>3. [page[t] EXCEPT !.phase = "sent", !.offline = FALSE, !.id = id] \in Page
        BY <2>1 DEF Page
      <4>4. [page[t] EXCEPT !.phase = "sent", !.offline = FALSE, !.id = id].id = id
        BY <2>1 DEF Page
      <4>. QED
        BY <4>1, <4>2, <4>3, <4>4
    <3>2. refused \in Page /\ refused.phase = page[t].phase /\ refused.id = page[t].id
      BY <2>1 DEF Page
    <3>3. refused.offline <=> page[t].offline
      BY <2>1 DEF Page
    <3>. QED
      BY <3>1, <3>2, <3>3
  <2>3. /\ \/ requests[t].code = 201 /\ Settled(t, received)
           \/ Settled(t, refused)
        /\ requests' = [requests EXCEPT ![t] = NoRequest]
        /\ UNCHANGED <<now, rows, submits>>
    BY <1>5 DEF Answered, Accepts
  <2>4. requests[t].code = 201 => Recorded(received.id)
    BY <1>0, <2>1, <2>2 DEF TabsSound, AnswerSound
  <2>5. refused.phase = "sent" /\ ~refused.offline => Recorded(refused.id)
    BY <1>0, <2>2 DEF TabsSound, PageSound
  <2> HIDE DEF received, refused
  <2>. QED
    BY <1>4, <2>2, <2>3, <2>4, <2>5
<1>6. ASSUME NEW t \in Tabs, Unreachable(t) PROVE InboxInv'
  <2> DEFINE p == [page[t] EXCEPT !.phase = "sent", !.offline = TRUE, !.errors = TRUE]
  <2>1. p \in Page /\ p.offline = TRUE
    BY <1>0 DEF Page
  <2>2. /\ Settled(t, p)
        /\ requests' = [requests EXCEPT ![t] = NoRequest]
        /\ UNCHANGED <<now, rows, submits>>
    BY <1>6 DEF Unreachable
  <2> HIDE DEF p
  <2>. QED
    BY <1>4, <2>1, <2>2
<1>7. ASSUME NEW t \in Tabs, Reload(t) PROVE InboxInv'
  <2>1. FreshPage \in Page /\ FreshPage.phase = "form"
    BY DEF FreshPage, Page, Ids
  <2>2. page' = [page EXCEPT ![t] = FreshPage] /\ UNCHANGED <<now, rows, requests, submits>>
    BY <1>7 DEF Reload
  <2>3. /\ page' \in [Tabs -> Page] /\ page'[t] = FreshPage
        /\ \A u \in Tabs : u # t => page'[u] = page[u]
    BY <1>0, <2>1, <2>2
  <2>4. AnswerSound(t)'
    BY <1>0, <2>2 DEF TabsSound, AnswerSound
  <2>5. PageSound(t)'
    BY <2>1, <2>3 DEF PageSound
  <2>. QED
    BY <1>0, <1>1, <1>2, <2>2, <2>3, <2>4, <2>5
<1>8. ASSUME NEW t \in Tabs, NEW id \in Ids, NEW code \in Codes,
             Answer(t, id, code), code = 201 => \E a \in Addresses : rows'[a] # NoRow /\ rows'[a].id = id,
             rows' \in [Addresses -> {NoRow} \cup AppRow],
             UNCHANGED <<now, page, submits>>
      PROVE  InboxInv'
  <2>1. /\ requests' \in [Tabs -> {NoRequest} \cup Sent \cup AnsweredRequest]
        /\ requests'[t].id = id /\ requests'[t].code = code
        /\ \A u \in Tabs : u # t => requests'[u] = requests[u]
    BY <1>0, <1>8, AnswerKeeps
  <2>2. PageSound(t)'
    BY <1>0, <1>8 DEF TabsSound, PageSound
  <2>3. AnswerSound(t)'
    BY <1>8, <2>1 DEF AnswerSound, Recorded, Applied
  <2>. QED
    BY <1>0, <1>1, <1>2, <1>8, <2>1, <2>2, <2>3
<1>9. ASSUME NEW t \in Tabs, Refuse(t) PROVE InboxInv'
  <2>1. /\ Answer(t, NoId, 400) \/ Answer(t, NoId, 429)
        /\ UNCHANGED <<now, rows, page, submits>>
    BY <1>9 DEF Refuse
  <2>2. rows' \in [Addresses -> {NoRow} \cup AppRow]
    BY <1>0, <2>1
  <2>3. PICK code \in {400, 429} : Answer(t, NoId, code)
    BY <2>1
  <2>4. code \in Codes /\ code # 201 /\ NoId \in Ids
    BY DEF Codes, Ids
  <2>. QED
    BY <1>8, <2>1, <2>2, <2>3, <2>4
<1>10. ASSUME NEW t \in Tabs, Store(t) PROVE InboxInv'
  <2>1. PICK a \in Addresses, row \in AppRow :
              /\ rows' = [rows EXCEPT ![a] = row]
              /\ Answer(t, row.id, 201)
              /\ UNCHANGED <<now, page, submits>>
    BY <1>0, <1>10, StoreUpserts
  <2>2. rows' \in [Addresses -> {NoRow} \cup AppRow] /\ rows'[a] = row
    BY <1>0, <2>1
  <2>3. rows'[a] # NoRow /\ rows'[a].id = row.id
    BY <2>2, ApplicationsAreRows
  <2>4. row.id \in Ids /\ 201 \in Codes
    BY DEF AppRow, Ids, Codes
  <2>. QED
    BY <1>8, <2>1, <2>2, <2>3, <2>4
<1>11. ASSUME NEW id, NEW status \in ByHand, setApplicationStatus(id, status) PROVE InboxInv'
  <2>1. rows' \in [Addresses -> {NoRow} \cup AppRow]
    BY <1>0, <1>11, HandKeeps
  <2>2. UNCHANGED <<now, page, requests, submits>>
    BY <1>11 DEF setApplicationStatus
  <2>3. ASSUME NEW t \in Tabs
        PROVE AnswerSound(t)' /\ PageSound(t)'
    <3>1. AnswerSound(t)'
      BY <1>0, <2>2 DEF TabsSound, AnswerSound
    <3>2. PageSound(t)'
      BY <1>0, <2>2 DEF TabsSound, PageSound
    <3>. QED
      BY <3>1, <3>2
  <2>. QED
    BY <1>0, <1>1, <1>2, <2>1, <2>2, <2>3
<1>12. CASE InboxTick \/ UNCHANGED inboxVars
  <2>1. UNCHANGED <<rows, page, requests, submits>> /\ now' \in 0..MaxTime
    BY <1>2, <1>12 DEF InboxTick, inboxVars
  <2>2. ASSUME NEW t \in Tabs
        PROVE AnswerSound(t)' /\ PageSound(t)'
    <3>1. AnswerSound(t)'
      BY <1>0, <2>1 DEF TabsSound, AnswerSound
    <3>2. PageSound(t)'
      BY <1>0, <2>1 DEF TabsSound, PageSound
    <3>. QED
      BY <3>1, <3>2
  <2>. QED
    BY <1>0, <1>1, <1>2, <2>1, <2>2
<1>. QED
  BY <1>3, <1>5, <1>6, <1>7, <1>9, <1>10, <1>11, <1>12 DEF InboxNext

\* Times, ids and statuses stay what the table and the form may hold, whatever
\* answers are lost (store.ts:97-116, ApplyPage.tsx:55-63).
THEOREM InboxTypeCorrect == InboxSpec => []InboxTypeOK
<1>1. InboxInv => InboxTypeOK
  BY DEF InboxInv
<1>. QED
  BY <1>1, InboxStarts, InboxKeeps, PTL DEF InboxSpec

\* A page that says an application was received is right, for every interleaving
\* of tabs, lost answers, corrections and the operator's hand (ApplyPage.tsx:99-112).
THEOREM ReceivedMeansRecorded == InboxSpec => []ReceivedIsRecorded
<1>1. InboxInv => ReceivedIsRecorded
  BY DEF InboxInv, TabsSound, PageSound, Recorded, ReceivedIsRecorded
<1>. QED
  BY <1>1, InboxStarts, InboxKeeps, PTL DEF InboxSpec

\* A second application corrects the answers of the first and nothing else
\* (store.ts:266-273).
THEOREM LeadsAreKept == InboxSpec => LeadsSurvive
<1> DEFINE Survive ==
               \A a \in Applied :
                   /\ rows'[a].id = rows[a].id
                   /\ rows'[a].createdAt = rows[a].createdAt
                   /\ rows[a].bookedAt # NoTime => rows'[a].bookedAt = rows[a].bookedAt
                   /\ requests' # requests => rows'[a].status = rows[a].status
<1>1. InboxTypeOK /\ [InboxNext]_inboxVars => [Survive]_inboxVars
  <2> SUFFICES ASSUME InboxTypeOK, InboxNext PROVE Survive
    OBVIOUS
  <2>1. ASSUME NEW t \in Tabs, Store(t) PROVE Survive
    <3>1. PICK a \in Addresses, row \in AppRow :
                /\ rows' = [rows EXCEPT ![a] = row]
                /\ rows[a] # NoRow =>
                      /\ row.id = rows[a].id
                      /\ row.createdAt = rows[a].createdAt
                      /\ row.status = rows[a].status
                      /\ row.bookedAt = rows[a].bookedAt
      BY <2>1, StoreUpserts
    <3>2. \A b \in Addresses : rows'[b] = IF b = a THEN row ELSE rows[b]
      BY <3>1 DEF InboxTypeOK
    <3>. QED
      BY <3>1, <3>2 DEF Applied
  <2>2. ASSUME NEW id, NEW status \in ByHand, setApplicationStatus(id, status) PROVE Survive
    <3>1. requests' = requests
      BY <2>2 DEF setApplicationStatus
    <3>. QED
      BY <2>2, <3>1, HandKeeps
  <2>3. CASE UNCHANGED rows
    BY <2>3
  <2>. QED
    BY <2>1, <2>2, <2>3 DEF InboxNext, Submit, Answered, Unreachable, Reload, Refuse, InboxTick
<1>. QED
  BY <1>1, InboxTypeCorrect, PTL DEF InboxSpec, LeadsSurvive

\* New rows of the hour that begins at a moment.
RowsOfHour(start) == {a \in Applied : rows[a].createdAt \in start..(start + Hour)}

\* A new row was let in because the hour before it had room for one more.
LEMMA NewRowsFindRoom ==
    ASSUME InboxTypeOK, [InboxNext]_inboxVars, NEW start \in 0..MaxTime
    PROVE  \/ RowsOfHour(start)' \subseteq RowsOfHour(start)
           \/ /\ Cardinality(RowsOfHour(start)) < APPLICATIONS_PER_HOUR
              /\ \E a \in Addresses : RowsOfHour(start)' \subseteq RowsOfHour(start) \cup {a}
<1>0. /\ rows \in [Addresses -> {NoRow} \cup AppRow] /\ now \in Nat
      /\ {MaxTime, Hour, APPLICATIONS_PER_HOUR} \subseteq Nat /\ IsFiniteSet(Addresses)
  BY InboxAssumption DEF InboxTypeOK, AppRow
<1>1. ASSUME NEW t \in Tabs, Store(t)
      PROVE  \/ RowsOfHour(start)' \subseteq RowsOfHour(start)
             \/ /\ Cardinality(RowsOfHour(start)) < APPLICATIONS_PER_HOUR
                /\ \E a \in Addresses : RowsOfHour(start)' \subseteq RowsOfHour(start) \cup {a}
  <2>1. PICK a \in Addresses, row \in AppRow :
              /\ rows' = [rows EXCEPT ![a] = row]
              /\ rows[a] = NoRow => row.createdAt = now
              /\ rows[a] # NoRow => row.createdAt = rows[a].createdAt
              /\ applicationsSince(now - Hour) < APPLICATIONS_PER_HOUR
    BY <1>1, StoreUpserts
  <2>2. \A b \in Addresses : rows'[b] = IF b = a THEN row ELSE rows[b]
    BY <1>0, <2>1
  <2>3. RowsOfHour(start)' \subseteq RowsOfHour(start) \cup {a}
    BY <2>2 DEF RowsOfHour, Applied
  <2>4. CASE rows[a] # NoRow \/ now \notin start..(start + Hour)
    BY <2>1, <2>2, <2>4 DEF RowsOfHour, Applied
  <2>5. CASE now \in start..(start + Hour)
    <3> DEFINE Lately == {b \in Applied : rows[b].createdAt >= now - Hour}
    <3>1. \A b \in Applied : rows[b].createdAt \in Nat
      BY <1>0 DEF Applied, AppRow
    <3>2. start \in Nat /\ now - Hour <= start
      BY <1>0, <2>5
    <3>3. RowsOfHour(start) \subseteq Lately
      BY <1>0, <3>1, <3>2 DEF RowsOfHour
    <3>4. Lately \subseteq Addresses
      BY DEF Applied
    <3>5. /\ Cardinality(Lately) \in Nat
          /\ Cardinality(RowsOfHour(start)) \in Nat
          /\ Cardinality(RowsOfHour(start)) <= Cardinality(Lately)
      BY <1>0, <3>3, <3>4, FS_Subset, FS_CardinalityType
    <3>6. Cardinality(Lately) < APPLICATIONS_PER_HOUR
      BY <2>1 DEF applicationsSince
    <3> HIDE DEF Lately
    <3>7. Cardinality(RowsOfHour(start)) < APPLICATIONS_PER_HOUR
      BY <1>0, <3>5, <3>6
    <3>. QED
      BY <2>3, <3>7
  <2>. QED
    BY <2>4, <2>5
<1>2. ASSUME NEW id, NEW status \in ByHand, setApplicationStatus(id, status)
      PROVE  RowsOfHour(start)' \subseteq RowsOfHour(start)
  <2>1. /\ \A a \in Applied : rows'[a].createdAt = rows[a].createdAt
        /\ \A a \in Addresses : rows[a] = NoRow => rows'[a] = NoRow
    BY <1>2, HandKeeps
  <2>. QED
    BY <2>1 DEF RowsOfHour, Applied
<1>3. CASE UNCHANGED rows
  BY <1>3 DEF RowsOfHour, Applied
<1>. QED
  BY <1>1, <1>2, <1>3 DEF InboxNext, inboxVars, Submit, Answered, Unreachable, Reload, Refuse,
                          InboxTick

\* No hour, wherever it starts, lets in more new traders than the ceiling:
\* counting the hour before each one is enough, for any ceiling and any length
\* of the hour (api.ts:43-51).
THEOREM CeilingHolds == InboxSpec => []HourlyCeiling
<1> DEFINE Room == \A start \in 0..MaxTime : Cardinality(RowsOfHour(start)) <= APPLICATIONS_PER_HOUR
<1>1. Room <=> HourlyCeiling
  BY DEF HourlyCeiling, RowsOfHour
<1>2. InboxInit => Room
  <2> SUFFICES ASSUME InboxInit, NEW start \in 0..MaxTime
               PROVE  Cardinality(RowsOfHour(start)) <= APPLICATIONS_PER_HOUR
    OBVIOUS
  <2>1. RowsOfHour(start) = {}
    BY DEF InboxInit, RowsOfHour, Applied
  <2>. QED
    BY <2>1, FS_EmptySet, InboxAssumption
<1>3. Room /\ InboxTypeOK /\ [InboxNext]_inboxVars => Room'
  <2> SUFFICES ASSUME Room, InboxTypeOK, [InboxNext]_inboxVars, NEW start \in 0..MaxTime
               PROVE  Cardinality(RowsOfHour(start)') <= APPLICATIONS_PER_HOUR
    OBVIOUS
  <2> DEFINE old == RowsOfHour(start)
             new == RowsOfHour(start)'
  <2>1. /\ old \subseteq Addresses /\ IsFiniteSet(old) /\ Cardinality(old) \in Nat
        /\ Cardinality(old) <= APPLICATIONS_PER_HOUR /\ APPLICATIONS_PER_HOUR \in Nat
    <3>1. old \subseteq Addresses
      BY DEF RowsOfHour, Applied
    <3>. QED
      BY <3>1, InboxAssumption, FS_Subset, FS_CardinalityType
  <2>2. \/ new \subseteq old
        \/ /\ Cardinality(old) < APPLICATIONS_PER_HOUR
           /\ \E a \in Addresses : new \subseteq old \cup {a}
    BY NewRowsFindRoom
  <2> HIDE DEF old, new
  <2>3. CASE new \subseteq old
    <3>1. Cardinality(new) <= Cardinality(old) /\ Cardinality(new) \in Nat
      BY <2>1, <2>3, FS_Subset, FS_CardinalityType
    <3>2. Cardinality(new) <= APPLICATIONS_PER_HOUR
      BY <2>1, <3>1
    <3>. QED
      BY <3>2 DEF new
  <2>4. ASSUME Cardinality(old) < APPLICATIONS_PER_HOUR, NEW a, new \subseteq old \cup {a}
        PROVE  Cardinality(RowsOfHour(start)') <= APPLICATIONS_PER_HOUR
    <3>1. /\ IsFiniteSet(old \cup {a})
          /\ \/ Cardinality(old \cup {a}) = Cardinality(old)
             \/ Cardinality(old \cup {a}) = Cardinality(old) + 1
      BY <2>1, FS_AddElement
    <3>2. Cardinality(new) <= Cardinality(old \cup {a}) /\ Cardinality(new) \in Nat
      BY <2>4, <3>1, FS_Subset, FS_CardinalityType
    <3>3. Cardinality(new) <= APPLICATIONS_PER_HOUR
      BY <2>1, <2>4, <3>1, <3>2
    <3>. QED
      BY <3>3 DEF new
  <2>. QED
    BY <2>2, <2>3, <2>4
<1>. QED
  BY <1>1, <1>2, <1>3, InboxTypeCorrect, PTL DEF InboxSpec

----------------------------------------------------------------------------
(* The web application: who waits, and for what *)

\* A button waits for a call of its own kind that still has its timer.
ButtonWaits == panel.busy # "none" => \E r \in runs : r.here /\ r.waited /\ r.kind = panel.busy
\* A trader's page whose own answer is not in has asked for it.
PageWaits == TraderShown(route, data) => trader.heard \/ \E r \in reads : r.leader = route
\* A page with an answer in is not empty.
PageFilled == trader.heard => trader.profile # NoProfile \/ trader.missing
\* A calendar waits for a script on its way, or hangs on one that came to nothing.
CalendarWaits ==
    /\ calendar = "waiting" => script = "loading"
    /\ calendar = "stuck" => script \in {"empty", "refused"}

\* What the three need: reads are of traders, so an answer fills the page.
TabSound ==
    /\ PageFilled
    /\ \A r \in reads : r.leader \in Roster \cup Strangers
    /\ script \in {"absent", "loading", "loaded", "empty", "refused"}

TabInv == TabSound /\ ButtonWaits /\ PageWaits /\ CalendarWaits

LEMMA TabStarts == DashboardInit => TabInv
<1>. SUFFICES ASSUME DashboardInit PROVE TabInv
  OBVIOUS
<1>1. TabSound
  BY DEF DashboardInit, TabSound, PageFilled, Unread
<1>2. ButtonWaits
  BY DEF DashboardInit, ButtonWaits, IdlePanel
<1>3. PageWaits /\ CalendarWaits
  BY DEF DashboardInit, PageWaits, CalendarWaits, TraderShown
<1>. QED
  BY <1>1, <1>2, <1>3 DEF TabInv

\* Another page, or the file it needed: whatever waits on the new page was
\* asked for on its behalf.
LEMMA PagesKeep ==
    ASSUME TabInv, NEW to, NEW got, Show(to, got), route' = to, data' = got, UNCHANGED script,
           calendar' = "closed" \/ UNCHANGED calendar
    PROVE  TabInv'
<1>1. TabSound'
  <2>1. trader' = Unread
    BY DEF Show
  <2>2. \A r \in reads' : r.leader \in Roster \cup Strangers
    BY DEF Show, TraderShown, TabInv, TabSound
  <2>. QED
    BY <2>1, <2>2 DEF TabInv, TabSound, PageFilled, Unread
<1>2. ButtonWaits'
  BY DEF Show, ButtonWaits, TabInv, IdlePanel
<1>3. PageWaits'
  BY DEF Show, PageWaits, TraderShown
<1>4. CalendarWaits'
  BY DEF CalendarWaits, TabInv
<1>. QED
  BY <1>1, <1>2, <1>3, <1>4 DEF TabInv

\* An answer fills the page it finds, be it the one that asked or not; only the
\* page's own takes away what the page waits for.
LEMMA AnswersFill == ASSUME TabInv, NEW r \in reads, NEW ok \in BOOLEAN, TraderRead(r, ok) PROVE TabInv'
<1>1. r.leader # NoProfile
  BY DashboardAssumption DEF TabInv, TabSound
<1>2. /\ trader'.profile = IF ok THEN r.leader ELSE trader.profile
      /\ trader'.missing = (trader.missing \/ ~ok)
      /\ trader'.heard = (trader.heard \/ r.leader = route)
  BY DEF TraderRead
<1>3. PageFilled'
  BY <1>1, <1>2 DEF PageFilled
<1>4. TabSound'
  BY <1>3 DEF TraderRead, TabInv, TabSound
<1>5. PageWaits'
  <2>1. CASE r.leader = route
    BY <1>2, <2>1 DEF PageWaits, TraderRead
  <2>2. CASE r.leader # route
    BY <1>2, <2>2 DEF PageWaits, TraderRead, TabInv, TraderShown
  <2>. QED
    BY <2>1, <2>2
<1>6. ButtonWaits' /\ CalendarWaits'
  BY DEF TraderRead, TabInv, ButtonWaits, CalendarWaits
<1>. QED
  BY <1>4, <1>5, <1>6 DEF TabInv

\* The panel, its calls and their timers.
LEMMA CallsKeep ==
    ASSUME TabInv,
           \/ \E kind \in {"delegate", "revoke"} : run(kind)
           \/ \E r \in runs, outcome \in {"done", "dismissed", "failed"} : RunEnds(r, outcome)
           \/ \E r \in runs : withTimeout(r)
    PROVE  TabInv'
<1>1. TabSound' /\ PageWaits' /\ CalendarWaits'
  BY DEF run, RunEnds, withTimeout, OnlyPanel, TabInv, TabSound, PageFilled, PageWaits, CalendarWaits, TraderShown
<1>2. ButtonWaits'
  <2>1. ASSUME NEW kind \in {"delegate", "revoke"}, run(kind) PROVE ButtonWaits'
    <3> DEFINE mine == [id |-> clicks, kind |-> kind, here |-> TRUE, waited |-> TRUE]
    <3>1. mine \in runs' /\ panel'.busy = kind
      BY <2>1 DEF run
    <3>2. mine.here /\ mine.waited /\ mine.kind = kind
      OBVIOUS
    <3>. QED
      BY <3>1, <3>2 DEF ButtonWaits
  <2>2. ASSUME NEW r \in runs, NEW error, PanelSettles(r, error), runs \ {r} \subseteq runs',
               ~(r.here /\ r.waited) \/ panel'.busy = "none"
        PROVE  ButtonWaits'
    BY <2>2 DEF PanelSettles, ButtonWaits, TabInv
  <2>3. ASSUME NEW r \in runs, NEW outcome \in {"done", "dismissed", "failed"}, RunEnds(r, outcome)
        PROVE  ButtonWaits'
    <3>1. PICK error : PanelSettles(r, error)
      BY <2>3 DEF RunEnds
    <3>2. runs \ {r} \subseteq runs'
      BY <2>3 DEF RunEnds
    <3>3. ~(r.here /\ r.waited) \/ panel'.busy = "none"
      BY <3>1 DEF PanelSettles
    <3>. QED
      BY <2>2, <3>1, <3>2, <3>3
  <2>4. ASSUME NEW r \in runs, withTimeout(r) PROVE ButtonWaits'
    <3>1. PanelSettles(r, TRUE) /\ runs \ {r} \subseteq runs'
      BY <2>4 DEF withTimeout
    <3>2. ~(r.here /\ r.waited) \/ panel'.busy = "none"
      BY <3>1 DEF PanelSettles
    <3>. QED
      BY <2>2, <3>1, <3>2
  <2>. QED
    BY <2>1, <2>3, <2>4
<1>. QED
  BY <1>1, <1>2 DEF TabInv

\* Signing in, the calendar and the roster's profiles.
LEMMA TheRestKeeps ==
    ASSUME TabInv,
           \/ \E found \in SUBSET (Roster \cap Audited) : ProfilesRead(found)
           \/ Ready \/ login \/ LoginIdle \/ Refreshed \/ logout
           \/ \E signedIn \in BOOLEAN : LoginEnds(signedIn)
           \/ OpenCalendar \/ ScriptEnds
    PROVE  TabInv'
<1>1. UNCHANGED <<route, data, trader, reads, panel, runs>>
  BY DEF ProfilesRead, Ready, login, LoginIdle, Refreshed, logout, LoginEnds, OpenCalendar, ScriptEnds,
         OnlySession, OnlyCalendar
<1>2. \/ UNCHANGED <<calendar, script>>
      \/ OpenCalendar
      \/ ScriptEnds
  BY DEF ProfilesRead, Ready, login, LoginIdle, Refreshed, logout, LoginEnds, OnlySession
<1>3. script' \in {"absent", "loading", "loaded", "empty", "refused"} /\ CalendarWaits'
  BY <1>2 DEF OpenCalendar, ScriptEnds, CalendarWaits, TabInv, TabSound
<1>4. TabSound' /\ ButtonWaits' /\ PageWaits'
  BY <1>1, <1>3 DEF TabInv, TabSound, PageFilled, ButtonWaits, PageWaits, TraderShown
<1>. QED
  BY <1>3, <1>4 DEF TabInv

LEMMA TabKeeps == TabInv /\ [DashboardNext]_dashboardVars => TabInv'
<1>. SUFFICES ASSUME TabInv, [DashboardNext]_dashboardVars PROVE TabInv'
  OBVIOUS
<1>1. ASSUME NEW to \in parseRoute, navigate(to) PROVE TabInv'
  <2>1. Show(to, data) /\ route' = to /\ data' = data /\ UNCHANGED script /\ calendar' = "closed"
    BY <1>1 DEF navigate
  <2>. QED
    BY <2>1, PagesKeep
<1>2. ASSUME NEW got \in {"loaded", "failed"}, DataRead(got) PROVE TabInv'
  <2>1. Show(route, got) /\ route' = route /\ data' = got /\ UNCHANGED script /\ UNCHANGED calendar
    BY <1>2 DEF DataRead
  <2>. QED
    BY <2>1, PagesKeep
<1>3. ASSUME NEW r \in reads, NEW ok \in BOOLEAN, TraderRead(r, ok) PROVE TabInv'
  BY <1>3, AnswersFill
<1>4. CASE UNCHANGED dashboardVars
  BY <1>4 DEF dashboardVars, TabInv, TabSound, PageFilled, ButtonWaits, PageWaits, CalendarWaits, TraderShown
<1>. QED
  BY <1>1, <1>2, <1>3, <1>4, CallsKeep, TheRestKeeps DEF DashboardNext

\* However requests, Privy's calls and scripts overlap with changes of page,
\* nothing waits for what has ended, except a calendar whose script came without
\* the widget or was refused (FollowPanel.tsx:65-83, TraderPage.tsx:32-39,
\* CalendlyEmbed.tsx:59-96).
THEOREM NobodyIsLeftWaiting == DashboardSpec => []NobodyWaitsInVain
<1>1. TabInv => NobodyWaitsInVain
  BY DEF TabInv, TabSound, PageFilled, ButtonWaits, PageWaits, CalendarWaits, NobodyWaitsInVain
<1>. QED
  BY <1>1, TabStarts, TabKeeps, PTL DEF DashboardSpec

=============================================================================
