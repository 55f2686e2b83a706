------------------------------ MODULE LeaderFeed ------------------------------
(***************************************************************************)
(* From a leader's transactions to the trades the rest of the system sees  *)
(* (src/src/chains/solana/watcher.ts, swaps.ts).  poll lists the newest    *)
(* signatures past a cursor, reads them and returns the swaps it finds in  *)
(* their net balance changes; history walks the same signatures backwards  *)
(* for scoring.  A signature is its position on the chain; amounts are     *)
(* integers, prices cents per unit.                                        *)
(***************************************************************************)
EXTENDS Integers, FiniteSets

CONSTANTS
    Mints,
    SOL_MINT,
    QUOTE_MINTS,        \* the money side of a swap
    CentsPerUnit,       \* price of a unit of each mint
    PriceViews,         \* sets of mints a call to priceMany may answer for
    dustUsd,            \* in cents
    solPlumbingSol,     \* native SOL moved by account rent, at most
    Transactions,       \* what the leader may send, see TransactionType
    NoTrade,
    pageLimit,          \* opts.limit of the watcher that polls
    historyLimit,       \* opts.limit of the one that backfills
    historyPages,       \* opts.pages
    MaxTransactions     \* bound: the chain's length

\* wants: what the leader's own trades add up to; rent: native SOL that opening
\* or closing token accounts took or gave back; sponsored: somebody else paid the
\* fee; wrapped: the SOL leg went through a wrapped-SOL account; failed: the
\* transaction has an error.
TransactionType ==
    [wants: [Mints -> Int], rent: Int, fee: Nat, sponsored: BOOLEAN, wrapped: BOOLEAN,
     failed: BOOLEAN]

Size(n) == IF n < 0 THEN -n ELSE n
Moved(tx) == {m \in Mints : tx.wants[m] # 0}

\* Native SOL that is no part of a trade, as deltasFromMeta sees it: the rent, and
\* a fee added back that the leader never paid.
StraySol(tx) == tx.rent + IF tx.sponsored THEN tx.fee ELSE 0

\* What solPlumbingSol and dustUsd count on (swaps.ts:29-35): stray SOL stays
\* within plumbing, what a trade moves is above dust, stray SOL deducted, and SOL
\* that takes part in more than a plain swap is more than plumbing.
Clear(tx) ==
    LET stray == Size(StraySol(tx))
        sol   == Size(tx.wants[SOL_MINT])
    IN  /\ stray <= solPlumbingSol
        /\ \A m \in Moved(tx) \ {SOL_MINT} : Size(tx.wants[m]) * CentsPerUnit[m] >= dustUsd
        /\ sol > 0 => sol > stray /\ (sol - stray) * CentsPerUnit[SOL_MINT] >= dustUsd
        /\ sol > 0 /\ Cardinality(Moved(tx)) > 2 => sol > stray + solPlumbingSol

ASSUME FeedAssumption ==
    /\ IsFiniteSet(Mints)
    /\ SOL_MINT \in QUOTE_MINTS /\ QUOTE_MINTS \subseteq Mints
    /\ CentsPerUnit \in [Mints -> Nat \ {0}]
    /\ PriceViews \subseteq SUBSET Mints
    /\ Transactions \subseteq TransactionType
    /\ {dustUsd, solPlumbingSol, MaxTransactions} \subseteq Nat
    /\ {pageLimit, historyLimit, historyPages} \subseteq Nat \ {0}

ASSUME ClearAssumption == \A tx \in Transactions : Clear(tx)

VARIABLES
    chain,              \* the leader's transactions, oldest first
    cursor,             \* newest signature handled, 0 for none
    listed,             \* signatures of the poll under way; {} between polls
    delivered,          \* trades handed out so far, by signature
    reported,           \* signatures passed to onSkip
    refused,            \* history: those of them that were read and priced
    overlooked,         \* history: signatures a poll's limit cut off
    walk                \* the backfill: before, pages; signatures read, and skipped as unread

feedVars == <<chain, cursor, listed, delivered, reported, refused, overlooked, walk>>

NoWalk == [open |-> FALSE, before |-> 0, pages |-> 0, read |-> {}, skipped |-> {}, from |-> 0]

FeedInit ==
    /\ chain = [i \in {} |-> NoTrade]
    /\ cursor = 0
    /\ listed = {}
    /\ delivered = [i \in {} |-> NoTrade]
    /\ reported = {} /\ refused = {} /\ overlooked = {}
    /\ walk = NoWalk

Newest == Cardinality(DOMAIN chain)

----------------------------------------------------------------------------
(* Swap extraction *)

\* The change of the leader's native balance, whoever paid the fee, with the fee
\* added back, merged with the wrapped account's.
deltasFromMeta(tx) ==
    LET native  == (IF tx.wrapped THEN 0 ELSE tx.wants[SOL_MINT]) + tx.rent
                       - (IF tx.sponsored THEN 0 ELSE tx.fee)
        wrapped == IF tx.wrapped THEN tx.wants[SOL_MINT] ELSE 0
    IN  [tx.wants EXCEPT ![SOL_MINT] = native + tx.fee + wrapped]

Significant(deltas, known) ==
    {m \in Mints : deltas[m] # 0 /\ (m \in known => Size(deltas[m] * CentsPerUnit[m]) >= dustUsd)}

isPlumbing(deltas, m) == m = SOL_MINT /\ Size(deltas[m]) <= solPlumbingSol

\* The legs of the swap: SOL plumbing is dropped when that leaves one in, one out.
Legs(deltas, legs) ==
    LET trimmed == {m \in legs : ~isPlumbing(deltas, m)}
    IN  IF Cardinality(legs) > 2 THEN trimmed ELSE legs

extractSwap(deltas, known) ==
    LET legs == Legs(deltas, Significant(deltas, known))
        outs == {m \in legs : deltas[m] < 0}
        ins  == {m \in legs : deltas[m] > 0}
    IN  IF \/ Cardinality(outs) # 1 \/ Cardinality(ins) # 1
           \/ outs \subseteq QUOTE_MINTS <=> ins \subseteq QUOTE_MINTS
           \/ legs \cap QUOTE_MINTS \cap known = {}
        THEN NoTrade
        ELSE LET asset == CHOOSE m \in legs : m \notin QUOTE_MINTS
             IN  [side |-> IF asset \in ins THEN "buy" ELSE "sell",
                  asset |-> asset, amount |-> Size(deltas[asset])]

----------------------------------------------------------------------------
(* Polling and backfill *)

\* getSignaturesForAddress: the newest signatures in (after, upto], limit at most.
Signatures(after, upto, limit) == {i \in (after + 1)..upto : i > upto - limit}

Succeeded(sigs) == {i \in sigs : ~chain[i].failed}

\* What a page of signatures comes to when the transactions in unread were not
\* served and only the mints in known were priced.
tradesFrom(sigs, unread, known) ==
    [i \in Succeeded(sigs) \ unread |-> extractSwap(deltasFromMeta(chain[i]), known)]

Swaps(found) == {i \in DOMAIN found : found[i] # NoTrade}

Land(tx) ==
    /\ Newest < MaxTransactions
    /\ chain' = [i \in 1..(Newest + 1) |-> IF i > Newest THEN tx ELSE chain[i]]
    /\ UNCHANGED <<cursor, listed, delivered, reported, refused, overlooked, walk>>

pollStart ==
    /\ listed = {}
    /\ listed' = Signatures(cursor, Newest, pageLimit)
    /\ listed' # {}
    /\ UNCHANGED <<chain, cursor, delivered, reported, refused, overlooked, walk>>

newestCursorMutant == Newest
newestCursor == CHOOSE i \in listed : \A j \in listed : j <= i

\* The trades are returned with the cursor; every other success is reported.
pollEnd(unread, known) ==
    LET found == tradesFrom(listed, unread, known) IN
    /\ listed # {}
    /\ delivered' = [i \in DOMAIN delivered \cup Swaps(found) |->
                        IF i \in Swaps(found) THEN found[i] ELSE delivered[i]]
    /\ reported' = reported \cup (Succeeded(listed) \ Swaps(found))
    /\ refused' = refused \cup
          IF QUOTE_MINTS \subseteq known THEN Succeeded(listed) \ (Swaps(found) \cup unread) ELSE {}
    /\ overlooked' = overlooked \cup {i \in (cursor + 1)..Newest : \A j \in listed : i < j}
    /\ cursor' = newestCursor
    /\ listed' = {}
    /\ UNCHANGED <<chain, walk>>

\* The listing or the pricing gave up after its retries, or the process died.
pollFails ==
    /\ listed # {}
    /\ listed' = {}
    /\ UNCHANGED <<chain, cursor, delivered, reported, refused, overlooked, walk>>

historyStart ==
    /\ ~walk.open
    /\ Newest > 0
    /\ walk' = [NoWalk EXCEPT !.open = TRUE, !.before = Newest + 1, !.from = Newest]
    /\ UNCHANGED <<chain, cursor, listed, delivered, reported, refused, overlooked>>

OldestMutant(sigs) == (CHOOSE i \in sigs : \A j \in sigs : i <= j) - 1
Oldest(sigs) == CHOOSE i \in sigs : \A j \in sigs : i <= j

\* The page before the one that was read last.
EarlierPage == Signatures(0, walk.before - 1, historyLimit)

\* One page further back, until a short page, the page budget or an error.  What
\* was not served is reported to onSkip and left out; a page whose prices cannot
\* be had is left out as a whole.
historyPage(unread, fails) ==
    LET last == fails \/ Cardinality(EarlierPage) < historyLimit \/ walk.pages + 1 = historyPages
    IN
    /\ walk.open
    /\ walk' = IF EarlierPage = {} THEN [walk EXCEPT !.open = FALSE]
               ELSE [walk EXCEPT !.open = ~last, !.before = Oldest(EarlierPage), !.pages = @ + 1,
                                 !.read = IF fails THEN @ ELSE @ \cup (EarlierPage \ unread),
                                 !.skipped = @ \cup unread]
    /\ UNCHANGED <<chain, cursor, listed, delivered, reported, refused, overlooked>>

\* A listing gave up after its retries: nothing of the backfill is returned.
historyThrows ==
    /\ walk.open
    /\ walk' = NoWalk
    /\ UNCHANGED <<chain, cursor, listed, delivered, reported, refused, overlooked>>

FeedNext ==
    \/ \E tx \in Transactions : Land(tx)
    \/ pollStart
    \/ \E unread \in SUBSET listed, known \in PriceViews : pollEnd(unread, known)
    \/ pollFails
    \/ historyStart
    \/ \E unread \in SUBSET Succeeded(EarlierPage), fails \in BOOLEAN : historyPage(unread, fails)
    \/ historyThrows

FeedSpec == FeedInit /\ [][FeedNext]_feedVars

----------------------------------------------------------------------------
(* Properties *)

\* The swap a transaction was sent for, if it was sent for one.
Meant(tx) ==
    LET asset == CHOOSE m \in Moved(tx) : m \notin QUOTE_MINTS
    IN  IF /\ Cardinality(Moved(tx)) = 2 /\ Cardinality(Moved(tx) \cap QUOTE_MINTS) = 1
           /\ \E m, n \in Moved(tx) : tx.wants[m] < 0 /\ tx.wants[n] > 0
        THEN [side |-> IF tx.wants[asset] > 0 THEN "buy" ELSE "sell",
              asset |-> asset, amount |-> Size(tx.wants[asset])]
        ELSE NoTrade

\* A transfer of one asset that also moved rent, or that somebody else paid for.
TransferWithStraySol(tx) == StraySol(tx) # 0 /\ Cardinality(Moved(tx)) = 1

\* Up to the cursor every successful transaction was delivered, reported as
\* skipped or cut off by the limit of a single poll, and no failed one was
\* delivered.
NoneLost ==
    /\ \A i \in 1..cursor :
          chain[i].failed \/ i \in DOMAIN delivered \cup reported \cup overlooked
    /\ \A i \in DOMAIN delivered : ~chain[i].failed

\* Up to the cursor nothing is lost, and what was delivered is the very swap
\* that was sent; a swap that was read and priced is never skipped, and none is
\* invented, save that a transfer reads as a trade for the SOL that came or went
\* with it: account rent, or a fee that somebody else paid and that is added back
\* to the leader all the same (watcher.ts:38-43, 78-99; swaps.ts:67-119, 188-193).
MirrorsWhatWasTraded ==
    /\ NoneLost
    /\ \A i \in DOMAIN delivered : delivered[i] = Meant(chain[i]) \/ TransferWithStraySol(chain[i])
    /\ \A i \in refused : Meant(chain[i]) = NoTrade

\* However many transactions land meanwhile and wherever the walk stops, the
\* pages of a backfill join: from the oldest transaction it read to where it began
\* it read every one, or the RPC did not serve it and onSkip was told.  A score may
\* be computed over a history with such holes, and over one with no other
\* (watcher.ts:126-153, 188-195, 221-226).
BackfillHasNoHole ==
    \A i \in walk.read : \A j \in i..walk.from : j \in walk.read \cup walk.skipped

==============================================================================
