----------------------------- MODULE MarketProofs -----------------------------
(***************************************************************************)
(* What is read of a leader and of a token, proved for every chain, page   *)
(* size, window and interleaving: the watcher loses no transaction below   *)
(* its cursor and the backfill leaves no hole (LeaderFeed); the candle     *)
(* cache keeps final candles only and answers every window in full         *)
(* (CandleStore).                                                          *)
(***************************************************************************)
EXTENDS LeaderFeed, CandleStore, LedgerMath

-----------------------------------------------------------------------------
(* The leader's feed *)

\* A poll lists what lies between the cursor and a signature it began at.
Listing ==
    listed # {} =>
        \E upto \in Nat : cursor < upto /\ upto <= Newest
                          /\ listed = Signatures(cursor, upto, pageLimit)

Walks == [open: BOOLEAN, before: Nat, pages: Nat, read: SUBSET Nat, skipped: SUBSET Nat, from: Nat]

\* An open walk has read or skipped what lies between the signature it is at and
\* the one it began at; a closed one left an unbroken stretch.
Walked ==
    /\ walk \in Walks
    /\ walk.open => /\ walk.before > 0 /\ walk.before <= walk.from + 1
                    /\ walk.read \subseteq walk.before..walk.from
                    /\ walk.before..walk.from \subseteq walk.read \cup walk.skipped
    /\ BackfillHasNoHole

FeedInv ==
    /\ Newest \in Nat /\ DOMAIN chain = 1..Newest
    /\ cursor \in Nat /\ cursor <= Newest
    /\ DOMAIN delivered \subseteq 1..Newest
    /\ Listing
    /\ Walked
    /\ NoneLost

LEMMA FeedStarts == FeedInit => FeedInv
<1> SUFFICES ASSUME FeedInit PROVE FeedInv
  OBVIOUS
<1>1. DOMAIN chain = {} /\ DOMAIN delivered = {} /\ cursor = 0 /\ listed = {}
  BY DEF FeedInit
<1>2. Newest = 0 /\ 1..0 = {}
  BY <1>1, FS_EmptySet DEF Newest
<1>3. walk = NoWalk
  BY DEF FeedInit
<1>4. Walked
  BY <1>3 DEF Walked, Walks, NoWalk, BackfillHasNoHole
<1>5. Listing
  BY <1>1 DEF Listing
<1>6. NoneLost
  BY <1>1, <1>2 DEF NoneLost
<1>. QED
  BY <1>1, <1>2, <1>4, <1>5, <1>6 DEF FeedInv

\* The chain grows at its end.
LEMMA LandKeeps ==
    ASSUME FeedInv, NEW tx, Land(tx)
    PROVE  FeedInv'
<1>1. PICK n \in Nat : n = Newest /\ DOMAIN chain = 1..n
  BY DEF FeedInv
<1>2. /\ chain' = [i \in 1..(n + 1) |-> IF i > n THEN tx ELSE chain[i]]
      /\ UNCHANGED <<cursor, listed, delivered, reported, refused, overlooked, walk>>
  BY <1>1 DEF Land
<1>3. DOMAIN chain' = 1..(n + 1) /\ Newest' = n + 1 /\ \A i \in 1..n : chain'[i] = chain[i]
  <2>1. Cardinality(1..(n + 1)) = n + 1
    BY FS_Interval
  <2>2. \A i \in 1..n : i \in 1..(n + 1) /\ ~(i > n)
    OBVIOUS
  <2>. QED
    BY <1>2, <2>1, <2>2 DEF Newest
<1>4. cursor \in Nat /\ cursor <= n /\ DOMAIN delivered \subseteq 1..n
  BY <1>1 DEF FeedInv
<1>5. cursor' <= Newest' /\ DOMAIN delivered' \subseteq 1..Newest'
  BY <1>2, <1>3, <1>4
<1>6. Listing'
  <2>1. ASSUME listed # {} PROVE \E upto \in Nat : cursor < upto /\ upto <= n + 1
                                       /\ listed = Signatures(cursor, upto, pageLimit)
    <3>1. PICK upto \in Nat : cursor < upto /\ upto <= n /\ listed = Signatures(cursor, upto, pageLimit)
      BY <1>1, <2>1 DEF FeedInv, Listing
    <3>. QED
      BY <3>1
  <2>. QED
    BY <1>2, <1>3, <2>1 DEF Listing, Signatures
<1>7. Walked'
  BY <1>2 DEF FeedInv, Walked, BackfillHasNoHole
<1>8. NoneLost'
  <2>1. \A i \in 1..cursor : i \in 1..n
    BY <1>4
  <2>. QED
    BY <1>2, <1>3, <1>4, <2>1 DEF FeedInv, NoneLost
<1>. QED
  BY <1>2, <1>3, <1>4, <1>5, <1>6, <1>7, <1>8 DEF FeedInv

LEMMA PollStartKeeps == FeedInv /\ pollStart => FeedInv'
<1> SUFFICES ASSUME FeedInv, pollStart PROVE FeedInv'
  OBVIOUS
<1>1. /\ listed' = Signatures(cursor, Newest, pageLimit) /\ listed' # {}
      /\ UNCHANGED <<chain, cursor, delivered, reported, refused, overlooked, walk>>
  BY DEF pollStart
<1>2. Newest \in Nat /\ cursor \in Nat /\ Newest' = Newest
  BY <1>1 DEF FeedInv, Newest
<1>3. cursor < Newest
  BY <1>1, <1>2 DEF Signatures
<1>4. Listing'
  BY <1>1, <1>2, <1>3 DEF Listing, Signatures
<1>. QED
  BY <1>1, <1>2, <1>4 DEF FeedInv, Walked, BackfillHasNoHole, NoneLost

\* The cursor moves to the newest signature listed, and all below it are
\* accounted for.
LEMMA PollEndKeeps ==
    ASSUME FeedInv, NEW unread, NEW known, pollEnd(unread, known)
    PROVE  FeedInv'
<1> DEFINE found == tradesFrom(listed, unread, known)
           swaps == Swaps(found)
<1>1. PICK upto \in Nat : /\ cursor < upto /\ upto <= Newest
                          /\ listed = Signatures(cursor, upto, pageLimit)
  BY DEF FeedInv, Listing, pollEnd
<1>2. cursor \in Nat /\ Newest \in Nat /\ pageLimit \in Nat /\ pageLimit > 0
  BY FeedAssumption DEF FeedInv
<1>3. upto \in listed /\ \A j \in listed : j \in (cursor + 1)..upto
  BY <1>1, <1>2 DEF Signatures
<1>4. newestCursor = upto
  <2>1. \A j \in listed : j <= upto
    BY <1>3
  <2>2. \A i \in listed : (\A j \in listed : j <= i) => i = upto
    BY <1>3
  <2>. QED
    BY <1>3, <2>1, <2>2 DEF newestCursor
<1>5. /\ delivered' = [i \in DOMAIN delivered \cup swaps |->
                          IF i \in swaps THEN found[i] ELSE delivered[i]]
      /\ reported' = reported \cup (Succeeded(listed) \ swaps)
      /\ overlooked' = overlooked \cup {i \in (cursor + 1)..Newest : \A j \in listed : i < j}
      /\ cursor' = upto /\ listed' = {}
      /\ UNCHANGED <<chain, walk>>
  BY <1>4 DEF pollEnd
<1>6. swaps \subseteq Succeeded(listed)
  BY DEF Swaps, tradesFrom
<1> HIDE DEF swaps, found
<1>7. DOMAIN delivered' = DOMAIN delivered \cup swaps /\ Newest' = Newest
  BY <1>5 DEF Newest
<1>8. Succeeded(listed) \subseteq 1..Newest /\ \A i \in Succeeded(listed) : ~chain[i].failed
  <2>1. \A i \in (cursor + 1)..upto : i \in 1..Newest
    BY <1>1, <1>2
  <2>2. \A i \in Succeeded(listed) : i \in listed /\ ~chain[i].failed
    BY DEF Succeeded
  <2>. QED
    BY <1>3, <2>1, <2>2
<1>9. NoneLost'
  <2>1. \A i \in DOMAIN delivered' : ~chain'[i].failed
    BY <1>5, <1>6, <1>7, <1>8 DEF FeedInv, NoneLost
  <2>2. ASSUME NEW i \in 1..upto, ~chain[i].failed
        PROVE  i \in DOMAIN delivered' \cup reported' \cup overlooked'
    <3>1. CASE i \in 1..cursor
      BY <1>5, <1>7, <2>2, <3>1 DEF FeedInv, NoneLost
    <3>2. CASE i \in listed
      <4>1. i \in Succeeded(listed)
        BY <2>2, <3>2 DEF Succeeded
      <4>. QED
        BY <1>5, <1>7, <4>1
    <3>3. CASE i \notin 1..cursor /\ i \notin listed
      <4>1. i \in (cursor + 1)..upto /\ i \in (cursor + 1)..Newest
        BY <1>1, <1>2, <3>3
      <4>2. i <= upto - pageLimit
        BY <1>1, <1>2, <3>3, <4>1 DEF Signatures
      <4>3. \A j \in listed : i < j
        BY <1>1, <1>2, <4>1, <4>2 DEF Signatures
      <4>. QED
        BY <1>5, <4>1, <4>3
    <3>. QED
      BY <3>1, <3>2, <3>3
  <2>. QED
    BY <1>5, <2>1, <2>2 DEF NoneLost
<1>10. Listing'
  BY <1>5 DEF Listing
<1>11. Walked'
  BY <1>5 DEF FeedInv, Walked, BackfillHasNoHole
<1>12. DOMAIN delivered' \subseteq 1..Newest'
  BY <1>6, <1>7, <1>8 DEF FeedInv
<1>. QED
  BY <1>1, <1>5, <1>7, <1>9, <1>10, <1>11, <1>12 DEF FeedInv

\* One page further back joins the stretch already seen.
LEMMA PageJoins ==
    ASSUME FeedInv, NEW unread \in SUBSET EarlierPage, NEW fails \in BOOLEAN, historyPage(unread, fails)
    PROVE  Walked'
<1> DEFINE sigs == EarlierPage
<1>1. PICK b \in Nat, f \in Nat, n \in Nat, seen \in SUBSET Nat, skipped \in SUBSET Nat :
          /\ b > 0 /\ b <= f + 1 /\ seen \subseteq b..f /\ b..f \subseteq seen \cup skipped
          /\ walk = [open |-> TRUE, before |-> b, pages |-> n, read |-> seen, skipped |-> skipped,
                     from |-> f]
  BY DEF FeedInv, Walked, Walks, historyPage
<1>2. historyLimit \in Nat /\ historyLimit > 0
  BY FeedAssumption
<1>3. CASE sigs = {}
  <2>1. walk' = [walk EXCEPT !.open = FALSE]
    BY <1>3 DEF historyPage
  <2>. QED
    BY <2>1 DEF FeedInv, Walked, Walks, BackfillHasNoHole
<1>4. CASE sigs # {}
  <2>1. \A i \in sigs : i \in 1..(b - 1) /\ i > b - 1 - historyLimit
    BY <1>1 DEF Signatures, EarlierPage
  <2>2. \A i \in 1..(b - 1) : i > b - 1 - historyLimit => i \in sigs
    BY <1>1 DEF Signatures, EarlierPage
  <2>3. PICK least \in sigs : \A j \in sigs : least <= j
    <3>1. sigs \subseteq Nat
      BY <2>1
    <3> HIDE DEF sigs
    <3>. QED
      BY <1>4, <3>1, LeastExists
  <2>4. Oldest(sigs) = least
    <3>1. \A i \in sigs : (\A j \in sigs : i <= j) => i = least
      BY <2>1, <2>3
    <3>. QED
      BY <2>3, <3>1 DEF Oldest
  <2>5. least \in Nat /\ least > 0 /\ least < b /\ sigs = least..(b - 1)
    <3>1. \A j \in sigs : j \in least..(b - 1)
      BY <1>1, <2>1, <2>3
    <3>2. \A j \in least..(b - 1) : j \in sigs
      BY <1>1, <1>2, <2>1, <2>2, <2>3
    <3>3. least \in 1..(b - 1)
      BY <2>1, <2>3
    <3> HIDE DEF sigs
    <3>4. sigs = least..(b - 1)
      BY <3>1, <3>2
    <3>. QED
      BY <1>1, <3>3, <3>4
  <2>6. PICK open \in BOOLEAN : /\ open => ~fails
                                /\ open = ~(fails \/ Cardinality(EarlierPage) < historyLimit
                                            \/ walk.pages + 1 = historyPages)
    OBVIOUS
  <2>7. PICK r : r = IF fails THEN seen ELSE seen \cup (sigs \ unread)
    OBVIOUS
  <2>8. walk' = [walk EXCEPT !.open = open, !.before = least, !.pages = n + 1, !.read = r,
                             !.skipped = skipped \cup unread]
    <3>1. walk.read = seen /\ walk.skipped = skipped /\ walk.pages = n
      BY <1>1
    <3>. QED
      BY <1>4, <2>4, <2>6, <2>7, <3>1 DEF historyPage
  <2>9. walk' = [open |-> open, before |-> least, pages |-> n + 1, read |-> r,
                 skipped |-> skipped \cup unread, from |-> f]
    BY <1>1, <2>8
  <2>10. /\ r \subseteq least..f /\ r \in SUBSET Nat
         /\ ~fails => least..f \subseteq r \cup (skipped \cup unread)
         /\ fails => r = seen
    <3> HIDE DEF sigs
    <3>1. \A i \in least..f : i \in sigs \/ i \in b..f
      BY <1>1, <2>5
    <3>2. \A i \in sigs : i \in least..f
      BY <1>1, <2>5
    <3>3. \A i \in seen : i \in least..f
      BY <1>1, <2>5
    <3>4. least..f \subseteq Nat
      BY <2>5
    <3>5. r \subseteq least..f
      BY <2>7, <3>2, <3>3
    <3>6. ~fails => least..f \subseteq r \cup (skipped \cup unread)
      BY <1>1, <2>7, <3>1
    <3>. QED
      BY <2>7, <3>4, <3>5, <3>6
  <2>11. walk' \in Walks
    <3>1. skipped \cup unread \in SUBSET Nat
      <4>1. unread \subseteq sigs
        OBVIOUS
      <4>2. sigs \subseteq Nat
        BY <2>1
      <4> HIDE DEF sigs
      <4>. QED
        BY <4>1, <4>2
    <3>2. n + 1 \in Nat /\ least \in Nat
      BY <2>5
    <3>. QED
      BY <2>9, <2>10, <3>1, <3>2 DEF Walks
  <2>12. \A i \in r : \A j \in i..f : j \in r \cup (skipped \cup unread)
    <3>1. CASE fails
      <4>1. \A i \in seen : \A j \in i..f : j \in b..f
        BY <1>1
      <4>. QED
        BY <1>1, <2>10, <3>1, <4>1
    <3>2. CASE ~fails
      <4>1. \A i \in r : \A j \in i..f : j \in least..f
        BY <1>1, <2>5, <2>10
      <4>. QED
        BY <2>10, <3>2, <4>1
    <3>. QED
      BY <3>1, <3>2
  <2>13. /\ walk'.open = open /\ walk'.before = least /\ walk'.read = r
         /\ walk'.skipped = skipped \cup unread /\ walk'.from = f
    BY <2>9
  <2>14. walk'.open => /\ walk'.before > 0 /\ walk'.before <= walk'.from + 1
                       /\ walk'.read \subseteq walk'.before..walk'.from
                       /\ walk'.before..walk'.from \subseteq walk'.read \cup walk'.skipped
    BY <1>1, <2>5, <2>6, <2>10, <2>13
  <2>. QED
    BY <2>11, <2>12, <2>13, <2>14 DEF Walked, BackfillHasNoHole
<1>. QED
  BY <1>3, <1>4

LEMMA PageOnlyWalks ==
    ASSUME NEW unread, NEW fails, historyPage(unread, fails)
    PROVE  UNCHANGED <<chain, cursor, listed, delivered, reported, refused, overlooked>>
BY DEF historyPage

LEMMA HistoryKeeps ==
    ASSUME FeedInv,
           \/ historyStart \/ historyThrows
           \/ \E unread \in SUBSET EarlierPage, fails \in BOOLEAN : historyPage(unread, fails)
    PROVE  FeedInv'
<1>1. UNCHANGED <<chain, cursor, listed, delivered, reported, refused, overlooked>>
  <2>1. CASE historyStart
    BY <2>1 DEF historyStart
  <2>2. CASE historyThrows
    BY <2>2 DEF historyThrows
  <2>3. ASSUME NEW unread \in SUBSET EarlierPage, NEW fails \in BOOLEAN, historyPage(unread, fails)
        PROVE  UNCHANGED <<chain, cursor, listed, delivered, reported, refused, overlooked>>
    BY <2>3, PageOnlyWalks
  <2>. QED
    BY <2>1, <2>2, <2>3
<1>2. Walked'
  <2>1. CASE historyStart
    <3>1. Newest \in Nat
      BY DEF FeedInv
    <3>2. PICK m \in Nat : m = Newest /\ (m + 1)..m = {}
      BY <3>1
    <3>3. walk' = [open |-> TRUE, before |-> m + 1, pages |-> 0, read |-> {}, skipped |-> {},
                   from |-> m]
      BY <2>1, <3>2 DEF historyStart, NoWalk
    <3>. QED
      BY <3>2, <3>3 DEF Walked, Walks, BackfillHasNoHole
  <2>2. CASE historyThrows
    <3>1. walk' = NoWalk
      BY <2>2 DEF historyThrows
    <3>. QED
      BY <3>1 DEF Walked, Walks, NoWalk, BackfillHasNoHole
  <2>3. ASSUME NEW unread \in SUBSET EarlierPage, NEW fails \in BOOLEAN, historyPage(unread, fails)
        PROVE  Walked'
    BY <2>3, PageJoins
  <2>. QED
    BY <2>1, <2>2, <2>3
<1>. QED
  BY <1>1, <1>2 DEF FeedInv, Newest, Listing, NoneLost, Signatures

LEMMA FeedKeeps == FeedInv /\ [FeedNext]_feedVars => FeedInv'
<1> SUFFICES ASSUME FeedInv, [FeedNext]_feedVars PROVE FeedInv'
  OBVIOUS
<1>1. ASSUME NEW tx \in Transactions, Land(tx) PROVE FeedInv'
  BY <1>1, LandKeeps
<1>2. CASE pollStart
  BY <1>2, PollStartKeeps
<1>3. ASSUME NEW unread, NEW known \in PriceViews, pollEnd(unread, known) PROVE FeedInv'
  BY <1>3, PollEndKeeps
<1>4. CASE pollFails
  BY <1>4 DEF pollFails, FeedInv, Newest, Listing, Walked, BackfillHasNoHole, NoneLost
<1>5. CASE historyStart
  BY <1>5, HistoryKeeps
<1>6. ASSUME NEW unread \in SUBSET Succeeded(EarlierPage), NEW fails \in BOOLEAN,
             historyPage(unread, fails)
      PROVE  FeedInv'
  <2>1. unread \in SUBSET EarlierPage
    BY DEF Succeeded
  <2>. QED
    BY <1>6, <2>1, HistoryKeeps
<1>7. CASE historyThrows
  BY <1>7, HistoryKeeps
<1>8. CASE UNCHANGED feedVars
  BY <1>8 DEF feedVars, FeedInv, Newest, Listing, Walked, BackfillHasNoHole, NoneLost, Signatures
<1>. QED
  BY <1>1, <1>2, <1>3, <1>4, <1>5, <1>6, <1>7, <1>8 DEF FeedNext

\* The first part of MirrorsWhatWasTraded: whatever limit, failure or crash cuts
\* a poll short, no successful transaction below the cursor goes unaccounted
\* for, and no failed one becomes a trade (watcher.ts:78-99).
THEOREM FeedLosesNothing == FeedSpec => []NoneLost
<1>1. FeedInv => NoneLost
  BY DEF FeedInv
<1>. QED
  BY <1>1, FeedStarts, FeedKeeps, PTL DEF FeedSpec

\* The balance changes are the trade's own, with the stray SOL added.
LEMMA DeltasAre ==
    ASSUME NEW tx \in TransactionType
    PROVE  /\ StraySol(tx) \in Int
           /\ deltasFromMeta(tx) = [tx.wants EXCEPT ![SOL_MINT] = tx.wants[SOL_MINT] + StraySol(tx)]
<1>1. PICK w \in Int, r \in Int, f \in Int, stray \in Int, paid \in Int :
          /\ w = tx.wants[SOL_MINT] /\ r = tx.rent /\ f = tx.fee /\ stray = StraySol(tx)
          /\ paid = IF tx.sponsored THEN 0 ELSE f
          /\ stray = r - paid + f
  <2>1. PICK w \in Int, r \in Int, f \in Int : w = tx.wants[SOL_MINT] /\ r = tx.rent /\ f = tx.fee
    BY FeedAssumption DEF TransactionType
  <2>2. CASE tx.sponsored
    <3>1. StraySol(tx) = r + f /\ r + f \in Int /\ r + f = r - 0 + f
      BY <2>1, <2>2 DEF StraySol
    <3>. QED
      BY <2>1, <2>2, <3>1
  <2>3. CASE ~tx.sponsored
    <3>1. StraySol(tx) = r + 0 /\ r + 0 \in Int /\ r + 0 = r - f + f
      BY <2>1, <2>3 DEF StraySol
    <3>. QED
      BY <2>1, <2>3, <3>1
  <2>. QED
    BY <2>2, <2>3
<1>2. CASE tx.wrapped
  <2>1. deltasFromMeta(tx) = [tx.wants EXCEPT ![SOL_MINT] = 0 + r - paid + f + w]
    BY <1>1, <1>2 DEF deltasFromMeta
  <2>2. 0 + r - paid + f + w = w + stray
    BY <1>1
  <2>. QED
    BY <1>1, <2>1, <2>2
<1>3. CASE ~tx.wrapped
  <2>1. deltasFromMeta(tx) = [tx.wants EXCEPT ![SOL_MINT] = w + r - paid + f + 0]
    BY <1>1, <1>3 DEF deltasFromMeta
  <2>2. w + r - paid + f + 0 = w + stray
    BY <1>1
  <2>. QED
    BY <1>1, <2>1, <2>2
<1>. QED
  BY <1>2, <1>3

\* The swap that a set of legs comes to: one in, one out, one of them money.
SwapOf(wants, legs) ==
    LET asset == CHOOSE m \in legs : m \notin QUOTE_MINTS
    IN  [side |-> IF wants[asset] > 0 THEN "buy" ELSE "sell",
         asset |-> asset, amount |-> Size(wants[asset])]
Outs(wants, legs) == {m \in legs : wants[m] < 0}
Ins(wants, legs) == {m \in legs : wants[m] > 0}
OneForOne(wants, legs) ==
    /\ Cardinality(Outs(wants, legs)) = 1 /\ Cardinality(Ins(wants, legs)) = 1
    /\ ~(Outs(wants, legs) \subseteq QUOTE_MINTS <=> Ins(wants, legs) \subseteq QUOTE_MINTS)

\* Counting legs as extractSwap does is counting mints as Meant does.
LEMMA OneForOneIsMeant ==
    ASSUME NEW tx \in TransactionType
    PROVE  Meant(tx) = IF OneForOne(tx.wants, Moved(tx)) THEN SwapOf(tx.wants, Moved(tx)) ELSE NoTrade
<1> DEFINE moved == Moved(tx)
           outs == Outs(tx.wants, moved)
           ins == Ins(tx.wants, moved)
           money == moved \cap QUOTE_MINTS
           Opposed == \E m, n \in moved : tx.wants[m] < 0 /\ tx.wants[n] > 0
<1>1. IsFiniteSet(moved)
  BY FeedAssumption, FS_Subset DEF Moved
<1>2. IsFiniteSet(outs) /\ IsFiniteSet(ins) /\ IsFiniteSet(money)
  BY <1>1, FS_Subset DEF Outs, Ins
<1>3. \A m \in moved : tx.wants[m] \in Int /\ tx.wants[m] # 0
  BY DEF Moved, TransactionType
<1>4. outs \cup ins = moved /\ outs \cap ins = {}
  BY <1>3 DEF Outs, Ins
<1>5. Opposed <=> outs # {} /\ ins # {}
  BY DEF Outs, Ins
<1>6. Meant(tx) = IF Cardinality(moved) = 2 /\ Cardinality(money) = 1 /\ Opposed
                  THEN SwapOf(tx.wants, moved) ELSE NoTrade
  BY DEF Meant, SwapOf
<1> HIDE DEF moved, outs, ins, money, Opposed
<1>7. PICK o \in Nat, i \in Nat : /\ o = Cardinality(outs) /\ i = Cardinality(ins)
                                  /\ Cardinality(moved) = o + i
                                  /\ (outs # {} <=> o > 0) /\ (ins # {} <=> i > 0)
  <2>1. Cardinality(outs \cap ins) = 0
    BY <1>4, FS_EmptySet
  <2>2. Cardinality(outs) \in Nat /\ Cardinality(ins) \in Nat
    BY <1>2, FS_CardinalityType
  <2>3. Cardinality(outs \cup ins) = Cardinality(outs) + Cardinality(ins) - Cardinality(outs \cap ins)
    BY <1>2, FS_Union
  <2>4. PICK o \in Nat, i \in Nat : o = Cardinality(outs) /\ i = Cardinality(ins)
    BY <2>2
  <2>6. Cardinality(moved) = o + i - 0
    BY <1>4, <2>1, <2>3, <2>4
  <2>5. (outs = {} <=> Cardinality(outs) = 0) /\ (ins = {} <=> Cardinality(ins) = 0)
    BY <1>2, FS_EmptySet
  <2>. QED
    BY <2>4, <2>5, <2>6
<1>8. Cardinality(moved) = 2 /\ Opposed <=> o = 1 /\ i = 1
  BY <1>5, <1>7
<1>9. ASSUME o = 1, i = 1
      PROVE  Cardinality(money) = 1 <=> ~(outs \subseteq QUOTE_MINTS <=> ins \subseteq QUOTE_MINTS)
  <2>1. PICK m : outs = {m}
    BY <1>2, <1>7, <1>9, FS_Singleton
  <2>2. PICK n : ins = {n}
    BY <1>2, <1>7, <1>9, FS_Singleton
  <2>3. m # n /\ moved = {m, n}
    BY <1>4, <2>1, <2>2
  <2>4. Cardinality(money) = 1 <=> \E x : money = {x}
    BY <1>2, FS_Singleton
  <2>5. money = {x \in {m, n} : x \in QUOTE_MINTS}
    BY <2>3 DEF money
  <2>6. (\E x : money = {x}) <=> ~(m \in QUOTE_MINTS <=> n \in QUOTE_MINTS)
    <3>1. CASE m \in QUOTE_MINTS /\ n \in QUOTE_MINTS
      <4>1. m \in money /\ n \in money
        BY <2>5, <3>1
      <4>. QED
        BY <2>3, <3>1, <4>1
    <3>2. CASE m \in QUOTE_MINTS /\ n \notin QUOTE_MINTS
      <4>1. money = {m}
        BY <2>5, <3>2
      <4>. QED
        BY <3>2, <4>1
    <3>3. CASE m \notin QUOTE_MINTS /\ n \in QUOTE_MINTS
      <4>1. money = {n}
        BY <2>5, <3>3
      <4>. QED
        BY <3>3, <4>1
    <3>4. CASE m \notin QUOTE_MINTS /\ n \notin QUOTE_MINTS
      <4>1. money = {}
        BY <2>5, <3>4
      <4>. QED
        BY <3>4, <4>1
    <3>. QED
      BY <3>1, <3>2, <3>3, <3>4
  <2>. QED
    BY <2>1, <2>2, <2>4, <2>6
<1>10. OneForOne(tx.wants, moved) <=>
          o = 1 /\ i = 1 /\ ~(outs \subseteq QUOTE_MINTS <=> ins \subseteq QUOTE_MINTS)
  BY <1>7 DEF OneForOne, outs, ins
<1>11. OneForOne(tx.wants, moved) <=> Cardinality(moved) = 2 /\ Cardinality(money) = 1 /\ Opposed
  BY <1>8, <1>9, <1>10
<1>. QED
  BY <1>6, <1>11 DEF moved

\* The stray SOL of a clear transaction neither hides a leg of its trade nor adds
\* one, unless the trade had a single leg.
LEMMA LegsAreTheTrade ==
    ASSUME NEW tx \in Transactions, NEW known \in SUBSET Mints, ~TransferWithStraySol(tx)
    PROVE  LET deltas == deltasFromMeta(tx)
               legs == Legs(deltas, Significant(deltas, known))
           IN  \/ legs = Moved(tx) /\ \A m \in legs : deltas[m] < 0 <=> tx.wants[m] < 0
               \/ legs \subseteq {SOL_MINT} /\ Moved(tx) = {}
<1> DEFINE deltas == deltasFromMeta(tx)
           moved == Moved(tx)
           legs == Significant(deltas, known)
           S == SOL_MINT
<1>1. tx \in TransactionType /\ Clear(tx) /\ S \in Mints
  BY FeedAssumption, ClearAssumption
<1>2. PICK w \in Int, r \in Int, p \in Nat, c \in Nat \ {0}, d \in Nat :
          w = tx.wants[S] /\ r = StraySol(tx) /\ p = solPlumbingSol /\ c = CentsPerUnit[S] /\ d = dustUsd
  <2>1. StraySol(tx) \in Int
    BY <1>1, DeltasAre
  <2>. QED
    BY <1>1, <2>1, FeedAssumption DEF TransactionType
<1>3. deltas = [tx.wants EXCEPT ![S] = w + r]
  BY <1>1, <1>2, DeltasAre
<1>4. deltas[S] = w + r /\ \A m \in Mints \ {S} : deltas[m] = tx.wants[m] /\ tx.wants[m] \in Int
  BY <1>1, <1>3 DEF TransactionType
<1>5. /\ Size(r) <= p
      /\ w # 0 => Size(w) > Size(r) /\ (Size(w) - Size(r)) * c >= d
      /\ w # 0 /\ Cardinality(moved) > 2 => Size(w) > Size(r) + p
  BY <1>1, <1>2 DEF Clear, Size
<1> HIDE DEF deltas, legs
<1>6. \A m \in Mints \ {S} : m \in legs <=> m \in moved
  <2> SUFFICES ASSUME NEW m \in Mints \ {S} PROVE m \in legs <=> m \in moved
    OBVIOUS
  <2>1. m \in moved <=> tx.wants[m] # 0
    BY DEF Moved
  <2>2. m \in moved => Size(tx.wants[m]) * CentsPerUnit[m] >= dustUsd
    BY <1>1 DEF Clear
  <2>3. PICK n \in Int, e \in Nat : n = tx.wants[m] /\ e = CentsPerUnit[m]
    BY <1>4, FeedAssumption
  <2>4. Size(n * e) = Size(n) * e
    <3>1. CASE n < 0
      <4>1. (-n) * e = -(n * e) /\ n * e <= 0
        BY <3>1, <2>3
      <4>. QED
        BY <2>3, <3>1, <4>1 DEF Size
    <3>2. CASE n >= 0
      <4>1. n * e >= 0
        BY <3>2, <2>3
      <4>. QED
        BY <2>3, <3>2, <4>1 DEF Size
    <3>. QED
      BY <2>3, <3>1, <3>2
  <2>. QED
    BY <1>4, <2>1, <2>2, <2>3, <2>4 DEF legs, Significant
<1>7. S \in legs => w + r # 0
  BY <1>1, <1>4 DEF legs, Significant
<1>8. w # 0 => S \in legs /\ (w + r < 0 <=> w < 0) /\ Size(w + r) >= Size(w) - Size(r)
  <2> SUFFICES ASSUME w # 0
               PROVE  S \in legs /\ (w + r < 0 <=> w < 0) /\ Size(w + r) >= Size(w) - Size(r)
    OBVIOUS
  <2>1. /\ w + r # 0 /\ (w + r < 0 <=> w < 0) /\ Size(w + r) >= Size(w) - Size(r)
        /\ Size(w) - Size(r) \in Nat /\ Size(w + r) \in Nat
    BY <1>2, <1>5 DEF Size
  <2>2. Size((w + r) * c) = Size(w + r) * c
    <3> DEFINE n == w + r
    <3>1. n \in Int
      BY <1>2
    <3> HIDE DEF n
    <3>2. CASE n < 0
      <4>1. (-n) * c = -(n * c) /\ n * c <= 0
        BY <1>2, <3>1, <3>2
      <4>. QED
        BY <1>2, <3>1, <3>2, <4>1 DEF Size, n
    <3>3. CASE n >= 0
      <4>1. n * c >= 0
        BY <1>2, <3>1, <3>3
      <4>. QED
        BY <1>2, <3>1, <3>3, <4>1 DEF Size, n
    <3>. QED
      BY <3>1, <3>2, <3>3
  <2>3. Size(w + r) * c >= (Size(w) - Size(r)) * c
    <3> DEFINE x == Size(w + r)
               y == Size(w) - Size(r)
    <3>1. x \in Nat /\ y \in Nat /\ x >= y
      BY <2>1
    <3> HIDE DEF x, y
    <3>2. x * c >= y * c
      BY <1>2, <3>1
    <3>. QED
      BY <3>2 DEF x, y
  <2>4. Size((w + r) * c) >= d
    <3> DEFINE x == Size(w + r) * c
               y == (Size(w) - Size(r)) * c
    <3>1. x >= y /\ y >= d /\ x \in Int /\ y \in Int
      BY <1>2, <1>5, <2>1, <2>3
    <3> HIDE DEF x, y
    <3>2. x >= d
      BY <1>2, <3>1
    <3>. QED
      BY <2>2, <3>2 DEF x
  <2>. QED
    BY <1>1, <1>2, <1>4, <2>1, <2>4 DEF legs, Significant
<1>9. legs \subseteq Mints /\ moved \subseteq Mints /\ (S \in moved <=> w # 0)
  BY <1>1, <1>2 DEF legs, Significant, Moved
<1>10. IsFiniteSet(legs) /\ IsFiniteSet(moved) /\ Cardinality(legs) \in Nat /\ Cardinality(moved) \in Nat
  BY <1>9, FeedAssumption, FS_Subset, FS_CardinalityType
<1> DEFINE kept == Legs(deltas, legs)
<1>11. \A m \in Mints : isPlumbing(deltas, m) <=> m = S /\ Size(w + r) <= p
  BY <1>2, <1>4 DEF isPlumbing
<1>12. kept = IF Cardinality(legs) > 2 THEN {m \in legs : ~(m = S /\ Size(w + r) <= p)} ELSE legs
  BY <1>9, <1>11 DEF Legs
<1>13. CASE w # 0
  <2>1. legs = moved
    BY <1>6, <1>8, <1>9, <1>13
  <2>2. Cardinality(legs) > 2 => Size(w + r) > p
    <3>1. Size(w) \in Nat /\ Size(r) \in Nat /\ Size(w + r) \in Nat
      BY <1>2 DEF Size
    <3>. QED
      BY <1>2, <1>5, <1>8, <1>13, <2>1, <3>1
  <2>3. kept = moved
    <3>1. Size(w + r) \in Nat
      BY <1>2 DEF Size
    <3>. QED
      BY <1>2, <1>12, <2>1, <2>2, <3>1
  <2>4. \A m \in kept : deltas[m] < 0 <=> tx.wants[m] < 0
    BY <1>2, <1>4, <1>8, <1>9, <1>13, <2>3
  <2>. QED
    BY <2>3, <2>4 DEF legs, deltas
<1>14. CASE w = 0
  <2>1. moved = legs \ {S}
    BY <1>6, <1>9, <1>14
  <2>2. Size(w + r) <= p
    BY <1>2, <1>5, <1>14
  <2>3. \A m \in moved : deltas[m] < 0 <=> tx.wants[m] < 0
    BY <1>4, <1>9, <1>14
  <2>4. CASE S \notin legs
    <3>1. kept = moved
      BY <1>12, <2>1, <2>4
    <3>. QED
      BY <2>3, <3>1 DEF legs, deltas
  <2>5. CASE S \in legs /\ Cardinality(legs) > 2
    <3>1. kept = moved
      BY <1>12, <2>1, <2>2, <2>5
    <3>. QED
      BY <2>3, <3>1 DEF legs, deltas
  <2>6. CASE S \in legs /\ ~(Cardinality(legs) > 2)
    <3>1. Cardinality(moved) = Cardinality(legs) - 1
      BY <1>10, <2>1, <2>6, FS_RemoveElement
    <3>2. r # 0
      BY <1>2, <1>7, <1>14, <2>6
    <3>3. Cardinality(moved) # 1
      BY <1>2, <3>2 DEF TransferWithStraySol
    <3>4. Cardinality(moved) = 0
      BY <1>10, <2>6, <3>1, <3>3
    <3>5. moved = {}
      BY <1>10, <3>4, FS_EmptySet
    <3>6. kept = legs /\ legs \subseteq {S}
      BY <1>12, <2>1, <2>6, <3>5
    <3>. QED
      BY <3>5, <3>6 DEF legs, deltas
  <2>. QED
    BY <2>4, <2>5, <2>6
<1>. QED
  BY <1>2, <1>13, <1>14

\* Of a clear transaction the watcher reads the swap it was sent for or, when no
\* price of the money came, nothing.
LEMMA ReadAsMeant ==
    ASSUME NEW tx \in Transactions, NEW known \in SUBSET Mints
    PROVE  LET swap == extractSwap(deltasFromMeta(tx), known)
           IN  /\ swap = NoTrade \/ swap = Meant(tx) \/ TransferWithStraySol(tx)
               /\ QUOTE_MINTS \subseteq known /\ swap = NoTrade => Meant(tx) = NoTrade
<1> DEFINE deltas == deltasFromMeta(tx)
           moved == Moved(tx)
           legs == Legs(deltas, Significant(deltas, known))
           swap == extractSwap(deltas, known)
           Paid == legs \cap QUOTE_MINTS \cap known # {}
<1>1. tx \in TransactionType
  BY FeedAssumption
<1>2. Meant(tx) = IF OneForOne(tx.wants, moved) THEN SwapOf(tx.wants, moved) ELSE NoTrade
  BY <1>1, OneForOneIsMeant
<1>3. CASE TransferWithStraySol(tx)
  <2>1. Cardinality(Moved(tx)) = 1
    BY <1>3 DEF TransferWithStraySol
  <2>2. Meant(tx) = NoTrade
    BY <2>1 DEF Meant
  <2>. QED
    BY <1>3, <2>2
<1>4. CASE ~TransferWithStraySol(tx)
  <2>1. \/ legs = moved /\ \A m \in legs : deltas[m] < 0 <=> tx.wants[m] < 0
        \/ legs \subseteq {SOL_MINT} /\ moved = {}
    BY <1>4, LegsAreTheTrade
  <2>2. /\ \A m \in moved : tx.wants[m] \in Int /\ tx.wants[m] # 0 /\ m \in Mints
        /\ \A m \in Mints : m \notin QUOTE_MINTS => deltas[m] = tx.wants[m]
        /\ \A m \in Mints : deltas[m] \in Int
    <3>1. /\ deltas = [tx.wants EXCEPT ![SOL_MINT] = tx.wants[SOL_MINT] + StraySol(tx)]
          /\ StraySol(tx) \in Int
      BY <1>1, DeltasAre
    <3>2. tx.wants \in [Mints -> Int] /\ SOL_MINT \in Mints /\ SOL_MINT \in QUOTE_MINTS
      BY <1>1, FeedAssumption DEF TransactionType
    <3> HIDE DEF deltas
    <3>. QED
      BY <3>1, <3>2 DEF Moved
  <2>3. swap = IF ~OneForOne(deltas, legs) \/ ~Paid THEN NoTrade
               ELSE LET asset == CHOOSE m \in legs : m \notin QUOTE_MINTS
                    IN  [side |-> IF asset \in Ins(deltas, legs) THEN "buy" ELSE "sell",
                         asset |-> asset, amount |-> Size(deltas[asset])]
    BY DEF extractSwap, OneForOne, Outs, Ins
  <2> HIDE DEF deltas, legs, swap, Paid, moved
  <2>4. CASE legs \subseteq {SOL_MINT} /\ moved = {}
    <3>1. ~OneForOne(deltas, legs)
      <4> SUFFICES ASSUME OneForOne(deltas, legs) PROVE FALSE
        OBVIOUS
      <4>1. Outs(deltas, legs) \subseteq QUOTE_MINTS /\ Ins(deltas, legs) \subseteq QUOTE_MINTS
        BY <2>4, FeedAssumption DEF Outs, Ins
      <4>. QED
        BY <4>1 DEF OneForOne
    <3>2. ~OneForOne(tx.wants, moved)
      <4>1. Outs(tx.wants, moved) = {}
        BY <2>4 DEF Outs
      <4>. QED
        BY <4>1, FS_EmptySet DEF OneForOne
    <3>. QED
      BY <1>2, <2>3, <3>1, <3>2 DEF swap, deltas
  <2>5. CASE legs = moved /\ \A m \in legs : deltas[m] < 0 <=> tx.wants[m] < 0
    <3>1. \A m \in moved : /\ deltas[m] < 0 <=> tx.wants[m] < 0
                           /\ tx.wants[m] > 0 <=> ~(tx.wants[m] < 0)
      BY <2>2, <2>5
    <3>2. Outs(deltas, moved) = Outs(tx.wants, moved)
      BY <3>1 DEF Outs
    <3>3. OneForOne(deltas, moved) =>
              /\ \E m \in moved : m \notin QUOTE_MINTS
              /\ \E m \in moved : m \in QUOTE_MINTS
      <4> SUFFICES ASSUME OneForOne(deltas, moved)
                   PROVE  /\ \E m \in moved : m \notin QUOTE_MINTS
                          /\ \E m \in moved : m \in QUOTE_MINTS
        OBVIOUS
      <4>1. Outs(deltas, moved) # {} /\ Ins(deltas, moved) # {}
        BY FS_EmptySet DEF OneForOne
      <4>2. Outs(deltas, moved) \subseteq moved /\ Ins(deltas, moved) \subseteq moved
        BY DEF Outs, Ins
      <4>3. ~(Outs(deltas, moved) \subseteq QUOTE_MINTS <=> Ins(deltas, moved) \subseteq QUOTE_MINTS)
        BY DEF OneForOne
      <4>. QED
        BY <4>1, <4>2, <4>3
    <3>4. \A m \in moved : deltas[m] # 0
      <4>1. \A m \in moved : m \in legs
        BY <2>5
      <4>2. legs \subseteq Significant(deltas, known)
        BY DEF legs, Legs
      <4>. QED
        BY <4>1, <4>2 DEF Significant
    <3>5. Ins(deltas, moved) = Ins(tx.wants, moved)
      <4>1. \A m \in moved : deltas[m] > 0 <=> tx.wants[m] > 0
        BY <2>2, <3>1, <3>4
      <4>. QED
        BY <4>1 DEF Ins
    <3>6. OneForOne(deltas, moved) <=> OneForOne(tx.wants, moved)
      BY <3>2, <3>5 DEF OneForOne
    <3>7. CASE OneForOne(deltas, moved) /\ Paid
      <4> DEFINE asset == CHOOSE m \in moved : m \notin QUOTE_MINTS
      <4>1. asset \in moved /\ asset \notin QUOTE_MINTS
        BY <3>3, <3>7
      <4> HIDE DEF asset
      <4>2. deltas[asset] = tx.wants[asset] /\ (asset \in Ins(deltas, moved) <=> tx.wants[asset] > 0)
        BY <2>2, <3>5, <4>1 DEF Ins
      <4>3. swap = [side |-> IF asset \in Ins(deltas, moved) THEN "buy" ELSE "sell",
                    asset |-> asset, amount |-> Size(deltas[asset])]
        BY <2>3, <2>5, <3>7 DEF asset
      <4>4. SwapOf(tx.wants, moved) =
               [side |-> IF tx.wants[asset] > 0 THEN "buy" ELSE "sell",
                asset |-> asset, amount |-> Size(tx.wants[asset])]
        BY DEF SwapOf, asset
      <4>5. swap = SwapOf(tx.wants, moved)
        BY <4>2, <4>3, <4>4
      <4>. QED
        BY <1>2, <3>6, <3>7, <4>5 DEF swap, deltas
    <3>8. CASE ~OneForOne(deltas, moved)
      BY <1>2, <2>3, <2>5, <3>6, <3>8 DEF swap, deltas
    <3>9. CASE OneForOne(deltas, moved) /\ ~Paid
      <4>1. ~(QUOTE_MINTS \subseteq known)
        BY <2>5, <3>3, <3>9 DEF Paid
      <4>2. swap = NoTrade
        BY <2>3, <3>9
      <4>. QED
        BY <4>1, <4>2 DEF swap, deltas
    <3>. QED
      BY <3>7, <3>8, <3>9
  <2>. QED
    BY <2>1, <2>4, <2>5
<1>. QED
  BY <1>3, <1>4

\* What was delivered was meant and what was refused was no swap.
Faithful ==
    /\ \A i \in 1..Newest : chain[i] \in Transactions
    /\ refused \subseteq 1..Newest
    /\ \A i \in DOMAIN delivered : delivered[i] = Meant(chain[i]) \/ TransferWithStraySol(chain[i])
    /\ \A i \in refused : Meant(chain[i]) = NoTrade

LEMMA FaithfulKept == FeedInv /\ Faithful /\ [FeedNext]_feedVars => Faithful'
<1> SUFFICES ASSUME FeedInv, Faithful, [FeedNext]_feedVars PROVE Faithful'
  OBVIOUS
<1>1. ASSUME UNCHANGED <<chain, delivered, refused>> PROVE Faithful'
  BY <1>1 DEF Faithful, Newest
<1>2. ASSUME NEW tx \in Transactions, Land(tx) PROVE Faithful'
  <2>1. PICK n \in Nat : n = Newest /\ DOMAIN chain = 1..n
    BY DEF FeedInv
  <2>2. chain' = [i \in 1..(n + 1) |-> IF i > n THEN tx ELSE chain[i]]
        /\ UNCHANGED <<delivered, refused>>
    BY <1>2, <2>1 DEF Land
  <2>3. DOMAIN chain' = 1..(n + 1) /\ Newest' = n + 1
    <3>1. Cardinality(1..(n + 1)) = n + 1
      BY FS_Interval
    <3>. QED
      BY <2>2, <3>1 DEF Newest
  <2>4. \A i \in 1..n : i \in 1..(n + 1) /\ chain'[i] = chain[i]
    BY <2>2
  <2>5. \A i \in 1..(n + 1) : i \in 1..n \/ chain'[i] = tx
    BY <2>2
  <2>6. DOMAIN delivered \subseteq 1..n /\ refused \subseteq 1..n /\ \A i \in 1..n : chain[i] \in Transactions
    BY <2>1 DEF FeedInv, Faithful
  <2>7. \A i \in 1..Newest' : chain'[i] \in Transactions
    BY <1>2, <2>3, <2>4, <2>5, <2>6
  <2>8. refused' \subseteq 1..Newest'
    BY <2>2, <2>3, <2>4, <2>6
  <2>. QED
    BY <2>2, <2>4, <2>6, <2>7, <2>8 DEF Faithful
<1>3. ASSUME NEW unread, NEW known \in PriceViews, pollEnd(unread, known) PROVE Faithful'
  <2> DEFINE found == tradesFrom(listed, unread, known)
             swaps == Swaps(found)
  <2>1. /\ delivered' = [i \in DOMAIN delivered \cup swaps |->
                            IF i \in swaps THEN found[i] ELSE delivered[i]]
        /\ refused' = refused \cup
              IF QUOTE_MINTS \subseteq known THEN Succeeded(listed) \ (swaps \cup unread) ELSE {}
        /\ UNCHANGED chain
    BY <1>3 DEF pollEnd
  <2>2. /\ \A i \in swaps : i \in Succeeded(listed) /\ found[i] # NoTrade
        /\ \A i \in Succeeded(listed) \ unread : found[i] = extractSwap(deltasFromMeta(chain[i]), known)
        /\ swaps \subseteq Succeeded(listed) \ unread
        /\ \A i \in Succeeded(listed) \ unread : i \in swaps \/ found[i] = NoTrade
    BY DEF Swaps, tradesFrom
  <2> HIDE DEF swaps, found
  <2>3. Succeeded(listed) \subseteq 1..Newest
    <3>1. PICK upto \in Nat : /\ cursor < upto /\ upto <= Newest
                              /\ listed = Signatures(cursor, upto, pageLimit)
      BY <1>3 DEF FeedInv, Listing, pollEnd
    <3>2. \A i \in (cursor + 1)..upto : i \in 1..Newest
      BY <3>1 DEF FeedInv
    <3>. QED
      BY <3>1, <3>2 DEF Signatures, Succeeded
  <2>4. \A i \in Succeeded(listed) : chain[i] \in Transactions
    BY <2>3 DEF Faithful
  <2>5. known \in SUBSET Mints
    BY FeedAssumption
  <2>6. ASSUME NEW i \in Succeeded(listed) \ unread
        PROVE  /\ i \in swaps => found[i] = Meant(chain[i]) \/ TransferWithStraySol(chain[i])
               /\ QUOTE_MINTS \subseteq known /\ i \notin swaps => Meant(chain[i]) = NoTrade
    BY <2>2, <2>4, <2>5, ReadAsMeant
  <2>7. \A i \in DOMAIN delivered' : delivered'[i] = Meant(chain[i]) \/ TransferWithStraySol(chain[i])
    BY <2>1, <2>2, <2>6 DEF Faithful
  <2>8. \A i \in refused' : Meant(chain[i]) = NoTrade
    BY <2>1, <2>6 DEF Faithful
  <2>9. refused' \subseteq 1..Newest
    BY <2>1, <2>3 DEF Faithful
  <2>. QED
    BY <2>1, <2>7, <2>8, <2>9 DEF Faithful, Newest
<1>4. CASE pollStart \/ pollFails
  BY <1>1, <1>4 DEF pollStart, pollFails
<1>5. CASE historyStart
  BY <1>1, <1>5 DEF historyStart
<1>6. ASSUME NEW unread, NEW fails \in BOOLEAN, historyPage(unread, fails) PROVE Faithful'
  BY <1>1, <1>6 DEF historyPage
<1>7. CASE historyThrows
  BY <1>1, <1>7 DEF historyThrows
<1>8. CASE UNCHANGED feedVars
  BY <1>1, <1>8 DEF feedVars
<1>. QED
  BY <1>2, <1>3, <1>4, <1>5, <1>6, <1>7, <1>8 DEF FeedNext

\* Nothing is lost, what is delivered is the very swap that was sent, a swap
\* that was read and priced is never skipped, and none is invented but out of a
\* transfer with stray SOL: whatever the mints, prices, rents and routes, and
\* whoever paid the fee (watcher.ts:38-43, 78-99; swaps.ts:67-119, 188-193).
THEOREM TradesAreAsMade == FeedSpec => []MirrorsWhatWasTraded
<1>1. FeedInit => Faithful
  <2> SUFFICES ASSUME FeedInit PROVE Faithful
    OBVIOUS
  <2>1. DOMAIN chain = {} /\ DOMAIN delivered = {} /\ refused = {}
    BY DEF FeedInit
  <2>2. Newest = 0 /\ 1..0 = {}
    BY <2>1, FS_EmptySet DEF Newest
  <2>. QED
    BY <2>1, <2>2 DEF Faithful
<1>2. FeedInv /\ Faithful => MirrorsWhatWasTraded
  BY DEF FeedInv, Faithful, MirrorsWhatWasTraded
<1>. QED
  BY <1>1, <1>2, FeedStarts, FeedKeeps, FaithfulKept, PTL DEF FeedSpec

\* Whatever lands while it walks and wherever it stops, the transactions a
\* backfill read and those it reported as skipped are together an unbroken
\* stretch of the chain, up to where it began (watcher.ts:126-153, 188-195,
\* 221-226).
THEOREM BackfillIsUnbroken == FeedSpec => []BackfillHasNoHole
<1>1. FeedInv => BackfillHasNoHole
  BY DEF FeedInv, Walked
<1>. QED
  BY <1>1, FeedStarts, FeedKeeps, PTL DEF FeedSpec

-----------------------------------------------------------------------------
(* A token's candles *)

Has(S, i) == \E c \in S : c.i = i
WholeSeries(S) == \A c, d \in S, i \in Common : c.i <= i /\ i <= d.i => Has(S, i)

LEMMA SourceFacts ==
    /\ LastMs \in Nat /\ Common \subseteq Nat
    /\ \A s \in Sources : Common \subseteq Traded[s] /\ Traded[s] \subseteq 0..LastMs
<1>1. LastMs \in Nat /\ \A s \in Sources : Traded[s] \subseteq 0..LastMs
  BY CandleAssumption
<1>. QED
  BY <1>1 DEF Common

LEMMA CandleFacts ==
    ASSUME NEW c \in Candle
    PROVE  c.i \in Nat /\ c.i <= LastMs /\ c.final \in BOOLEAN /\ ts(c) = 2 * c.i
<1>1. PICK s \in Sources : c.i \in Traded[s]
  BY DEF Candle
<1>2. c.i \in 0..LastMs /\ LastMs \in Nat
  BY <1>1, SourceFacts
<1>3. c.i \in Nat /\ c.i <= LastMs /\ c.final \in BOOLEAN
  BY <1>2 DEF Candle
<1>. QED
  BY <1>3 DEF ts, step

LEMMA MergedHas ==
    ASSUME NEW old, NEW new, NEW i
    PROVE  Has(mergeCandles(old, new), i) <=> Has(old, i) \/ Has(new, i)
  BY DEF Has, mergeCandles

LEMMA MergedFrom ==
    ASSUME NEW old, NEW new
    PROVE  mergeCandles(old, new) \subseteq old \cup new
  BY DEF mergeCandles

\* A series has a first and a last candle.
LEMMA Ends ==
    ASSUME NEW S \in SUBSET Candle, S # {}
    PROVE  \E f, l \in S : /\ FirstTs(S) = 2 * f.i /\ LastTs(S) = 2 * l.i
                           /\ \A c \in S : f.i <= c.i /\ c.i <= l.i
<1> DEFINE ids == {c.i : c \in S}
           ages == {LastMs - c.i : c \in S}
<1>1. \A c \in S : c.i \in Nat /\ c.i <= LastMs /\ LastMs - c.i \in Nat /\ ts(c) = 2 * c.i
  BY CandleFacts, CandleAssumption
<1>2. PICK id \in ids : \A x \in ids : id <= x
  <2>1. ids \subseteq Nat /\ ids # {}
    BY <1>1
  <2> HIDE DEF ids
  <2>. QED
    BY <2>1, LeastExists
<1>3. PICK age \in ages : \A x \in ages : age <= x
  <2>1. ages \subseteq Nat /\ ages # {}
    BY <1>1
  <2> HIDE DEF ages
  <2>. QED
    BY <2>1, LeastExists
<1>4. PICK f \in S : f.i = id
  BY <1>2
<1>5. PICK l \in S : LastMs - l.i = age
  BY <1>3
<1>6. \A c \in S : f.i <= c.i
  BY <1>2, <1>4
<1>7. \A c \in S : c.i <= l.i
  <2>1. SUFFICES ASSUME NEW c \in S PROVE c.i <= l.i
    OBVIOUS
  <2>2. age <= LastMs - c.i
    BY <1>3
  <2>. QED
    BY <1>1, <1>5, <2>2, CandleAssumption
<1>8. FirstTs(S) = 2 * f.i
  <2> DEFINE times == {ts(c) : c \in S}
             Least(t) == \A c \in S : t <= ts(c)
  <2>1. 2 * f.i \in times /\ Least(2 * f.i)
    BY <1>1, <1>6
  <2>2. \A t \in times : Least(t) => t = 2 * f.i
    BY <1>1, <1>6
  <2>3. (CHOOSE t \in times : Least(t)) = 2 * f.i
    <3> HIDE DEF times, Least
    <3>. QED
      BY <2>1, <2>2
  <2>. QED
    BY <2>3 DEF FirstTs
<1>9. LastTs(S) = 2 * l.i
  <2> DEFINE times == {ts(c) : c \in S}
             Most(t) == \A c \in S : t >= ts(c)
  <2>1. 2 * l.i \in times /\ Most(2 * l.i)
    BY <1>1, <1>7
  <2>2. \A t \in times : Most(t) => t = 2 * l.i
    BY <1>1, <1>7
  <2>3. (CHOOSE t \in times : Most(t)) = 2 * l.i
    <3> HIDE DEF times, Most
    <3>. QED
      BY <2>1, <2>2
  <2>. QED
    BY <2>3 DEF LastTs
<1>. QED
  BY <1>6, <1>7, <1>8, <1>9

\* What a cached series S leaves to fetch of the window from `from` to `to`:
\* a range that takes in all of S, and all of the window but what S has at
\* its own end.
Asks(S, from, to, m1, m2) ==
    /\ m1 \in Nat /\ m2 \in Nat
    /\ \A c \in S : m1 <= 2 * c.i /\ 2 * c.i <= m2
    /\ \A i \in Common : from + 2 <= 2 * i => m1 <= 2 * i
    /\ \A i \in Common : 2 * i <= to - 2 => 2 * i <= m2 /\ (m2 - 2 < 2 * i => Has(S, i))

LEMMA MissingRange ==
    ASSUME NEW S \in SUBSET Candle, NEW from \in Nat, NEW to \in Nat
    PROVE  LET missing == missingRange(S, from, to)
           IN  /\ missing # NoWindow =>
                      \E m1, m2 \in Nat : missing = <<m1, m2>> /\ Asks(S, from, to, m1, m2)
               /\ missing = NoWindow /\ WholeSeries(S) =>
                      \A i \in Common : from + 2 <= 2 * i /\ 2 * i <= to - 2 => Has(S, i)
<1> DEFINE missing == missingRange(S, from, to)
<1>1. Common \subseteq Nat /\ \A a, b \in Nat : <<a, b>> # NoWindow
  <2>2. Common \subseteq Nat
    BY SourceFacts
  <2>3. \A a, b \in Nat : <<a, b>> \in Seq(Int)
    OBVIOUS
  <2>4. NoWindow \notin Seq(Int)
    BY CandleAssumption
  <2>5. \A a, b \in Nat : <<a, b>> # NoWindow
    BY <2>3, <2>4
  <2>. QED
    BY <2>2, <2>5
<1>2. CASE S = {}
  <2>1. missing = <<from, to>>
    BY <1>2 DEF missingRange
  <2>2. Asks(S, from, to, from, to)
    BY <1>1, <1>2 DEF Asks
  <2>. QED
    BY <1>1, <2>1, <2>2
<1>3. CASE S # {}
  <2>1. PICK f, l \in S : /\ FirstTs(S) = 2 * f.i /\ LastTs(S) = 2 * l.i
                          /\ \A c \in S : f.i <= c.i /\ c.i <= l.i
    BY <1>3, Ends
  <2>2. PICK first \in Nat, last \in Nat : first = f.i /\ last = l.i
    BY CandleFacts
  <2>3. \A c \in S : c.i \in Nat /\ first <= c.i /\ c.i <= last
    BY <2>1, <2>2, CandleFacts
  <2>4. CASE from >= 2 * first - 2 /\ to <= 2 * last + 2
    <3>1. missing = NoWindow
      BY <1>3, <2>1, <2>2, <2>4 DEF missingRange, step
    <3>2. ASSUME WholeSeries(S), NEW i \in Common, from + 2 <= 2 * i, 2 * i <= to - 2
          PROVE  Has(S, i)
      <4>1. i \in Nat /\ first <= i /\ i <= last
        BY <1>1, <2>4, <3>2
      <4>. QED
        BY <2>2, <3>2, <4>1 DEF WholeSeries
    <3>. QED
      BY <3>1, <3>2
  <2>5. CASE ~(from >= 2 * first - 2 /\ to <= 2 * last + 2)
    <3>1. PICK m1 \in Nat : m1 = IF from < 2 * first - 2 THEN from ELSE 2 * first
      OBVIOUS
    <3>2. PICK m2 \in Nat : m2 = IF to > 2 * last + 2 THEN to ELSE 2 * last
      OBVIOUS
    <3>3. missing = <<m1, m2>>
      BY <1>3, <2>1, <2>2, <2>5, <3>1, <3>2 DEF missingRange, Union, step
    <3>4. \A c \in S : m1 <= 2 * c.i /\ 2 * c.i <= m2
      BY <2>3, <3>1, <3>2
    <3>5. \A i \in Common : from + 2 <= 2 * i => m1 <= 2 * i
      BY <1>1, <3>1
    <3>6. ASSUME NEW i \in Common, 2 * i <= to - 2
          PROVE  2 * i <= m2 /\ (m2 - 2 < 2 * i => Has(S, i))
      <4>1. i \in Nat
        BY <1>1
      <4>2. 2 * i <= m2
        BY <3>2, <3>6, <4>1
      <4>3. m2 - 2 < 2 * i => i = last
        BY <3>2, <3>6, <4>1
      <4>4. i = last => Has(S, i)
        BY <2>2 DEF Has
      <4>. QED
        BY <4>2, <4>3, <4>4
    <3>7. Asks(S, from, to, m1, m2)
      BY <3>4, <3>5, <3>6 DEF Asks
    <3>. QED
      BY <1>1, <3>3, <3>7
  <2>. QED
    BY <2>4, <2>5
<1>. QED
  BY <1>2, <1>3

\* What an endpoint holds of a range, and a page of it.
LEMMA AvailableFacts ==
    ASSUME clockMs \in Nat, NEW source \in Sources, NEW from \in Int, NEW to \in Int
    PROVE  LET all == Available(source, from, to)
           IN  /\ all \in SUBSET Candle /\ IsFiniteSet(all)
               /\ \A c \in all : /\ from <= 2 * c.i /\ 2 * c.i <= to
                                 /\ c.final \/ clockMs < 2 * (c.i + 1)
               /\ \A i \in Common : from <= 2 * i /\ 2 * i <= to => Has(all, i)
<1> DEFINE all == Available(source, from, to)
           traded == Traded[source]
           ids == {j \in traded : 2 * j \in from..to}
           f == [i \in ids |-> [i |-> i, final |-> clockMs >= (i + 1) * 2]]
<1>1. traded \subseteq Nat /\ Common \subseteq traded /\ IsFiniteSet(ids)
  <2>1. traded \subseteq 0..LastMs /\ LastMs \in Nat /\ Common \subseteq traded
    BY SourceFacts
  <2>2. IsFiniteSet(0..LastMs)
    BY <2>1, FS_Interval
  <2>3. ids \in SUBSET (0..LastMs)
    BY <2>1
  <2>4. traded \subseteq Nat
    BY <2>1
  <2>5. IsFiniteSet(ids)
    <3> HIDE DEF ids
    <3>. QED
      BY <2>2, <2>3, FS_Subset
  <2>. QED
    BY <2>1, <2>4, <2>5
<1>2. all = {[i |-> i, final |-> clockMs >= (i + 1) * 2] : i \in ids}
  <2>1. \A j \in traded : j * 2 = 2 * j
    BY <1>1
  <2>2. {j \in traded : j * 2 \in from..to} = ids
    BY <2>1
  <2>. QED
    BY <2>2 DEF Available, step
<1>3. all \in SUBSET Candle
  <2>1. traded \subseteq UNION {Traded[s] : s \in Sources}
    OBVIOUS
  <2>2. \A i \in ids : [i |-> i, final |-> clockMs >= (i + 1) * 2] \in Candle
    <3>1. ASSUME NEW i \in ids PROVE (clockMs >= (i + 1) * 2) \in BOOLEAN
      OBVIOUS
    <3>. QED
      BY <2>1, <3>1 DEF Candle
  <2> HIDE DEF all, ids
  <2>. QED
    BY <1>2, <2>2
<1>4. IsFiniteSet(all)
  <2>1. f \in Surjection(ids, all)
    BY <1>2 DEF Surjection
  <2> HIDE DEF all, ids, f
  <2>. QED
    BY <1>1, <2>1, FS_Surjection
<1>5. ASSUME NEW c \in all
      PROVE  from <= 2 * c.i /\ 2 * c.i <= to /\ (c.final \/ clockMs < 2 * (c.i + 1))
  <2>1. PICK i \in ids : c = [i |-> i, final |-> clockMs >= (i + 1) * 2]
    BY <1>2
  <2>2. c.i = i /\ (c.final <=> clockMs >= (i + 1) * 2)
    BY <2>1
  <2>3. i \in Nat /\ from <= 2 * i /\ 2 * i <= to
    BY <1>1
  <2>4. clockMs >= (i + 1) * 2 \/ clockMs < 2 * (i + 1)
    BY <2>3
  <2>. QED
    BY <2>2, <2>3, <2>4
<1>6. ASSUME NEW i \in Common, from <= 2 * i, 2 * i <= to PROVE Has(all, i)
  <2>1. i \in ids
    BY <1>1, <1>6
  <2>2. [i |-> i, final |-> clockMs >= (i + 1) * 2] \in all
    BY <1>2, <2>1
  <2>. QED
    BY <2>2 DEF Has
<1>. QED
  BY <1>3, <1>4, <1>5, <1>6

\* A page is what lies nearest the end it starts from, as many as it may hold.
LEMMA BackwardPage ==
    ASSUME clockMs \in Nat, NEW source \in Sources, source # "birdeye", NEW from \in Int, NEW to \in Int
    PROVE  LET all == Available(source, 0, to)
               page == Page(source, from, to)
           IN  /\ page \subseteq all
               /\ \A c \in page, d \in all : c.i <= d.i => d \in page
               /\ all # {} => page # {}
<1> DEFINE all == Available(source, 0, to)
           Newer(c) == {d \in all : d.i > c.i}
           page == Page(source, from, to)
<1>1. all \in SUBSET Candle /\ IsFiniteSet(all)
  BY AvailableFacts
<1>2. \A c \in all : c.i \in Nat
  BY <1>1, CandleFacts
<1>3. page = {c \in all : Cardinality(Newer(c)) < PAGE_LIMIT}
  BY DEF Page
<1> HIDE DEF all, page
<1>4. ASSUME NEW c \in page, NEW d \in all, c.i <= d.i PROVE d \in page
  <2>1. c \in all /\ Newer(d) \in SUBSET Newer(c) /\ Newer(c) \in SUBSET all
    BY <1>2, <1>3, <1>4
  <2>2. IsFiniteSet(Newer(c)) /\ IsFiniteSet(Newer(d))
        /\ Cardinality(Newer(d)) <= Cardinality(Newer(c))
    <3> HIDE DEF Newer
    <3>1. IsFiniteSet(Newer(c))
      BY <1>1, <2>1, FS_Subset
    <3>. QED
      BY <2>1, <3>1, FS_Subset
  <2>3. Cardinality(Newer(c)) < PAGE_LIMIT
    BY <1>3
  <2>4. Cardinality(Newer(c)) \in Nat /\ Cardinality(Newer(d)) \in Nat /\ PAGE_LIMIT \in Nat
    BY <2>2, FS_CardinalityType, CandleAssumption
  <2>5. Cardinality(Newer(d)) < PAGE_LIMIT
    <3> HIDE DEF Newer
    <3>. QED
      BY <2>2, <2>3, <2>4
  <2>. QED
    BY <1>3, <2>5
<1>5. ASSUME all # {} PROVE page # {}
  <2>1. PICK l \in all : \A c \in all : c.i <= l.i
    BY <1>1, <1>5, Ends
  <2>2. Newer(l) = {}
    BY <1>2, <2>1
  <2>3. Cardinality(Newer(l)) = 0
    BY <2>2, FS_EmptySet
  <2>4. PAGE_LIMIT \in Nat /\ PAGE_LIMIT > 0
    BY CandleAssumption
  <2>5. Cardinality(Newer(l)) < PAGE_LIMIT
    BY <2>3, <2>4
  <2>. QED
    BY <1>3, <2>5
<1>6. page \subseteq all
  BY <1>3
<1>. QED
  BY <1>4, <1>5, <1>6 DEF all, page

LEMMA ForwardPage ==
    ASSUME clockMs \in Nat, "birdeye" \in Sources, NEW from \in Int, NEW to \in Int
    PROVE  LET all == Available("birdeye", from, to)
               page == Page("birdeye", from, to)
           IN  /\ page \subseteq all
               /\ \A c \in page, d \in all : d.i <= c.i => d \in page
               /\ all # {} => page # {}
               /\ Cardinality(page) < PAGE_LIMIT => page = all
<1> DEFINE all == Available("birdeye", from, to)
           Older(c) == {d \in all : d.i < c.i}
           page == Page("birdeye", from, to)
<1>1. all \in SUBSET Candle /\ IsFiniteSet(all)
  BY AvailableFacts
<1>2. \A c \in all : c.i \in Nat
  BY <1>1, CandleFacts
<1>3. page = {c \in all : Cardinality(Older(c)) < PAGE_LIMIT}
  BY DEF Page
<1>4. PAGE_LIMIT \in Nat /\ PAGE_LIMIT > 0
  BY CandleAssumption
<1> HIDE DEF all, page
<1>5. ASSUME NEW c \in all
      PROVE  IsFiniteSet(Older(c)) /\ Cardinality(Older(c)) \in Nat
  <2>1. Older(c) \in SUBSET all
    OBVIOUS
  <2> HIDE DEF Older
  <2>. QED
    BY <1>1, <2>1, FS_Subset, FS_CardinalityType
<1>6. ASSUME NEW c \in page, NEW d \in all, d.i <= c.i PROVE d \in page
  <2>1. c \in all /\ Older(d) \in SUBSET Older(c)
    BY <1>2, <1>3, <1>6
  <2>2. Cardinality(Older(d)) <= Cardinality(Older(c))
    <3> HIDE DEF Older
    <3>. QED
      BY <1>5, <2>1, FS_Subset
  <2>3. Cardinality(Older(c)) < PAGE_LIMIT
    BY <1>3
  <2>4. Cardinality(Older(d)) < PAGE_LIMIT
    <3> HIDE DEF Older
    <3>. QED
      BY <1>4, <1>5, <2>1, <2>2, <2>3
  <2>. QED
    BY <1>3, <2>4
<1>7. ASSUME all # {} PROVE page # {}
  <2>1. PICK f \in all : \A c \in all : f.i <= c.i
    BY <1>1, <1>7, Ends
  <2>2. Older(f) = {}
    BY <1>2, <2>1
  <2>3. Cardinality(Older(f)) < PAGE_LIMIT
    BY <1>4, <2>2, FS_EmptySet
  <2>. QED
    BY <1>3, <2>3
<1>8. ASSUME Cardinality(page) < PAGE_LIMIT, page # all PROVE FALSE
  <2>1. all \ page # {} /\ all \ page \in SUBSET Candle
    BY <1>1, <1>3, <1>8
  <2>2. PICK c \in all \ page : \A d \in all \ page : c.i <= d.i
    BY <2>1, Ends
  <2>3. Older(c) \in SUBSET page
    BY <1>2, <2>2
  <2>4. page \in SUBSET all
    BY <1>3
  <2>5. IsFiniteSet(page) /\ Cardinality(page) \in Nat
    BY <1>1, <2>4, FS_Subset, FS_CardinalityType
  <2>6. Cardinality(Older(c)) <= Cardinality(page)
    <3> HIDE DEF Older
    <3>. QED
      BY <2>3, <2>5, FS_Subset
  <2>7. ~(Cardinality(Older(c)) < PAGE_LIMIT)
    BY <1>3, <2>2
  <2>8. Cardinality(Older(c)) \in Nat
    BY <1>5, <2>2
  <2> HIDE DEF Older
  <2>. QED
    BY <1>4, <1>8, <2>5, <2>6, <2>7, <2>8
<1>9. page \subseteq all
  BY <1>3
<1>. QED
  BY <1>6, <1>7, <1>8, <1>9 DEF all, page

-----------------------------------------------------------------------------
(* A fetch of the range from m1 to m2, page by page *)

\* Nothing is missing of the range, nor among what came with it, but perhaps
\* a last candle that is newer than all that came.
Complete(got, m1, m2) ==
    /\ \A c \in got : 2 * c.i <= m2
    /\ \A i \in Common :
          2 * i <= m2 /\ (m1 <= 2 * i \/ \E c \in got : c.i <= i) =>
              Has(got, i) \/ (m2 - 2 < 2 * i /\ \A c \in got : c.i < i)

\* Forwards, all is there below where the next page begins; backwards, above.
Forward(got, from, to, m1, m2) ==
    /\ to = m2 /\ m1 <= from
    /\ \A c \in got : m1 <= 2 * c.i /\ 2 * c.i < from /\ 2 * c.i <= m2
    /\ \A i \in Common : m1 <= 2 * i /\ 2 * i < from /\ 2 * i <= m2 => Has(got, i)
Backward(got, from, to, m1, m2) ==
    /\ from = m1 /\ to <= m2
    /\ \A c \in got : to < 2 * c.i /\ 2 * c.i <= m2
    /\ \A i \in Common : to < 2 * i /\ 2 * i <= m2 => Has(got, i)

LEMMA EmptyFetch ==
    ASSUME NEW m1 \in Nat, NEW m2 \in Nat
    PROVE  Forward({}, m1, m2, m1, m2) /\ Backward({}, m1, m2, m1, m2)
<1>1. \A i \in Common : ~(m1 <= 2 * i /\ 2 * i < m1) /\ ~(m2 < 2 * i /\ 2 * i <= m2)
  BY SourceFacts
<1>. QED
  BY <1>1 DEF Forward, Backward

LEMMA ForwardStep ==
    ASSUME clockMs \in Nat, "birdeye" \in Sources, NEW got \in SUBSET Candle, NEW from \in Int, NEW to \in Int,
           NEW m1 \in Nat, NEW m2 \in Nat, Forward(got, from, to, m1, m2)
    PROVE  LET page == Page("birdeye", from, to)
               merged == mergeCandles(got, page)
           IN  /\ page \in SUBSET Candle
               /\ page = {} \/ Cardinality(page) < PAGE_LIMIT \/ LastTs(page) + 2 >= to
                      => Complete(merged, m1, m2)
               /\ page # {} => Forward(merged, LastTs(page) + 2, to, m1, m2)
<1> DEFINE all == Available("birdeye", from, to)
           page == Page("birdeye", from, to)
           merged == mergeCandles(got, page)
<1>1. /\ all \in SUBSET Candle
      /\ \A c \in all : from <= 2 * c.i /\ 2 * c.i <= to
      /\ \A i \in Common : from <= 2 * i /\ 2 * i <= to => Has(all, i)
  BY AvailableFacts
<1>2. /\ page \subseteq all
      /\ \A c \in page, d \in all : d.i <= c.i => d \in page
      /\ all # {} => page # {}
      /\ Cardinality(page) < PAGE_LIMIT => page = all
  BY ForwardPage
<1>3. /\ merged \subseteq got \cup page
      /\ \A i : Has(merged, i) <=> Has(got, i) \/ Has(page, i)
  BY MergedFrom, MergedHas
<1> HIDE DEF all, page, merged
<1>4. /\ to = m2 /\ m1 <= from
      /\ \A c \in got : m1 <= 2 * c.i /\ 2 * c.i < from /\ 2 * c.i <= m2
      /\ \A i \in Common : m1 <= 2 * i /\ 2 * i < from /\ 2 * i <= m2 => Has(got, i)
  BY DEF Forward
<1>5. Common \subseteq Nat /\ \A c \in Candle : c.i \in Nat
  BY CandleFacts, SourceFacts
<1>6. \A c \in merged : m1 <= 2 * c.i /\ 2 * c.i <= m2
  BY <1>1, <1>2, <1>3, <1>4, <1>5
<1>7. ASSUME page = all PROVE Complete(merged, m1, m2)
  <2>1. ASSUME NEW i \in Common, 2 * i <= m2, m1 <= 2 * i PROVE Has(merged, i)
    BY <1>1, <1>3, <1>4, <1>5, <1>7, <2>1
  <2>2. \A i \in Common, c \in merged : c.i <= i => m1 <= 2 * i
    BY <1>1, <1>2, <1>3, <1>5, <1>6
  <2>. QED
    BY <1>6, <2>1, <2>2 DEF Complete
<1>8. ASSUME page # {}
      PROVE  /\ LastTs(page) + 2 >= to => Complete(merged, m1, m2)
             /\ Forward(merged, LastTs(page) + 2, to, m1, m2)
  <2>1. page \in SUBSET Candle
    BY <1>1, <1>2
  <2>2. PICK l \in page : LastTs(page) = 2 * l.i /\ \A c \in page : c.i <= l.i
    BY <1>8, <2>1, Ends
  <2>3. PICK last \in Nat : last = l.i /\ LastTs(page) = 2 * last
    BY <1>5, <2>1, <2>2
  <2>4. from <= 2 * last /\ 2 * last <= to
    BY <1>1, <1>2, <2>3
  <2>5. ASSUME NEW i \in Common, m1 <= 2 * i, i <= last PROVE Has(merged, i)
    <3>1. i \in Nat /\ 2 * i <= m2
      BY <1>4, <1>5, <2>4, <2>5
    <3>2. CASE 2 * i < from
      BY <1>3, <1>4, <2>5, <3>1, <3>2
    <3>3. CASE from <= 2 * i
      <4>1. PICK d \in all : d.i = i
        BY <1>1, <1>4, <3>1, <3>3 DEF Has
      <4>2. d \in page
        BY <1>2, <2>3, <2>5, <4>1
      <4>. QED
        BY <1>3, <4>1, <4>2 DEF Has
    <3>. QED
      BY <3>1, <3>2, <3>3
  <2>6. \A c \in merged : c.i <= last
    <3>1. \A c \in got : c.i <= last
      BY <1>4, <1>5, <2>4
    <3>2. \A c \in page : c.i <= last
      BY <2>2, <2>3
    <3>. QED
      BY <1>3, <3>1, <3>2
  <2>7. ASSUME LastTs(page) + 2 >= to PROVE Complete(merged, m1, m2)
    <3>1. ASSUME NEW i \in Common, 2 * i <= m2, m1 <= 2 * i
          PROVE  Has(merged, i) \/ (m2 - 2 < 2 * i /\ \A c \in merged : c.i < i)
      <4>1. CASE i <= last
        BY <2>5, <3>1, <4>1
      <4>2. CASE i > last
        <5>1. m2 - 2 < 2 * i
          BY <1>4, <1>5, <2>3, <2>7, <4>2
        <5>2. \A c \in merged : c.i < i
          BY <1>1, <1>2, <1>3, <1>5, <2>6, <4>2
        <5>. QED
          BY <5>1, <5>2
      <4>. QED
        BY <1>5, <4>1, <4>2
    <3>2. \A i \in Common, c \in merged : c.i <= i => m1 <= 2 * i
      BY <1>1, <1>2, <1>3, <1>5, <1>6
    <3>. QED
      BY <1>6, <3>1, <3>2 DEF Complete
  <2>8. Forward(merged, LastTs(page) + 2, to, m1, m2)
    <3>1. \A c \in merged : 2 * c.i < LastTs(page) + 2
      BY <1>1, <1>2, <1>3, <1>5, <2>3, <2>6
    <3>2. \A i \in Common : m1 <= 2 * i /\ 2 * i < LastTs(page) + 2 => Has(merged, i)
      BY <1>5, <2>3, <2>5
    <3>3. m1 <= LastTs(page) + 2
      BY <1>4, <2>3, <2>4
    <3>. QED
      BY <1>4, <1>6, <3>1, <3>2, <3>3 DEF Forward
  <2>. QED
    BY <2>7, <2>8
<1>9. page = {} \/ Cardinality(page) < PAGE_LIMIT => page = all
  BY <1>2
<1>10. page \in SUBSET Candle
  BY <1>1, <1>2
<1>. QED
  BY <1>7, <1>8, <1>9, <1>10 DEF page, merged

LEMMA BackwardStep ==
    ASSUME clockMs \in Nat, NEW source \in Sources, source # "birdeye", NEW got \in SUBSET Candle,
           NEW from \in Int, NEW to \in Int,
           NEW m1 \in Nat, NEW m2 \in Nat, Backward(got, from, to, m1, m2)
    PROVE  LET page == Page(source, from, to)
               merged == mergeCandles(got, page)
           IN  /\ page \in SUBSET Candle
               /\ page = {} \/ FirstTs(page) <= from => Complete(merged, m1, m2)
               /\ page # {} => Backward(merged, from, FirstTs(page) - 1, m1, m2)
<1> DEFINE all == Available(source, 0, to)
           page == Page(source, from, to)
           merged == mergeCandles(got, page)
<1>1. /\ all \in SUBSET Candle
      /\ \A c \in all : 2 * c.i <= to
      /\ \A i \in Common : 0 <= 2 * i /\ 2 * i <= to => Has(all, i)
  BY AvailableFacts
<1>2. /\ page \subseteq all
      /\ \A c \in page, d \in all : c.i <= d.i => d \in page
      /\ all # {} => page # {}
  BY BackwardPage
<1>3. /\ merged \subseteq got \cup page
      /\ \A i : Has(merged, i) <=> Has(got, i) \/ Has(page, i)
  BY MergedFrom, MergedHas
<1> HIDE DEF all, page, merged
<1>4. /\ from = m1 /\ to <= m2
      /\ \A c \in got : to < 2 * c.i /\ 2 * c.i <= m2
      /\ \A i \in Common : to < 2 * i /\ 2 * i <= m2 => Has(got, i)
  BY DEF Backward
<1>5. Common \subseteq Nat /\ \A c \in Candle : c.i \in Nat
  BY CandleFacts, SourceFacts
<1>6. \A c \in merged : 2 * c.i <= m2
  BY <1>1, <1>2, <1>3, <1>4, <1>5
<1>7. ASSUME page = {} PROVE Complete(merged, m1, m2)
  <2>1. all = {}
    BY <1>2, <1>7
  <2>2. \A i \in Common : 2 * i <= m2 => Has(merged, i)
    <3>1. \A i \in Common : i \in Nat /\ ~(2 * i <= to)
      BY <1>1, <1>5, <2>1 DEF Has
    <3>. QED
      BY <1>3, <1>4, <3>1
  <2>. QED
    BY <1>6, <2>2 DEF Complete
<1>8. ASSUME page # {}
      PROVE  /\ FirstTs(page) <= from => Complete(merged, m1, m2)
             /\ Backward(merged, from, FirstTs(page) - 1, m1, m2)
  <2>1. page \in SUBSET Candle
    BY <1>1, <1>2
  <2>2. PICK f \in page : FirstTs(page) = 2 * f.i /\ \A c \in page : f.i <= c.i
    BY <1>8, <2>1, Ends
  <2>3. PICK first \in Nat : first = f.i /\ FirstTs(page) = 2 * first
    BY <1>5, <2>1, <2>2
  <2>4. 2 * first <= to
    BY <1>1, <1>2, <2>3
  <2>5. ASSUME NEW i \in Common, first <= i, 2 * i <= m2 PROVE Has(merged, i)
    <3>1. i \in Nat
      BY <1>5
    <3>2. CASE to < 2 * i
      BY <1>3, <1>4, <2>5, <3>2
    <3>3. CASE 2 * i <= to
      <4>1. PICK d \in all : d.i = i
        BY <1>1, <3>1, <3>3 DEF Has
      <4>2. d \in page
        BY <1>2, <2>3, <2>5, <4>1
      <4>. QED
        BY <1>3, <4>1, <4>2 DEF Has
    <3>. QED
      BY <3>1, <3>2, <3>3
  <2>6. \A c \in merged : first <= c.i
    <3>1. \A c \in got : first <= c.i
      BY <1>4, <1>5, <2>4
    <3>2. \A c \in page : first <= c.i
      BY <2>2, <2>3
    <3>. QED
      BY <1>3, <3>1, <3>2
  <2>7. ASSUME FirstTs(page) <= from PROVE Complete(merged, m1, m2)
    <3>1. \A i \in Common : m1 <= 2 * i => first <= i
      BY <1>4, <1>5, <2>3, <2>7
    <3>2. \A i \in Common, c \in merged : c.i <= i => first <= i
      BY <1>1, <1>2, <1>3, <1>5, <2>6
    <3>. QED
      BY <1>6, <2>5, <3>1, <3>2 DEF Complete
  <2>8. Backward(merged, from, FirstTs(page) - 1, m1, m2)
    <3>1. \A c \in merged : FirstTs(page) - 1 < 2 * c.i
      BY <1>1, <1>2, <1>3, <1>5, <2>3, <2>6
    <3>2. \A i \in Common : FirstTs(page) - 1 < 2 * i /\ 2 * i <= m2 => Has(merged, i)
      BY <1>5, <2>3, <2>5
    <3>3. FirstTs(page) - 1 <= m2
      BY <1>4, <2>3, <2>4
    <3>. QED
      BY <1>4, <1>6, <3>1, <3>2, <3>3 DEF Backward
  <2>. QED
    BY <2>7, <2>8
<1>9. page \in SUBSET Candle
  BY <1>1, <1>2
<1>. QED
  BY <1>7, <1>8, <1>9 DEF page, merged

-----------------------------------------------------------------------------
(* What the cache holds and what a fetch under way will add *)

Calm(ex) == ex \cap {"cut", "raced"} = {}

\* A series on disk or in a memo.
Series(S, ex) ==
    /\ S \in SUBSET Candle
    /\ "slow" \notin ex => \A c \in S : c.final
    /\ Calm(ex) => WholeSeries(S)

\* What a process may come to read.
Reads == Sources \cup IF "geckoterminal" \in Feeds THEN {Unasked, NoPool} ELSE {}

Jobs == [phase: {"pooling", "paging", "fetched", "writing"}, window: Nat \X Nat,
         cached: SUBSET Candle, from: Int, to: Int, got: SUBSET Candle, pages: Nat, since: Nat]

\* What came is final but where it was fetched too soon.
Fresh(j, t) ==
    /\ j.since <= t
    /\ \A c \in j.got : c.final \/ j.since < 2 * (c.i + 1)

\* The pages so far, or the whole fetch, cover what was missing.
Covers(j, source, ex, m1, m2) ==
    /\ Asks(j.cached, j.window[1], j.window[2], m1, m2)
    /\ j.phase = "pooling" => source = Unasked /\ j.got = {} /\ j.from = m1 /\ j.to = m2
    /\ j.phase = "paging" => source \in Sources
    /\ j.phase = "paging" /\ source = "birdeye" => Forward(j.got, j.from, j.to, m1, m2)
    /\ j.phase = "paging" /\ source # "birdeye" => Backward(j.got, j.from, j.to, m1, m2)
    /\ j.phase \in {"fetched", "writing"} /\ Calm(ex) => Complete(j.got, m1, m2)

JobOK(j, source, t, ex) ==
    j # Idle =>
        /\ j \in Jobs
        /\ Fresh(j, t)
        /\ \E m1, m2 \in Nat : Covers(j, source, ex, m1, m2)
        /\ Calm(ex) => WholeSeries(j.cached)

CandleInv ==
    /\ clockMs \in Nat
    /\ file # Torn => Series(file, excused)
    /\ memo \in [Procs -> UNION {{NoMemo}, SUBSET Candle}]
    /\ \A p \in Procs : memo[p] # NoMemo => Series(memo[p], excused)
    /\ series \in [Procs -> Reads]
    /\ DOMAIN job = Procs
    /\ \A p \in Procs : JobOK(job[p], series[p], clockMs, excused)
    /\ \A p \in Procs : job[p].phase = "writing" => memo[p] # NoMemo
    /\ AnswersAreWhole

LEMMA NothingIsASeries ==
    ASSUME NEW ex
    PROVE  Series({}, ex)
  BY DEF Series, WholeSeries

\* Excuses only accumulate, and the clock only advances.
LEMMA SeriesStays ==
    ASSUME NEW S, NEW ex, NEW more, ex \subseteq more, Series(S, ex)
    PROVE  Series(S, more)
  BY DEF Series, Calm

LEMMA JobStays ==
    ASSUME NEW j, NEW source, NEW t \in Nat, NEW u \in Nat, t <= u, NEW ex, NEW more,
           ex \subseteq more, JobOK(j, source, t, ex)
    PROVE  JobOK(j, source, u, more)
<1>1. SUFFICES ASSUME j # Idle PROVE JobOK(j, source, u, more)
  BY DEF JobOK
<1>2. j \in Jobs /\ Fresh(j, t) /\ (Calm(ex) => WholeSeries(j.cached))
  BY <1>1 DEF JobOK
<1>3. PICK m1 \in Nat, m2 \in Nat : Covers(j, source, ex, m1, m2)
  BY <1>1 DEF JobOK
<1>4. Calm(more) => Calm(ex)
  BY DEF Calm
<1>5. Covers(j, source, more, m1, m2)
  BY <1>3, <1>4 DEF Covers
<1>6. Fresh(j, u)
  <2>1. j.since \in Nat
    BY <1>2 DEF Jobs
  <2>. QED
    BY <1>2, <2>1 DEF Fresh
<1>. QED
  BY <1>2, <1>4, <1>5, <1>6 DEF JobOK

\* A series and a complete fetch of what it lacks make a whole one, that
\* holds the window.
LEMMA MergedIsWhole ==
    ASSUME NEW S \in SUBSET Candle, WholeSeries(S), NEW got \in SUBSET Candle,
           NEW from \in Nat, NEW to \in Nat, NEW m1 \in Nat, NEW m2 \in Nat,
           Asks(S, from, to, m1, m2), Complete(got, m1, m2)
    PROVE  /\ WholeSeries(mergeCandles(S, got))
           /\ \A i \in Common : from + 2 <= 2 * i /\ 2 * i <= to - 2 => Has(mergeCandles(S, got), i)
<1> DEFINE merged == mergeCandles(S, got)
<1>1. /\ merged \subseteq S \cup got
      /\ \A i : Has(merged, i) <=> Has(S, i) \/ Has(got, i)
  BY MergedFrom, MergedHas
<1> HIDE DEF merged
<1>2. Common \subseteq Nat /\ \A c \in Candle : c.i \in Nat
  BY CandleFacts, SourceFacts
<1>3. \A c \in S : m1 <= 2 * c.i /\ 2 * c.i <= m2
  BY DEF Asks
<1>4. ASSUME NEW c \in merged, NEW d \in merged, NEW i \in Common, c.i <= i, i <= d.i
      PROVE  Has(merged, i)
  <2>1. c.i \in Nat /\ d.i \in Nat /\ i \in Nat
    BY <1>1, <1>2
  <2>2. 2 * d.i <= m2 /\ 2 * i <= m2
    BY <1>1, <1>2, <1>3, <1>4, <2>1 DEF Complete
  <2>3. CASE Has(got, i)
    BY <1>1, <2>3
  <2>4. CASE ~Has(got, i)
    <3>1. m1 <= 2 * i \/ \E e \in got : e.i <= i
      BY <1>1, <1>3, <1>4, <2>1
    <3>2. m2 - 2 < 2 * i /\ \A e \in got : e.i < i
      BY <2>2, <2>4, <3>1 DEF Complete
    <3>3. d \in S
      BY <1>1, <1>2, <1>4, <2>1, <3>2
    <3>4. 2 * d.i <= m2 /\ 2 * i <= 2 * d.i
      BY <1>4, <2>1, <2>2
    <3>5. d.i = i
      BY <2>1, <3>2, <3>4
    <3>. QED
      BY <1>1, <3>3, <3>5 DEF Has
  <2>. QED
    BY <2>3, <2>4
<1>5. ASSUME NEW i \in Common, from + 2 <= 2 * i, 2 * i <= to - 2
      PROVE  Has(merged, i)
  <2>1. m1 <= 2 * i /\ 2 * i <= m2 /\ (m2 - 2 < 2 * i => Has(S, i))
    BY <1>5 DEF Asks
  <2>2. Has(got, i) \/ m2 - 2 < 2 * i
    BY <2>1 DEF Complete
  <2>. QED
    BY <1>1, <2>1, <2>2
<1>6. WholeSeries(merged)
  BY <1>4 DEF WholeSeries
<1>. QED
  BY <1>5, <1>6 DEF merged

LEMMA ReadIsASeries ==
    ASSUME CandleInv, NEW p \in Procs
    PROVE  Series(read(p), excused)
<1>1. CASE memo[p] # NoMemo
  BY <1>1 DEF read, CandleInv
<1>2. CASE memo[p] = NoMemo /\ file # Torn
  BY <1>2 DEF read, CandleInv
<1>3. CASE memo[p] = NoMemo /\ file = Torn
  BY <1>3, NothingIsASeries DEF read
<1>. QED
  BY <1>1, <1>2, <1>3

LEMMA AnswerStays ==
    ASSUME AnswersAreWhole, answer' = answer, excused \subseteq excused'
    PROVE  AnswersAreWhole'
<1>1. excused' \cap {"cut", "raced"} = {} => excused \cap {"cut", "raced"} = {}
  OBVIOUS
<1>. QED
  BY <1>1 DEF AnswersAreWhole

LEMMA NothingAnswered ==
    ASSUME answer' = NoAnswer
    PROVE  AnswersAreWhole'
  BY DEF NoAnswer, AnswersAreWhole

LEMMA AnswerGiven ==
    ASSUME NEW window \in Nat \X Nat, NEW candles, NEW poolless,
           answer' = [window |-> window, candles |-> candles, poolless |-> poolless],
           poolless \/ (Calm(excused') => \A i \in Common :
               window[1] + 2 <= 2 * i /\ 2 * i <= window[2] - 2 => Has(candles, i))
    PROVE  AnswersAreWhole'
<1>1. answer'.window = window /\ answer'.candles = candles /\ answer'.poolless = poolless
  OBVIOUS
<1>2. SUFFICES ASSUME ~poolless, Calm(excused'), NEW i \in Common,
                      i * step \in (window[1] + step)..(window[2] - step)
               PROVE  Has(candles, i)
  BY <1>1 DEF AnswersAreWhole, Calm, Has
<1>3. Common \subseteq Nat
  BY SourceFacts
<1>4. window[1] \in Nat /\ window[2] \in Nat /\ i \in Nat /\ i * 2 = 2 * i
  BY <1>3
<1>5. window[1] + 2 <= 2 * i /\ 2 * i <= window[2] - 2
  BY <1>2, <1>4 DEF step
<1>. QED
  BY <1>2, <1>5

\* One process moves on, the others stay where they are.
LEMMA JobsKept ==
    ASSUME CandleInv, NEW p \in Procs, NEW j, job' = [job EXCEPT ![p] = j],
           NEW source \in Reads, series' = [series EXCEPT ![p] = source],
           clockMs' = clockMs, excused \subseteq excused',
           JobOK(j, source, clockMs, excused')
    PROVE  /\ DOMAIN job' = Procs /\ series' \in [Procs -> Reads]
           /\ \A q \in Procs : JobOK(job'[q], series'[q], clockMs', excused')
<1>1. DOMAIN job = Procs /\ clockMs \in Nat /\ series \in [Procs -> Reads]
      /\ \A q \in Procs : JobOK(job[q], series[q], clockMs, excused)
  BY DEF CandleInv
<1>2. DOMAIN job' = Procs /\ job'[p] = j /\ series' \in [Procs -> Reads] /\ series'[p] = source
  BY <1>1
<1>3. ASSUME NEW q \in Procs, q # p PROVE JobOK(job'[q], series'[q], clockMs', excused')
  <2>1. job'[q] = job[q] /\ series'[q] = series[q]
    BY <1>1, <1>3
  <2>2. JobOK(job[q], series[q], clockMs, excused')
    BY <1>1, JobStays
  <2>. QED
    BY <2>1, <2>2
<1>. QED
  BY <1>2, <1>3

\* The same, when the process reads what it read before.
LEMMA OnlyJobsKept ==
    ASSUME CandleInv, NEW p \in Procs, NEW j, job' = [job EXCEPT ![p] = j], series' = series,
           clockMs' = clockMs, excused \subseteq excused',
           JobOK(j, series[p], clockMs, excused')
    PROVE  /\ DOMAIN job' = Procs /\ series' \in [Procs -> Reads]
           /\ \A q \in Procs : JobOK(job'[q], series'[q], clockMs', excused')
<1>1. series \in [Procs -> Reads]
  BY DEF CandleInv
<1>2. series' = [series EXCEPT ![p] = series[p]] /\ series[p] \in Reads
  BY <1>1
<1>. QED
  BY <1>2, JobsKept

LEMMA IdleIsFine ==
    ASSUME NEW source, NEW t, NEW ex
    PROVE  JobOK(Idle, source, t, ex) /\ Idle.phase = "idle"
  BY DEF JobOK, Idle

LEMMA CandleStarts == CandleInit => CandleInv
<1> SUFFICES ASSUME CandleInit PROVE CandleInv
  OBVIOUS
<1>1. clockMs \in Nat
  BY CandleAssumption DEF CandleInit
<1>2. \A p \in Procs : memo[p] = NoMemo /\ job[p] = Idle
  BY DEF CandleInit
<1>3. \A p \in Procs : JobOK(job[p], series[p], clockMs, excused) /\ job[p].phase # "writing"
  BY <1>2, IdleIsFine
<1>4. AnswersAreWhole
  BY DEF CandleInit, NoAnswer, AnswersAreWhole
<1>6. series \in [Procs -> Reads]
  BY DEF CandleInit, Configured, Reads, Sources
<1>5. file = Torn /\ memo \in [Procs -> UNION {{NoMemo}, SUBSET Candle}] /\ DOMAIN job = Procs
  BY DEF CandleInit
<1>. QED
  BY <1>1, <1>2, <1>3, <1>4, <1>5, <1>6 DEF CandleInv

LEMMA AskKeeps ==
    ASSUME CandleInv, NEW p \in Procs, NEW window \in Windows, ask(p, window)
    PROVE  CandleInv'
<1>1. /\ clockMs' = clockMs /\ file' = file /\ excused' = excused /\ series' = series
      /\ memo' = [memo EXCEPT ![p] = Remembered(p)]
  BY DEF ask
<1>2. window \in Nat \X Nat
  BY CandleAssumption
<1>3. PICK cached : cached = read(p)
  OBVIOUS
<1>4. Series(cached, excused) /\ cached \in SUBSET Candle
  BY <1>3, ReadIsASeries DEF Series
<1>5. PICK from \in Nat, to \in Nat : from = window[1] /\ to = window[2]
  BY <1>2
<1>6. PICK missing : missing = missingRange(cached, from, to)
  OBVIOUS
<1>7. /\ missing # NoWindow =>
            \E m1, m2 \in Nat : missing = <<m1, m2>> /\ Asks(cached, from, to, m1, m2)
      /\ missing = NoWindow /\ WholeSeries(cached) =>
            \A i \in Common : from + 2 <= 2 * i /\ 2 * i <= to - 2 => Has(cached, i)
  BY <1>4, <1>6, MissingRange
<1>8. /\ memo' \in [Procs -> UNION {{NoMemo}, SUBSET Candle}]
      /\ \A q \in Procs : memo'[q] # NoMemo => Series(memo'[q], excused)
      /\ \A q \in Procs : memo[q] # NoMemo => memo'[q] # NoMemo
  <2>1. Remembered(p) # NoMemo => Series(Remembered(p), excused)
    BY DEF Remembered, CandleInv
  <2>2. Remembered(p) \in UNION {{NoMemo}, SUBSET Candle}
    BY <2>1 DEF Series
  <2>3. memo[p] # NoMemo => Remembered(p) # NoMemo
    BY DEF Remembered
  <2>4. memo \in [Procs -> UNION {{NoMemo}, SUBSET Candle}]
        /\ \A q \in Procs : memo[q] # NoMemo => Series(memo[q], excused)
    BY DEF CandleInv
  <2> HIDE DEF Remembered
  <2>. QED
    BY <1>1, <2>1, <2>2, <2>3, <2>4
<1>9. CASE missing = NoWindow \/ series[p] = NoPool
  <2>1. PICK poolless : poolless = (missing # NoWindow)
    OBVIOUS
  <2>2. job' = [job EXCEPT ![p] = Idle]
        /\ answer' = [window |-> window, candles |-> cached, poolless |-> poolless]
    BY <1>3, <1>5, <1>6, <1>9, <2>1 DEF ask, Respond
  <2>3. AnswersAreWhole'
    <3>1. Calm(excused') => WholeSeries(cached)
      BY <1>1, <1>4 DEF Series
    <3>. QED
      BY <1>2, <1>5, <1>7, <1>9, <2>1, <2>2, <3>1, AnswerGiven
  <2>4. /\ DOMAIN job' = Procs /\ series' \in [Procs -> Reads]
        /\ \A q \in Procs : JobOK(job'[q], series'[q], clockMs', excused')
    BY <1>1, <2>2, IdleIsFine, OnlyJobsKept
  <2>5. \A q \in Procs : job'[q].phase = "writing" => memo'[q] # NoMemo
    BY <1>8, <2>2, IdleIsFine DEF CandleInv
  <2>. QED
    BY <1>1, <1>8, <2>3, <2>4, <2>5 DEF CandleInv
<1>10. CASE ~(missing = NoWindow \/ series[p] = NoPool)
  <2>1. PICK m1 \in Nat, m2 \in Nat : missing = <<m1, m2>> /\ Asks(cached, from, to, m1, m2)
    BY <1>7, <1>10
  <2>2. PICK phase \in {"pooling", "paging"} :
            phase = IF series[p] = Unasked THEN "pooling" ELSE "paging"
    OBVIOUS
  <2>3. PICK j : j = [phase |-> phase, window |-> window, cached |-> cached,
                      from |-> m1, to |-> m2, got |-> {}, pages |-> 0, since |-> clockMs]
    OBVIOUS
  <2>4. job' = [job EXCEPT ![p] = j] /\ answer' = NoAnswer
    BY <1>3, <1>5, <1>6, <1>10, <2>1, <2>2, <2>3 DEF ask
  <2>5. JobOK(j, series[p], clockMs, excused')
    <3>1. clockMs \in Nat
      BY DEF CandleInv
    <3>2. j \in Jobs
      BY <1>2, <1>4, <2>2, <2>3, <3>1 DEF Jobs
    <3>3. Fresh(j, clockMs)
      BY <2>3, <3>1 DEF Fresh
    <3>4. Forward({}, m1, m2, m1, m2) /\ Backward({}, m1, m2, m1, m2)
      BY EmptyFetch
    <3>5. phase = "paging" => series[p] \in Sources
      BY <1>10, <2>2 DEF CandleInv, Reads
    <3>6. /\ j.phase = phase /\ j.got = {} /\ j.from = m1 /\ j.to = m2
          /\ j.cached = cached /\ j.window = window
      BY <2>3
    <3>7. Covers(j, series[p], excused', m1, m2)
      BY <1>5, <2>1, <2>2, <3>4, <3>5, <3>6 DEF Covers
    <3>8. Calm(excused') => WholeSeries(j.cached)
      BY <1>1, <1>4, <3>6 DEF Series
    <3>. QED
      BY <3>2, <3>3, <3>7, <3>8 DEF JobOK
  <2>6. /\ DOMAIN job' = Procs /\ series' \in [Procs -> Reads]
        /\ \A q \in Procs : JobOK(job'[q], series'[q], clockMs', excused')
    BY <1>1, <2>4, <2>5, OnlyJobsKept
  <2>7. \A q \in Procs : job'[q].phase = "writing" => memo'[q] # NoMemo
    BY <1>8, <2>2, <2>3, <2>4 DEF CandleInv
  <2>8. AnswersAreWhole'
    BY <2>4, NothingAnswered
  <2>. QED
    BY <1>1, <1>8, <2>6, <2>7, <2>8 DEF CandleInv
<1>. QED
  BY <1>9, <1>10

\* A pool is found, and paging begins where the job was to begin; or there is
\* none, and the answer is what was cached.
LEMMA DeepestPoolKeeps ==
    ASSUME CandleInv, NEW p \in Procs, NEW pool \in Pools \cup {NoPool}, deepestPool(p, pool)
    PROVE  CandleInv'
<1>1. PICK j : j = job[p]
  OBVIOUS
<1>2. /\ j.phase = "pooling" /\ series' = [series EXCEPT ![p] = pool]
      /\ UNCHANGED <<clockMs, file, memo, asked, excused>>
  BY <1>1 DEF deepestPool
<1>3. /\ j # Idle /\ JobOK(j, series[p], clockMs, excused)
      /\ DOMAIN job = Procs /\ series[p] \in Reads /\ clockMs \in Nat
  BY <1>1, <1>2, IdleIsFine DEF CandleInv
<1>4. j \in Jobs /\ Fresh(j, clockMs) /\ (Calm(excused) => WholeSeries(j.cached))
  BY <1>3 DEF JobOK
<1>5. PICK m1 \in Nat, m2 \in Nat : Covers(j, series[p], excused, m1, m2)
  BY <1>3 DEF JobOK
<1>6. series[p] = Unasked /\ j.got = {} /\ j.from = m1 /\ j.to = m2
  BY <1>2, <1>5 DEF Covers
<1>7. "geckoterminal" \in Feeds
  BY <1>3, <1>6, CandleAssumption DEF Reads, Sources
<1>8. pool \in Reads /\ (pool # NoPool => pool \in Sources /\ pool # "birdeye")
  BY <1>7, CandleAssumption DEF Reads, Sources
<1>9. CASE pool = NoPool
  <2>1. /\ answer' = [window |-> j.window, candles |-> j.cached, poolless |-> TRUE]
        /\ job' = [job EXCEPT ![p] = Idle]
    BY <1>1, <1>9 DEF deepestPool, Respond
  <2>2. AnswersAreWhole'
    <3>1. j.window \in Nat \X Nat
      BY <1>4 DEF Jobs
    <3>. QED
      BY <2>1, <3>1, AnswerGiven
  <2>3. /\ DOMAIN job' = Procs /\ series' \in [Procs -> Reads]
        /\ \A q \in Procs : JobOK(job'[q], series'[q], clockMs', excused')
    BY <1>2, <1>8, <2>1, IdleIsFine, JobsKept
  <2>4. \A q \in Procs : job'[q].phase = "writing" => memo[q] # NoMemo
    BY <1>3, <2>1, IdleIsFine DEF CandleInv
  <2>. QED
    BY <1>2, <2>2, <2>3, <2>4 DEF CandleInv
<1>10. CASE pool # NoPool
  <2>1. PICK k : k = [j EXCEPT !.phase = "paging"]
    OBVIOUS
  <2>2. job' = [job EXCEPT ![p] = k] /\ answer' = NoAnswer
    BY <1>1, <1>10, <2>1 DEF deepestPool
  <2>3. /\ k \in Jobs /\ k.phase = "paging" /\ k.got = {} /\ k.from = m1 /\ k.to = m2
        /\ k.cached = j.cached /\ k.window = j.window /\ k.since = j.since
    BY <1>4, <1>6, <2>1 DEF Jobs
  <2>4. JobOK(k, pool, clockMs, excused')
    <3>1. Covers(k, pool, excused', m1, m2)
      BY <1>2, <1>5, <1>8, <1>10, <2>3, EmptyFetch DEF Covers
    <3>2. Fresh(k, clockMs)
      BY <1>4, <2>3 DEF Fresh
    <3>. QED
      BY <1>2, <1>4, <2>3, <3>1, <3>2 DEF JobOK
  <2>5. /\ DOMAIN job' = Procs /\ series' \in [Procs -> Reads]
        /\ \A q \in Procs : JobOK(job'[q], series'[q], clockMs', excused')
    BY <1>2, <1>8, <2>2, <2>4, JobsKept
  <2>6. \A q \in Procs : job'[q].phase = "writing" => memo[q] # NoMemo
    BY <1>3, <2>2, <2>3 DEF CandleInv
  <2>7. AnswersAreWhole'
    BY <2>2, NothingAnswered
  <2>. QED
    BY <1>2, <2>5, <2>6, <2>7 DEF CandleInv
<1>. QED
  BY <1>9, <1>10

LEMMA PageIsFresh ==
    ASSUME clockMs \in Nat, NEW source \in Sources, NEW from \in Int, NEW to \in Int,
           NEW since \in Nat, since <= clockMs
    PROVE  \A c \in Page(source, from, to) : c.final \/ since < 2 * (c.i + 1)
<1>1. PICK a \in Int : Page(source, from, to) \subseteq Available(source, a, to)
  <2>1. CASE source = "birdeye"
    BY <2>1 DEF Page
  <2>2. CASE source # "birdeye"
    BY <2>2 DEF Page
  <2>. QED
    BY <2>1, <2>2
<1>2. /\ Available(source, a, to) \in SUBSET Candle
      /\ \A c \in Available(source, a, to) : c.final \/ clockMs < 2 * (c.i + 1)
  BY AvailableFacts
<1>3. \A c \in Candle : c.i \in Nat
  BY CandleFacts
<1>. QED
  BY <1>1, <1>2, <1>3

LEMMA NextPageKeeps ==
    ASSUME CandleInv, NEW p \in Procs, nextPage(p)
    PROVE  CandleInv'
<1>1. PICK j : j = job[p]
  OBVIOUS
<1>2. PICK source, page : source = series[p] /\ page = Page(source, j.from, j.to)
  OBVIOUS
<1>3. PICK over : over <=> page = {} \/ Exhausted(p, page)
  OBVIOUS
<1>4. PICK cut : cut <=> ~over /\ j.pages + 1 = MAX_PAGES
  OBVIOUS
<1>5. PICK o : o = IF over \/ cut THEN j ELSE Onward(p, page)
  OBVIOUS
<1>6. PICK k : k = [o EXCEPT !.got = mergeCandles(@, page), !.pages = @ + 1,
                             !.phase = IF over \/ cut THEN "fetched" ELSE @]
  OBVIOUS
<1>7. /\ j.phase = "paging" /\ job' = [job EXCEPT ![p] = k]
      /\ excused' = excused \cup (IF cut THEN {"cut"} ELSE {})
      /\ answer' = NoAnswer
      /\ UNCHANGED <<clockMs, file, memo, series, asked>>
  BY <1>1, <1>2, <1>3, <1>4, <1>5, <1>6 DEF nextPage
<1>8. j \in Jobs /\ Fresh(j, clockMs) /\ (Calm(excused) => WholeSeries(j.cached)) /\ clockMs \in Nat
  <2>1. j # Idle /\ JobOK(j, source, clockMs, excused) /\ clockMs \in Nat
    BY <1>1, <1>2, <1>7, IdleIsFine DEF CandleInv
  <2>. QED
    BY <2>1 DEF JobOK
<1>9. PICK m1 \in Nat, m2 \in Nat : Covers(j, source, excused, m1, m2)
  <2>1. j # Idle /\ JobOK(j, source, clockMs, excused)
    BY <1>1, <1>2, <1>7, IdleIsFine DEF CandleInv
  <2>. QED
    BY <2>1 DEF JobOK
<1>10. /\ j.from \in Int /\ j.to \in Int /\ j.got \in SUBSET Candle /\ j.pages \in Nat /\ j.since \in Nat
       /\ source \in Sources
  BY <1>7, <1>8, <1>9 DEF Jobs, Covers
<1>11. /\ page \in SUBSET Candle
       /\ over => Complete(mergeCandles(j.got, page), m1, m2)
       /\ ~over /\ source = "birdeye" =>
              /\ LastTs(page) + 2 \in Int
              /\ Forward(mergeCandles(j.got, page), LastTs(page) + 2, j.to, m1, m2)
       /\ ~over /\ source # "birdeye" =>
              /\ FirstTs(page) - 1 \in Int
              /\ Backward(mergeCandles(j.got, page), j.from, FirstTs(page) - 1, m1, m2)
  <2>1. page \in SUBSET Candle /\ page # {} => FirstTs(page) \in Int /\ LastTs(page) \in Int
    <3>1. SUFFICES ASSUME page \in SUBSET Candle, page # {} PROVE FirstTs(page) \in Int /\ LastTs(page) \in Int
      OBVIOUS
    <3>2. PICK f, l \in page : FirstTs(page) = 2 * f.i /\ LastTs(page) = 2 * l.i
      BY <3>1, Ends
    <3>3. f.i \in Nat /\ l.i \in Nat
      BY <3>1, CandleFacts
    <3>. QED
      BY <3>2, <3>3
  <2>2. CASE source = "birdeye"
    <3>1. Forward(j.got, j.from, j.to, m1, m2)
      BY <1>7, <1>9, <2>2 DEF Covers
    <3>2. /\ page \in SUBSET Candle
          /\ page = {} \/ Cardinality(page) < PAGE_LIMIT \/ LastTs(page) + 2 >= j.to
                 => Complete(mergeCandles(j.got, page), m1, m2)
          /\ page # {} => Forward(mergeCandles(j.got, page), LastTs(page) + 2, j.to, m1, m2)
      BY <1>2, <1>8, <1>10, <2>2, <3>1, ForwardStep
    <3>3. over <=> page = {} \/ Cardinality(page) < PAGE_LIMIT \/ LastTs(page) + 2 >= j.to
      BY <1>1, <1>2, <1>3, <2>2 DEF Exhausted, step
    <3>. QED
      BY <2>1, <2>2, <3>2, <3>3
  <2>3. CASE source # "birdeye"
    <3>1. Backward(j.got, j.from, j.to, m1, m2)
      BY <1>7, <1>9, <2>3 DEF Covers
    <3>2. /\ page \in SUBSET Candle
          /\ page = {} \/ FirstTs(page) <= j.from => Complete(mergeCandles(j.got, page), m1, m2)
          /\ page # {} => Backward(mergeCandles(j.got, page), j.from, FirstTs(page) - 1, m1, m2)
      BY <1>2, <1>8, <1>10, <2>3, <3>1, BackwardStep
    <3>3. over <=> page = {} \/ FirstTs(page) <= j.from
      BY <1>1, <1>2, <1>3, <2>3 DEF Exhausted
    <3>. QED
      BY <2>1, <2>3, <3>2, <3>3
  <2>. QED
    BY <2>2, <2>3
<1>12. PICK merged : merged = mergeCandles(j.got, page)
  OBVIOUS
<1>13. merged \in SUBSET Candle /\ \A c \in merged : c.final \/ j.since < 2 * (c.i + 1)
  <2>1. merged \subseteq j.got \cup page
    BY <1>12, MergedFrom
  <2>2. \A c \in page : c.final \/ j.since < 2 * (c.i + 1)
    BY <1>2, <1>8, <1>10, PageIsFresh DEF Fresh
  <2>3. \A c \in j.got : c.final \/ j.since < 2 * (c.i + 1)
    BY <1>8 DEF Fresh
  <2>. QED
    BY <1>10, <1>11, <2>1, <2>2, <2>3
<1>14. ASSUME JobOK(k, source, clockMs, excused'), k.phase # "writing"
       PROVE  CandleInv'
  <2>1. /\ DOMAIN job' = Procs /\ series' \in [Procs -> Reads]
        /\ \A q \in Procs : JobOK(job'[q], series'[q], clockMs', excused')
    BY <1>2, <1>7, <1>14, OnlyJobsKept
  <2>2. \A q \in Procs : memo[q] # NoMemo => Series(memo[q], excused')
    BY <1>7, SeriesStays DEF CandleInv
  <2>3. file # Torn => Series(file, excused')
    BY <1>7, SeriesStays DEF CandleInv
  <2>4. AnswersAreWhole'
    BY <1>7, NothingAnswered
  <2>5. \A q \in Procs : job'[q].phase = "writing" => memo[q] # NoMemo
    BY <1>7, <1>14 DEF CandleInv
  <2>6. clockMs \in Nat /\ memo \in [Procs -> UNION {{NoMemo}, SUBSET Candle}]
    BY DEF CandleInv
  <2>. QED
    BY <1>7, <2>1, <2>2, <2>3, <2>4, <2>5, <2>6 DEF CandleInv
<1>15. CASE over \/ cut
  <2>1. o = j
    BY <1>5, <1>15
  <2>2. k = [j EXCEPT !.got = merged, !.pages = j.pages + 1, !.phase = "fetched"]
    BY <1>6, <1>8, <1>12, <1>15, <2>1 DEF Jobs
  <2>3. k \in Jobs
    <3>1. PICK n \in Nat : n = j.pages + 1
      BY <1>10
    <3>2. k = [j EXCEPT !.got = merged, !.pages = n, !.phase = "fetched"]
      BY <2>2, <3>1
    <3>. QED
      BY <1>8, <1>13, <3>2 DEF Jobs
  <2>4. k.phase = "fetched" /\ k.got = merged
    BY <1>8, <2>2 DEF Jobs
  <2>5. k.since = j.since /\ k.cached = j.cached /\ k.window = j.window
    BY <1>8, <2>2 DEF Jobs
  <2>6. Calm(excused') => over
    BY <1>7, <1>15 DEF Calm
  <2>7. Covers(k, source, excused', m1, m2)
    BY <1>9, <1>11, <1>12, <2>4, <2>5, <2>6 DEF Covers
  <2>8. Fresh(k, clockMs)
    BY <1>8, <1>13, <2>4, <2>5 DEF Fresh
  <2>9. Calm(excused') => WholeSeries(k.cached)
    BY <1>7, <1>8, <2>5 DEF Calm
  <2>10. JobOK(k, source, clockMs, excused') /\ k.phase # "writing"
    BY <2>3, <2>4, <2>7, <2>8, <2>9 DEF JobOK
  <2>. QED
    BY <1>14, <2>10
<1>16. CASE ~(over \/ cut)
  <2>1. excused' = excused
    BY <1>7, <1>16
  <2>2. CASE source = "birdeye"
    <3>1. PICK next \in Int : next = LastTs(page) + 2
      BY <1>11, <1>16, <2>2
    <3>2. o = [j EXCEPT !.from = next]
      BY <1>5, <1>16, <2>2, <3>1, <1>1, <1>2 DEF Onward, step
    <3>3. k = [j EXCEPT !.from = next, !.got = merged, !.pages = j.pages + 1]
      BY <1>6, <1>8, <1>12, <1>16, <3>2 DEF Jobs
    <3>4. k \in Jobs
      <4>1. PICK n \in Nat : n = j.pages + 1
        BY <1>10
      <4>2. k = [j EXCEPT !.from = next, !.got = merged, !.pages = n]
        BY <3>3, <4>1
      <4>. QED
        BY <1>8, <1>13, <4>2 DEF Jobs
    <3>5. k.phase = "paging" /\ k.got = merged /\ k.from = next /\ k.to = j.to
      BY <1>7, <1>8, <2>2, <3>3 DEF Jobs
    <3>6. k.since = j.since /\ k.cached = j.cached /\ k.window = j.window
      BY <1>8, <3>3 DEF Jobs
    <3>7. Forward(merged, next, j.to, m1, m2)
      BY <1>11, <1>12, <1>16, <2>2, <3>1
    <3>8. Covers(k, source, excused', m1, m2)
      BY <1>9, <1>10, <2>2, <3>5, <3>6, <3>7 DEF Covers
    <3>9. Fresh(k, clockMs)
      BY <1>8, <1>13, <3>5, <3>6 DEF Fresh
    <3>10. JobOK(k, source, clockMs, excused') /\ k.phase # "writing"
      BY <1>8, <2>1, <3>4, <3>5, <3>6, <3>8, <3>9 DEF JobOK
    <3>. QED
      BY <1>14, <3>10
  <2>3. CASE source # "birdeye"
    <3>1. PICK next \in Int : next = FirstTs(page) - 1
      BY <1>11, <1>16, <2>3
    <3>2. o = [j EXCEPT !.to = next]
      BY <1>5, <1>16, <2>3, <3>1, <1>1, <1>2 DEF Onward
    <3>3. k = [j EXCEPT !.to = next, !.got = merged, !.pages = j.pages + 1]
      BY <1>6, <1>8, <1>12, <1>16, <3>2 DEF Jobs
    <3>4. k \in Jobs
      <4>1. PICK n \in Nat : n = j.pages + 1
        BY <1>10
      <4>2. k = [j EXCEPT !.to = next, !.got = merged, !.pages = n]
        BY <3>3, <4>1
      <4>. QED
        BY <1>8, <1>13, <4>2 DEF Jobs
    <3>5. k.phase = "paging" /\ k.got = merged /\ k.from = j.from /\ k.to = next
      BY <1>7, <1>8, <2>3, <3>3 DEF Jobs
    <3>6. k.since = j.since /\ k.cached = j.cached /\ k.window = j.window
      BY <1>8, <3>3 DEF Jobs
    <3>7. Backward(merged, j.from, next, m1, m2)
      BY <1>11, <1>12, <1>16, <2>3, <3>1
    <3>8. Covers(k, source, excused', m1, m2)
      BY <1>9, <1>10, <2>3, <3>5, <3>6, <3>7 DEF Covers
    <3>9. Fresh(k, clockMs)
      BY <1>8, <1>13, <3>5, <3>6 DEF Fresh
    <3>10. JobOK(k, source, clockMs, excused') /\ k.phase # "writing"
      BY <1>8, <2>1, <3>4, <3>5, <3>6, <3>8, <3>9 DEF JobOK
    <3>. QED
      BY <1>14, <3>10
  <2>. QED
    BY <2>2, <2>3
<1>. QED
  BY <1>15, <1>16

\* What a fetch that has its pages will answer with.
LEMMA FetchAnswers ==
    ASSUME CandleInv, NEW p \in Procs, job[p].phase \in {"fetched", "writing"}, NEW j, j = job[p]
    PROVE  /\ j \in Jobs /\ JobOK(j, series[p], clockMs, excused) /\ Fresh(j, clockMs)
           /\ Calm(excused) =>
                /\ WholeSeries(mergeCandles(j.cached, j.got))
                /\ \A i \in Common : j.window[1] + 2 <= 2 * i /\ 2 * i <= j.window[2] - 2
                       => Has(mergeCandles(j.cached, j.got), i)
<1>1. j # Idle /\ JobOK(j, series[p], clockMs, excused)
  BY IdleIsFine DEF CandleInv
<1>2. j \in Jobs /\ Fresh(j, clockMs) /\ (Calm(excused) => WholeSeries(j.cached))
  BY <1>1 DEF JobOK
<1>3. PICK m1 \in Nat, m2 \in Nat : Covers(j, series[p], excused, m1, m2)
  BY <1>1 DEF JobOK
<1>4. j.cached \in SUBSET Candle /\ j.got \in SUBSET Candle /\ j.window \in Nat \X Nat
  BY <1>2 DEF Jobs
<1>5. PICK from \in Nat, to \in Nat : from = j.window[1] /\ to = j.window[2]
  BY <1>4
<1>6. Asks(j.cached, from, to, m1, m2)
  BY <1>3, <1>5 DEF Covers
<1>7. Calm(excused) => Complete(j.got, m1, m2)
  BY <1>3 DEF Covers
<1>8. ASSUME Calm(excused)
      PROVE  /\ WholeSeries(mergeCandles(j.cached, j.got))
             /\ \A i \in Common : from + 2 <= 2 * i /\ 2 * i <= to - 2
                    => Has(mergeCandles(j.cached, j.got), i)
  BY <1>2, <1>4, <1>6, <1>7, <1>8, MergedIsWhole
<1>. QED
  BY <1>1, <1>2, <1>5, <1>8

\* A job that ends without an answer, or a process that dies.
LEMMA JobEndsKeeps ==
    ASSUME CandleInv, NEW p \in Procs, pageFails(p) \/ crash(p)
    PROVE  CandleInv'
<1>1. /\ job' = [job EXCEPT ![p] = Idle] /\ answer' = NoAnswer /\ UNCHANGED <<clockMs, excused>>
      /\ file' = file \/ file' = Torn
      /\ memo' = memo \/ memo' = [memo EXCEPT ![p] = NoMemo]
  BY DEF pageFails, crash
<1>2. /\ memo \in [Procs -> UNION {{NoMemo}, SUBSET Candle}] /\ clockMs \in Nat /\ DOMAIN job = Procs
      /\ series \in [Procs -> Reads]
  BY DEF CandleInv
<1>3. PICK source \in Reads : series' = [series EXCEPT ![p] = source]
  <2>1. CASE pageFails(p)
    <3>1. series' = [series EXCEPT ![p] = series[p]] /\ series[p] \in Reads
      BY <1>2, <2>1 DEF pageFails
    <3>. QED
      BY <3>1
  <2>2. CASE crash(p)
    <3>1. Configured \subseteq Reads
      BY DEF Configured, Reads, Sources
    <3>. QED
      BY <2>2, <3>1 DEF crash
  <2>. QED
    BY <2>1, <2>2
<1>4. /\ DOMAIN job' = Procs /\ series' \in [Procs -> Reads]
      /\ \A q \in Procs : JobOK(job'[q], series'[q], clockMs', excused')
  BY <1>1, <1>3, IdleIsFine, JobsKept
<1>5. memo' \in [Procs -> UNION {{NoMemo}, SUBSET Candle}]
  BY <1>1, <1>2
<1>6. \A q \in Procs : memo'[q] = NoMemo \/ memo'[q] = memo[q]
  BY <1>1, <1>2
<1>7. \A q \in Procs \ {p} : memo'[q] = memo[q] /\ job'[q] = job[q]
  BY <1>1, <1>2
<1>8. job'[p].phase # "writing"
  BY <1>1, <1>2, IdleIsFine
<1>9. \A q \in Procs : job'[q].phase = "writing" => memo'[q] # NoMemo
  BY <1>7, <1>8 DEF CandleInv
<1>10. AnswersAreWhole'
  BY <1>1, NothingAnswered
<1>. QED
  BY <1>1, <1>4, <1>5, <1>6, <1>9, <1>10 DEF CandleInv

\* What write() keeps is final, and as whole as what it merged.
LEMMA KeptIsASeries ==
    ASSUME CandleInv, NEW p \in Procs, job[p].phase = "fetched", NEW j, j = job[p],
           NEW ex, excused \subseteq ex,
           read(p) # j.cached => "raced" \in ex,
           clockMs \div 2 # j.since \div 2 => "slow" \in ex,
           NEW kept, kept = {c \in mergeCandles(read(p), j.got) : Closed(c)}
    PROVE  Series(kept, ex)
<1>1. /\ j \in Jobs /\ JobOK(j, series[p], clockMs, excused) /\ Fresh(j, clockMs)
      /\ Calm(excused) => WholeSeries(mergeCandles(j.cached, j.got))
  BY FetchAnswers
<1>2. j.since \in Nat /\ clockMs \in Nat /\ j.got \in SUBSET Candle
  BY <1>1 DEF Jobs, CandleInv
<1>3. PICK cached : cached = read(p)
  OBVIOUS
<1>4. PICK merged : merged = mergeCandles(cached, j.got)
  OBVIOUS
<1>5. Series(cached, excused) /\ cached \in SUBSET Candle
  BY <1>3, ReadIsASeries DEF Series
<1>6. merged \subseteq cached \cup j.got
  BY <1>4, MergedFrom
<1>7. \A c \in merged : Closed(c) <=> 2 * c.i < clockMs - 2
  BY <1>2, <1>5, <1>6, CandleFacts DEF Closed, step
<1>8. kept \in SUBSET merged /\ \A c \in merged : c \in kept <=> 2 * c.i < clockMs - 2
  BY <1>3, <1>4, <1>7
<1>9. ASSUME "slow" \notin ex, NEW c \in kept PROVE c.final
  <2>1. PICK t \in Nat, since \in Nat : t = clockMs /\ since = j.since /\ t \div 2 = since \div 2
    BY <1>2, <1>9
  <2>2. PICK i \in Nat : i = c.i
    BY <1>2, <1>5, <1>6, <1>8, CandleFacts
  <2>3. 2 * i < t - 2
    BY <1>8, <2>1, <2>2
  <2>4. ~(since < 2 * (i + 1))
    BY <2>1, <2>3
  <2>5. CASE c \in cached
    BY <1>5, <1>9, <2>5 DEF Series
  <2>6. CASE c \in j.got
    BY <1>1, <2>1, <2>2, <2>4, <2>6 DEF Fresh
  <2>. QED
    BY <1>6, <1>8, <1>9, <2>5, <2>6
<1>10. ASSUME Calm(ex) PROVE WholeSeries(kept)
  <2>1. cached = j.cached /\ Calm(excused)
    BY <1>3, <1>10 DEF Calm
  <2>2. WholeSeries(merged)
    BY <1>1, <1>4, <2>1
  <2>3. ASSUME NEW c \in kept, NEW d \in kept, NEW i \in Common, c.i <= i, i <= d.i
        PROVE  Has(kept, i)
    <3>1. PICK e \in merged : e.i = i
      BY <1>8, <2>2, <2>3 DEF WholeSeries, Has
    <3>2. d.i \in Nat /\ e.i \in Nat /\ 2 * d.i < clockMs - 2
      BY <1>2, <1>5, <1>6, <1>8, <2>3, <3>1, CandleFacts
    <3>3. 2 * e.i < clockMs - 2
      BY <1>2, <2>3, <3>1, <3>2
    <3>. QED
      BY <1>8, <3>1, <3>3 DEF Has
  <2>. QED
    BY <2>3 DEF WholeSeries
<1>11. kept \in SUBSET Candle
  BY <1>2, <1>5, <1>6, <1>8
<1>. QED
  BY <1>9, <1>10, <1>11 DEF Series

LEMMA WriteKeeps ==
    ASSUME CandleInv, NEW p \in Procs, write(p)
    PROVE  CandleInv'
<1>1. PICK j : j = job[p]
  OBVIOUS
<1>2. /\ j.phase = "fetched" /\ clockMs' = clockMs /\ clockMs \in Nat /\ DOMAIN job = Procs
      /\ series' = series
  BY <1>1 DEF write, CandleInv
<1>3. /\ j \in Jobs /\ JobOK(j, series[p], clockMs, excused)
      /\ Calm(excused) => \A i \in Common :
             j.window[1] + 2 <= 2 * i /\ 2 * i <= j.window[2] - 2 => Has(mergeCandles(j.cached, j.got), i)
  BY <1>1, <1>2, FetchAnswers
<1>4. CASE j.got = {}
  <2>1. /\ answer' = [window |-> j.window, candles |-> j.cached, poolless |-> FALSE]
        /\ job' = [job EXCEPT ![p] = Idle] /\ UNCHANGED <<file, memo, excused>>
    BY <1>1, <1>4 DEF write, Respond
  <2>2. AnswersAreWhole'
    <3>1. \A i : Has(mergeCandles(j.cached, j.got), i) => Has(j.cached, i)
      <4>1. \A i : ~Has(j.got, i)
        BY <1>4 DEF Has
      <4>. QED
        BY <4>1, MergedHas
    <3>2. j.window \in Nat \X Nat
      BY <1>3 DEF Jobs
    <3>3. Calm(excused') => \A i \in Common :
              j.window[1] + 2 <= 2 * i /\ 2 * i <= j.window[2] - 2 => Has(j.cached, i)
      BY <1>3, <2>1, <3>1
    <3>. QED
      BY <2>1, <3>2, <3>3, AnswerGiven
  <2>3. /\ DOMAIN job' = Procs /\ series' \in [Procs -> Reads]
        /\ \A q \in Procs : JobOK(job'[q], series'[q], clockMs', excused')
    BY <1>2, <2>1, IdleIsFine, OnlyJobsKept
  <2>4. \A q \in Procs : job'[q].phase = "writing" => memo[q] # NoMemo
    BY <1>2, <2>1, IdleIsFine DEF CandleInv
  <2>. QED
    BY <1>2, <2>1, <2>2, <2>3, <2>4 DEF CandleInv
<1>5. CASE j.got # {}
  <2>1. PICK kept : kept = {c \in mergeCandles(read(p), j.got) : Closed(c)}
    OBVIOUS
  <2>2. PICK k : k = [j EXCEPT !.phase = "writing"]
    OBVIOUS
  <2>3. /\ memo' = [memo EXCEPT ![p] = kept] /\ file' = Torn /\ answer' = NoAnswer
        /\ job' = [job EXCEPT ![p] = k]
    BY <1>1, <1>5, <2>1, <2>2 DEF write
  <2>4. /\ excused \subseteq excused'
        /\ read(p) # j.cached => "raced" \in excused'
        /\ clockMs \div 2 # j.since \div 2 => "slow" \in excused'
    BY <1>1, <1>5 DEF write, step
  <2>5. Series(kept, excused')
    BY <1>1, <1>2, <2>1, <2>4, KeptIsASeries
  <2>6. kept \in SUBSET Candle /\ kept # NoMemo
    BY <2>5, CandleAssumption DEF Series
  <2>7. JobOK(k, series[p], clockMs, excused')
    <3>1. JobOK(j, series[p], clockMs, excused') /\ j # Idle
      BY <1>2, <1>3, <2>4, JobStays, IdleIsFine
    <3>2. /\ Fresh(j, clockMs) /\ (Calm(excused') => WholeSeries(j.cached))
      BY <3>1 DEF JobOK
    <3>3. PICK m1 \in Nat, m2 \in Nat : Covers(j, series[p], excused', m1, m2)
      BY <3>1 DEF JobOK
    <3>4. k \in Jobs /\ k.phase = "writing"
      BY <1>3, <2>2 DEF Jobs
    <3>5. k.got = j.got /\ k.since = j.since /\ k.cached = j.cached /\ k.window = j.window
      BY <1>3, <2>2 DEF Jobs
    <3>6. Covers(k, series[p], excused', m1, m2)
      BY <1>2, <3>3, <3>4, <3>5 DEF Covers
    <3>7. Fresh(k, clockMs) /\ (Calm(excused') => WholeSeries(k.cached))
      BY <3>2, <3>5 DEF Fresh
    <3>. QED
      BY <3>4, <3>6, <3>7 DEF JobOK
  <2>8. /\ DOMAIN job' = Procs /\ series' \in [Procs -> Reads]
        /\ \A q \in Procs : JobOK(job'[q], series'[q], clockMs', excused')
    BY <1>2, <2>3, <2>4, <2>7, OnlyJobsKept
  <2>9. /\ memo' \in [Procs -> UNION {{NoMemo}, SUBSET Candle}]
        /\ \A q \in Procs : memo'[q] # NoMemo => Series(memo'[q], excused')
    <3>1. /\ memo \in [Procs -> UNION {{NoMemo}, SUBSET Candle}]
          /\ \A q \in Procs : memo[q] # NoMemo => Series(memo[q], excused')
      BY <2>4, SeriesStays DEF CandleInv
    <3>. QED
      BY <2>3, <2>5, <2>6, <3>1
  <2>10. \A q \in Procs : job'[q].phase = "writing" => memo'[q] # NoMemo
    <3>1. memo'[p] # NoMemo
      BY <2>3, <2>6 DEF CandleInv
    <3>2. \A q \in Procs \ {p} : memo'[q] = memo[q] /\ job'[q] = job[q]
      BY <1>2, <2>3 DEF CandleInv
    <3>. QED
      BY <3>1, <3>2 DEF CandleInv
  <2>11. AnswersAreWhole'
    BY <2>3, NothingAnswered
  <2>. QED
    BY <1>2, <2>3, <2>8, <2>9, <2>10, <2>11 DEF CandleInv
<1>. QED
  BY <1>4, <1>5

LEMMA WrittenKeeps ==
    ASSUME CandleInv, NEW p \in Procs, written(p)
    PROVE  CandleInv'
<1>1. PICK j : j = job[p]
  OBVIOUS
<1>2. /\ j.phase = "writing" /\ UNCHANGED <<clockMs, memo, series, excused>>
      /\ file' = memo[p] \/ file' = Torn
      /\ answer' = [window |-> j.window, candles |-> mergeCandles(j.cached, j.got), poolless |-> FALSE]
      /\ job' = [job EXCEPT ![p] = Idle]
  BY <1>1 DEF written, Respond
<1>3. /\ j \in Jobs
      /\ Calm(excused) => \A i \in Common :
             j.window[1] + 2 <= 2 * i /\ 2 * i <= j.window[2] - 2 => Has(mergeCandles(j.cached, j.got), i)
  BY <1>1, <1>2, FetchAnswers
<1>4. AnswersAreWhole'
  <2>1. j.window \in Nat \X Nat
    BY <1>3 DEF Jobs
  <2>. QED
    BY <1>2, <1>3, <2>1, AnswerGiven
<1>5. /\ DOMAIN job' = Procs /\ series' \in [Procs -> Reads]
        /\ \A q \in Procs : JobOK(job'[q], series'[q], clockMs', excused')
  BY <1>2, IdleIsFine, OnlyJobsKept
<1>6. \A q \in Procs : job'[q].phase = "writing" => memo[q] # NoMemo
  BY <1>2, IdleIsFine DEF CandleInv
<1>7. file' # Torn => Series(file', excused)
  BY <1>1, <1>2 DEF CandleInv
<1>. QED
  BY <1>2, <1>4, <1>5, <1>6, <1>7 DEF CandleInv

LEMMA CandleTickKeeps == CandleInv /\ CandleTick => CandleInv'
<1> SUFFICES ASSUME CandleInv, CandleTick PROVE CandleInv'
  OBVIOUS
<1>1. /\ clockMs \in Nat /\ clockMs' = clockMs + 1 /\ answer' = NoAnswer
      /\ UNCHANGED <<file, memo, series, job, asked, excused>>
  BY DEF CandleInv, CandleTick
<1>2. PICK t \in Nat, u \in Nat : t = clockMs /\ u = clockMs' /\ t <= u
  BY <1>1
<1>3. \A q \in Procs : JobOK(job[q], series[q], u, excused)
  BY <1>2, JobStays DEF CandleInv
<1>4. AnswersAreWhole'
  BY <1>1, NothingAnswered
<1>. QED
  BY <1>1, <1>2, <1>3, <1>4 DEF CandleInv

LEMMA CandleKeeps == CandleInv /\ [CandleNext]_candleVars => CandleInv'
<1> SUFFICES ASSUME CandleInv, [CandleNext]_candleVars PROVE CandleInv'
  OBVIOUS
<1>1. ASSUME NEW p \in Procs, NEW window \in Windows, ask(p, window) PROVE CandleInv'
  BY <1>1, AskKeeps
<1>2. ASSUME NEW p \in Procs, nextPage(p) PROVE CandleInv'
  BY <1>2, NextPageKeeps
<1>3. ASSUME NEW p \in Procs, pageFails(p) \/ crash(p) PROVE CandleInv'
  BY <1>3, JobEndsKeeps
<1>4. ASSUME NEW p \in Procs, write(p) PROVE CandleInv'
  BY <1>4, WriteKeeps
<1>5. ASSUME NEW p \in Procs, written(p) PROVE CandleInv'
  BY <1>5, WrittenKeeps
<1>6. CASE CandleTick
  BY <1>6, CandleTickKeeps
<1>8. ASSUME NEW p \in Procs, NEW pool \in Pools \cup {NoPool}, deepestPool(p, pool)
      PROVE  CandleInv'
  BY <1>8, DeepestPoolKeeps
<1>7. CASE UNCHANGED candleVars
  <2>1. UNCHANGED <<clockMs, file, memo, series, job, answer, asked, excused>>
    BY <1>7 DEF candleVars
  <2>2. AnswersAreWhole'
    BY <2>1, AnswerStays DEF CandleInv
  <2>. QED
    BY <2>1, <2>2 DEF CandleInv
<1>. QED
  BY <1>1, <1>2, <1>3, <1>4, <1>5, <1>6, <1>7, <1>8 DEF CandleNext

\* Whatever mixture of cache and fetch answered it, in whatever order processes
\* fetched, wrote, crashed and read each other's files, an answer holds every
\* candle of its window, an interval of slack at each end, that all the
\* configured series have, unless it is the cache's for want of a pool, a fetch
\* ran out of pages or two writers' series were merged (cache.ts:101-129,
\* geckoterminal.ts:127-143).
THEOREM AnswersAreComplete == CandleSpec => []AnswersAreWhole
<1>1. CandleInv => AnswersAreWhole
  BY DEF CandleInv
<1>. QED
  BY <1>1, CandleStarts, CandleKeeps, PTL DEF CandleSpec

\* What memo and file keep is final, unless a fetch waited for its pages across
\* the end of an interval (cache.ts:19-25, 82-85).
THEOREM CandlesAreFinal == CandleSpec => []CachedCandlesAreFinal
<1>1. CandleInv => CachedCandlesAreFinal
  BY DEF CandleInv, Series, CachedCandlesAreFinal
<1>. QED
  BY <1>1, CandleStarts, CandleKeeps, PTL DEF CandleSpec

=============================================================================
