------------------------- MODULE FollowServerProofs -------------------------
(***************************************************************************)
(* Proofs about FollowServer, for any wallets, leaders and bounds: its     *)
(* type, that it implements FollowPromise, and that no fee is owed for a   *)
(* swap that did not land.                                                 *)
(*                                                                         *)
(* Three invariants carry them, each from the ones before it: TypeOK; what *)
(* a cycle remembers (Memory), which the refinement needs wherever a swap  *)
(* is signed or a fill recorded; and the totals of the fee ledger (Books), *)
(* which must say what is still in flight to be kept.                      *)
(***************************************************************************)
EXTENDS FollowServer, LedgerMath

-----------------------------------------------------------------------------
(* Facts about the operators of the model. *)

LEMMA DueIsPlanned ==
    ASSUME plan \in SUBSET TradeIds, plan # {}
    PROVE  Due \in plan /\ Due \in TradeIds
<1>1. plan \subseteq Nat
  BY ConstantAssumption DEF TradeIds
<1>. QED
  BY <1>1, LeastExists DEF Due, Min

\* The newest of the trades polled is one of them.
LEMMA NewestExists ==
    ASSUME feed \in Seq([leader: Leaders, side: {"buy", "sell"}, ts: 0..MaxNow]),
           NEW trades, trades \subseteq 1..Len(feed), trades # {}
    PROVE  NewestOf(trades) \in trades
<1> DEFINE Entry == [leader: Leaders, side: {"buy", "sell"}, ts: 0..MaxNow]
<1>0. MaxNow \in Nat
  BY ConstantAssumption
<1> DEFINE ts == [t \in trades |-> feed[t].ts]
<1>1. \A t \in trades : t \in Nat /\ ts[t] \in 0..MaxNow
  <2>1. \A t \in trades : t \in Nat /\ feed[t] \in Entry
    <3> HIDE DEF Entry
    <3>1. feed \in Seq(Entry)
      BY DEF Entry
    <3>. QED BY <3>1
  <2>. QED BY <2>1
<1> DEFINE ages == {MaxNow - ts[t] : t \in trades}
<1> HIDE DEF ts
<1>2. ages \subseteq Nat /\ ages # {}
  <2>1. \A t \in trades : MaxNow - ts[t] \in Nat
    BY <1>0, <1>1
  <2>. QED BY <2>1
<1>3. PICK a \in ages : \A b \in ages : a <= b
  <2> HIDE DEF ages
  <2>. QED BY <1>2, LeastExists
<1>4. DEFINE latest == {t \in trades : MaxNow - ts[t] = a}
<1>5. latest \subseteq Nat /\ latest # {}
  BY <1>1, <1>3
<1>6. PICK t \in latest : \A u \in latest : t <= u
  <2> HIDE DEF latest
  <2>. QED BY <1>5, LeastExists
<1>7. ASSUME NEW u \in trades PROVE ts[u] < ts[t] \/ (ts[u] = ts[t] /\ t <= u)
  <2>1. a <= MaxNow - ts[u] /\ a = MaxNow - ts[t]
    BY <1>3
  <2>2. ts[u] = ts[t] => t <= u
    BY <2>1, <1>6
  <2>3. ts[u] \in Int /\ ts[t] \in Int
    BY <1>1
  <2>4. ts[u] <= ts[t]
    BY <1>0, <2>1, <2>3
  <2>. QED BY <2>2, <2>3, <2>4
<1>. QED
  BY <1>6, <1>7 DEF NewestOf, ts

\* The order in which the wallets of a group are served is a sequence of them.
LEMMA OrderIsSeq ==
    ASSUME NEW S, IsFiniteSet(S), NEW q \in SetToSeqs(S)
    PROVE  q \in Seq(S) /\ (S # {} => q # <<>>)
<1>1. Cardinality(S) \in Nat
  BY FS_CardinalityType
<1>2. q \in [1..Cardinality(S) -> S]
  BY DEF SetToSeqs
<1>3. q \in Seq(S) /\ Len(q) = Cardinality(S)
  BY <1>1, <1>2
<1>. QED
  BY <1>3, FS_EmptySet

-----------------------------------------------------------------------------
(* The type of the state. *)

\* What the types of later states rest on: a leader has a turn only if someone
\* in this cycle follows it, a subscriber is written back only after its turn,
\* no plan outlives the turn it was made for, an idle loop holds nothing, and
\* every row names a leader.
Control ==
    /\ pc = "idle" => DOMAIN copy = {}
    /\ pc \in {"poll", "serve", "execute", "send", "confirm"} => unsaved # <<>>
    /\ pc \notin {"execute", "send", "confirm"} => plan = {}
    /\ page \subseteq 1..Len(feed)
    /\ \A l \in groups : \E s \in DOMAIN copy : LeaderOf(s) = l
    /\ \A s \in Subs : row[s].status # "absent" => row[s].leader \in Leaders

LEMMA NoCopy == DOMAIN NoCopies = {}
  BY DEF NoCopies

LEMMA InitTypes == Init => TypeOK /\ Control
<1> SUFFICES ASSUME Init PROVE TypeOK /\ Control
  OBVIOUS
<1> USE ConstantAssumption, NoCopy DEF Init, NoCursor, TradeIds
<1>1. DatabaseType
  BY DEF DatabaseType, Absent, Statuses
<1>2. CycleType
  BY DEF CycleType
<1>3. TurnType
  <2>1. filled \in BOOLEAN
    OBVIOUS
  <2>. QED BY <2>1 DEF TurnType
<1>4. WorldType
  BY DEF WorldType
<1>5. Control
  BY DEF Control, Absent
<1>. QED
  BY <1>1, <1>2, <1>3, <1>4, <1>5 DEF TypeOK

\* The database: rows as a handler or the loop writes them.
LEMMA DatabaseStep ==
    TypeOK /\ Control /\ [Next]_vars => DatabaseType'
<1> SUFFICES ASSUME TypeOK, Control, [Next]_vars PROVE DatabaseType'
  OBVIOUS
<1> USE DEF DatabaseType, TypeOK, NoCursor, Statuses
<1>1. CASE UNCHANGED dbVars
  BY <1>1 DEF dbVars
<1>2. ASSUME NEW s \in Subs, NEW l \in Leaders, Subscribe(s, l)
      PROVE  DatabaseType'
  BY <1>2 DEF Subscribe
<1>3. ASSUME NEW s \in Subs, Unsubscribe(s) \/ Activate(s)
      PROVE  DatabaseType'
  BY <1>3 DEF Unsubscribe, Activate
<1>4. CASE MarkProcessed
  <2>1. Head(unsaved) \in DOMAIN copy
    BY <1>4 DEF MarkProcessed, CycleType
  <2>2. Remembered(Head(unsaved)) \subseteq TradeIds \X (0..MaxNow)
    BY <2>1 DEF Remembered, CycleType, WorldType
  <2>. QED BY <1>4, <2>1, <2>2 DEF MarkProcessed
<1>5. CASE Upsert
  <2>1. Head(unsaved) \in DOMAIN copy
    BY <1>5 DEF Upsert, CycleType
  <2>. QED BY <1>5, <2>1 DEF Upsert, CycleType
<1>6. CASE SaveFees \/ Shutdown
  BY <1>6 DEF SaveFees, Shutdown, SavedFees, TurnType
<1>7. CASE Prune
  BY <1>7 DEF Prune
<1>. QED
  BY <1>1, <1>2, <1>3, <1>4, <1>5, <1>6, <1>7
     DEF Next, Loop, vars, StartCycle, StartGroup, Polled, PollFails, Serve,
         Throws, NotOk, Sign, Refused, Land, Confirmed, ConfirmThrows,
         FinishSub, Crash, Grant, Withdraw, Trade, Tick

\* A cycle that ends leaves nothing in memory but the ledger.
LEMMA OverTypes ==
    ASSUME CycleOver
    PROVE  /\ CycleType'
           /\ ledger' \in [Subs -> Nat] => TurnType'
<1> USE NoCopy, ConstantAssumption DEF CycleOver
<1>1. CycleType'
  BY DEF CycleType
<1>2. filled' \in BOOLEAN
  OBVIOUS
<1>3. ledger' \in [Subs -> Nat] => TurnType'
  BY <1>2 DEF TurnType
<1>. QED
  BY <1>1, <1>3

\* The turn passes to the next subscriber, or to whoever is written back first.
LEMMA NextSubTypes ==
    ASSUME CycleType, Control, NextSub,
           pc \in {"serve", "execute", "send", "confirm"},
           UNCHANGED <<groups, unsaved>>,
           DOMAIN copy' = DOMAIN copy,
           \A s \in DOMAIN copy : /\ copy'[s].leader = copy[s].leader
                                  /\ copy'[s] \in [leader: Leaders,
                                                   status: {"active", "revoked"},
                                                   cursor: {NoCursor} \cup TradeIds,
                                                   done: SUBSET TradeIds]
    PROVE  CycleType'
<1>1. todo' \in Seq(DOMAIN copy) /\ unsaved' \in Seq(DOMAIN copy)
  BY DEF CycleType, NextSub
<1>2. /\ pc' \in {"persist", "serve"}
      /\ pc' = "serve" => todo' # <<>>
      /\ unsaved' # <<>>
  BY DEF NextSub, Control
<1>. QED
  BY <1>1, <1>2 DEF CycleType

\* The cycle: whom it holds, and whose turn is still to come.
LEMMA CycleStep ==
    TypeOK /\ Control /\ [Next]_vars => CycleType'
<1> SUFFICES ASSUME TypeOK, Control, [Next]_vars PROVE CycleType'
  OBVIOUS
<1> USE ConstantAssumption DEF CycleType, TypeOK, NoCursor
<1>1. CASE UNCHANGED <<pc, copy, groups, todo, unsaved>>
  BY <1>1
<1>2. CASE StartCycle
  <2>1. \A s \in Active : /\ row[s].leader \in Leaders
                          /\ row[s].cursor \in {NoCursor} \cup TradeIds
                          /\ Seen(s) \in SUBSET TradeIds
    BY DEF Active, Control, DatabaseType, Seen
  <2>2. groups' \subseteq Leaders
    BY <1>2, <2>1 DEF StartCycle
  <2>3. /\ todo = <<>> /\ unsaved = <<>>
        /\ pc' = "group"
    BY <1>2 DEF StartCycle, Control
  <2>. QED BY <1>2, <2>1, <2>2, <2>3 DEF StartCycle, Active, turnVars
<1>3. ASSUME NEW l \in Leaders, StartGroup(l) PROVE CycleType'
  <2> DEFINE group == {s \in DOMAIN copy : LeaderOf(s) = l}
  <2>1. IsFiniteSet(group) /\ group # {}
    BY <1>3, FS_Subset DEF StartGroup, Control
  <2>2. todo' \in Seq(group) /\ todo' # <<>>
    BY <1>3, <2>1, OrderIsSeq DEF StartGroup
  <2>3. todo' \in Seq(DOMAIN copy)
    BY <2>2
  <2>. QED BY <1>3, <2>2, <2>3 DEF StartGroup
<1>4. CASE Polled \/ Serve
  BY <1>4 DEF Polled, Serve
<1>5. CASE PollFails \/ Crash \/ Shutdown
  BY <1>5, OverTypes DEF PollFails, Crash, Shutdown
<1>6. CASE Throws \/ ConfirmThrows
  BY <1>6, NextSubTypes DEF Throws, ConfirmThrows
<1>7. CASE NotOk \/ Sign \/ Land
  BY <1>7 DEF NotOk, Sign, Land, turnVars
<1>8. CASE Refused
  <2>1. Current \in DOMAIN copy /\ pc = "execute"
    BY <1>8 DEF Refused, Current
  <2>2. DOMAIN copy' = DOMAIN copy
    BY <1>8 DEF Refused
  <2>. QED BY <1>8, <2>1, <2>2, NextSubTypes DEF Refused
<1>9. CASE Confirmed
  <2>1. Current \in DOMAIN copy /\ Due \in TradeIds
    BY <1>9, DueIsPlanned DEF Confirmed, Current, TurnType
  <2>2. DOMAIN copy' = DOMAIN copy
    BY <1>9 DEF Confirmed
  <2>. QED BY <1>9, <2>1, <2>2 DEF Confirmed
<1>10. CASE FinishSub
  <2>1. Current \in DOMAIN copy
    BY <1>10 DEF FinishSub, Current
  <2>2. DOMAIN copy' = DOMAIN copy
    BY <1>10 DEF FinishSub
  <2>3. page # {} => NewestOf(page) \in TradeIds
    BY NewestExists DEF TurnType, WorldType, Control
  <2>. QED BY <1>10, <2>1, <2>2, <2>3, NextSubTypes DEF FinishSub
<1>11. CASE MarkProcessed
  BY <1>11 DEF MarkProcessed, turnVars
<1>12. CASE Upsert
  BY <1>12 DEF Upsert
<1>13. CASE SaveFees
  BY <1>13, OverTypes DEF SaveFees
<1>. QED
  BY <1>1, <1>2, <1>3, <1>4, <1>5, <1>6, <1>7, <1>8, <1>9, <1>10, <1>11, <1>12,
     <1>13
     DEF Next, Loop, vars, loopVars, turnVars, Prune, Subscribe, Unsubscribe,
         Activate, Grant, Withdraw, Trade, Tick

\* The turn: the page polled, the plan made from it and the ledger.
LEMMA TurnStep ==
    TypeOK /\ Control /\ [Next]_vars => TurnType'
<1> SUFFICES ASSUME TypeOK, Control, [Next]_vars PROVE TurnType'
  OBVIOUS
<1> USE ConstantAssumption DEF TurnType, TypeOK
<1>1. CASE UNCHANGED <<pc, turnVars, ledger>>
  BY <1>1 DEF turnVars
<1>2. CASE StartCycle \/ MarkProcessed
  BY <1>2 DEF StartCycle, MarkProcessed, turnVars
<1>3. ASSUME NEW l \in Leaders, StartGroup(l) PROVE TurnType'
  BY <1>3 DEF StartGroup, WorldType
<1>4. CASE Polled
  <2>1. page' \subseteq 1..Len(feed) /\ pc' = "serve"
    BY <1>4 DEF Polled, Newest
  <2>2. page' \subseteq TradeIds
    BY <2>1 DEF WorldType, TradeIds
  <2>. QED BY <1>4, <2>1, <2>2 DEF Polled
<1>5. CASE PollFails \/ Shutdown
  BY <1>5, OverTypes DEF PollFails, Shutdown
<1>6. CASE Crash
  BY <1>6, OverTypes DEF Crash, DatabaseType
<1>7. CASE Serve
  BY <1>7 DEF Serve, Eligible
<1>8. CASE Throws \/ Refused \/ ConfirmThrows \/ FinishSub
  BY <1>8 DEF Throws, Refused, ConfirmThrows, FinishSub, NextSub
<1>9. CASE NotOk \/ Sign \/ Land
  BY <1>9 DEF NotOk, Sign, Land, turnVars
<1>10. CASE Confirmed
  <2>1. Current \in Subs
    BY <1>10 DEF Confirmed, Current, CycleType
  <2>2. ledger' \in [Subs -> Nat]
    BY <1>10, <2>1 DEF Confirmed
  <2>3. filled' \in BOOLEAN
    BY <1>10 DEF Confirmed
  <2>. QED BY <1>10, <2>2, <2>3 DEF Confirmed
<1>11. CASE Upsert
  BY <1>11 DEF Upsert
<1>12. CASE SaveFees
  BY <1>12, OverTypes DEF SaveFees
<1>. QED
  BY <1>1, <1>2, <1>3, <1>4, <1>5, <1>6, <1>7, <1>8, <1>9, <1>10, <1>11, <1>12
     DEF Next, Loop, vars, loopVars, Prune, Subscribe, Unsubscribe,
         Activate, Grant, Withdraw, Trade, Tick

\* What is outside the process.
LEMMA WorldStep ==
    TypeOK /\ Control /\ [Next]_vars => WorldType'
<1> SUFFICES ASSUME TypeOK, Control, [Next]_vars PROVE WorldType'
  OBVIOUS
<1> USE ConstantAssumption DEF WorldType, TypeOK
<1>1. CASE UNCHANGED <<chainVars, delegated, boundVars>>
  BY <1>1 DEF chainVars, boundVars
<1>2. CASE Land
  <2>1. Current \in Subs
    BY <1>2 DEF Land, Current, CycleType
  <2>2. Due \in TradeIds
    BY <1>2, DueIsPlanned DEF Land, TurnType
  <2>. QED BY <1>2, <2>1, <2>2 DEF Land, boundVars
<1>3. CASE ConfirmThrows
  <2>1. Current \in Subs
    BY <1>3 DEF ConfirmThrows, Current, CycleType
  <2>. QED BY <1>3, <2>1 DEF ConfirmThrows, chainVars
<1>4. CASE Crash \/ Shutdown
  BY <1>4 DEF Crash, Shutdown, chainVars
<1>5. ASSUME NEW l \in Leaders, NEW side \in {"buy", "sell"}, Trade(l, side)
      PROVE  WorldType'
  BY <1>5 DEF Trade, boundVars
<1>6. ASSUME NEW s \in Subs, Grant(s) \/ Withdraw(s) PROVE WorldType'
  BY <1>6 DEF Grant, Withdraw, chainVars, boundVars
<1>7. CASE Tick
  BY <1>7 DEF Tick, boundVars
<1>. QED
  BY <1>1, <1>2, <1>3, <1>4, <1>5, <1>6, <1>7
     DEF Next, Loop, vars, chainVars, boundVars, StartCycle, StartGroup, Polled,
         PollFails, Serve, Throws, NotOk, Sign, Refused, Confirmed, FinishSub,
         MarkProcessed, Upsert, SaveFees, Prune, Subscribe, Unsubscribe, Activate

LEMMA ControlStep ==
    TypeOK /\ Control /\ [Next]_vars => Control'
<1> SUFFICES ASSUME TypeOK, Control, [Next]_vars PROVE Control'
  OBVIOUS
<1> DEFINE Held == {"execute", "send", "confirm"}
           Leads == \A l \in groups : \E s \in DOMAIN copy : LeaderOf(s) = l
           Rows == \A s \in Subs :
                       row[s].status # "absent" => row[s].leader \in Leaders
           Pages == page \subseteq 1..Len(feed)
           Turns == /\ pc = "idle" => DOMAIN copy = {}
                    /\ pc \in {"poll", "serve"} \cup Held => unsaved # <<>>
                    /\ pc \notin Held => plan = {}
<1>1. Rows'
  <2> USE DEF Control
  <2>1. CASE UNCHANGED row
    BY <2>1
  <2>2. ASSUME NEW s \in Subs, NEW l \in Leaders, Subscribe(s, l)
        PROVE  Rows'
    BY <2>2 DEF Subscribe, TypeOK, DatabaseType
  <2>3. ASSUME NEW s \in Subs, Unsubscribe(s) \/ Activate(s) PROVE Rows'
    BY <2>3 DEF Unsubscribe, Activate, TypeOK, DatabaseType
  <2>4. CASE Upsert
    BY <2>4 DEF Upsert, TypeOK, CycleType, DatabaseType
  <2>. QED
    BY <2>1, <2>2, <2>3, <2>4
       DEF Next, Loop, vars, dbVars, StartCycle, StartGroup, Polled, PollFails,
           Serve, Throws, NotOk, Sign, Refused, Land, Confirmed, ConfirmThrows,
           FinishSub, MarkProcessed, SaveFees, Prune, Crash, Shutdown, Grant,
           Withdraw, Trade, Tick
<1>2. Pages'
  <2> USE DEF Control
  <2>1. CASE UNCHANGED <<page, feed>>
    BY <2>1
  <2>2. CASE Polled
    BY <2>2 DEF Polled, Newest, chainVars
  <2>3. CASE CycleOver \/ SaveFees
    BY <2>3 DEF CycleOver, SaveFees
  <2>4. ASSUME NEW l \in Leaders, NEW side \in {"buy", "sell"}, Trade(l, side)
        PROVE  Pages'
    <3>1. Len(feed) \in Nat /\ Len(feed') = Len(feed) + 1 /\ page' = page
      BY <2>4 DEF Trade, TypeOK, WorldType, loopVars, turnVars
    <3>. QED BY <3>1
  <2>. QED
    BY <2>1, <2>2, <2>3, <2>4
       DEF Next, Loop, vars, chainVars, loopVars, turnVars, StartCycle,
           StartGroup, PollFails, Serve, Throws, NotOk, Sign, Refused, Land,
           Confirmed, ConfirmThrows, FinishSub, MarkProcessed, Upsert, Prune,
           Crash, Shutdown, Subscribe, Unsubscribe, Activate, Grant, Withdraw,
           Tick
<1>3. Leads'
  <2> USE DEF Control, LeaderOf
  <2>1. CASE UNCHANGED <<copy, groups>>
    BY <2>1
  <2>2. CASE StartCycle
    BY <2>2 DEF StartCycle, Active
  <2>3. ASSUME NEW l \in Leaders, StartGroup(l) PROVE Leads'
    BY <2>3 DEF StartGroup
  <2>4. CASE CycleOver
    BY <2>4 DEF CycleOver
  <2>5. CASE Refused \/ Confirmed \/ FinishSub
    <3>1. /\ DOMAIN copy' = DOMAIN copy
          /\ \A s \in DOMAIN copy : copy'[s].leader = copy[s].leader
          /\ groups' = groups
      <4>1. Current \in DOMAIN copy /\ groups' = groups
        BY <2>5 DEF Refused, Confirmed, FinishSub, Current, TypeOK, CycleType
      <4>2. CASE Refused
        BY <4>1, <4>2 DEF Refused, TypeOK, CycleType
      <4>3. CASE Confirmed
        BY <4>1, <4>3 DEF Confirmed, TypeOK, CycleType
      <4>4. CASE FinishSub
        BY <4>1, <4>4 DEF FinishSub, TypeOK, CycleType
      <4>. QED BY <2>5, <4>1, <4>2, <4>3, <4>4
    <3>. QED BY <3>1
  <2>. QED
    BY <2>1, <2>2, <2>3, <2>4, <2>5
       DEF Next, Loop, vars, loopVars, turnVars, Polled, PollFails, Serve,
           Throws, NotOk, Sign, Land, ConfirmThrows, MarkProcessed, Upsert,
           SaveFees, Prune, Crash, Shutdown, Subscribe, Unsubscribe, Activate,
           Grant, Withdraw, Trade, Tick
<1>4. Turns'
  <2> USE DEF Control
  <2>1. CASE UNCHANGED <<pc, copy, unsaved, plan>>
    BY <2>1
  <2>2. CASE StartCycle
    BY <2>2 DEF StartCycle, turnVars
  <2>3. ASSUME NEW l \in Leaders, StartGroup(l) PROVE Turns'
    <3>1. CycleType'
      BY CycleStep
    <3>2. pc' = "poll" /\ pc = "group" /\ unsaved' = todo' /\ plan' = plan
      BY <2>3 DEF StartGroup
    <3>3. unsaved' # <<>>
      BY <3>1, <3>2 DEF CycleType
    <3>. QED BY <3>2, <3>3
  <2>4. CASE CycleOver
    BY <2>4, NoCopy DEF CycleOver
  <2>5. CASE Polled \/ Serve
    BY <2>5 DEF Polled, Serve
  <2>6. CASE /\ NextSub /\ unsaved' = unsaved
             /\ pc \in {"serve"} \cup Held
    BY <2>6 DEF NextSub
  <2>7. CASE NotOk \/ Sign \/ Land \/ Confirmed
    BY <2>7 DEF NotOk, Sign, Land, Confirmed, turnVars
  <2>8. CASE MarkProcessed \/ Upsert
    BY <2>8 DEF MarkProcessed, Upsert, turnVars
  <2>9. CASE SaveFees
    BY <2>9, <2>4 DEF SaveFees
  <2>. QED
    BY <2>1, <2>2, <2>3, <2>4, <2>5, <2>6, <2>7, <2>8, <2>9
       DEF Next, Loop, vars, loopVars, turnVars, PollFails, Throws, Refused,
           ConfirmThrows, FinishSub, Prune, Crash, Shutdown, Subscribe,
           Unsubscribe, Activate, Grant, Withdraw, Trade, Tick
<1>. QED
  BY <1>1, <1>2, <1>3, <1>4 DEF Control, LeaderOf

\* The state of the server, its memory and its wallets' swaps keep their types
\* whatever the handlers, the loop and the world do.
THEOREM TypeCorrect == Spec => [](TypeOK /\ Control)
<1>1. TypeOK /\ Control /\ [Next]_vars => (TypeOK /\ Control)'
  BY DatabaseStep, CycleStep, TurnStep, WorldStep, ControlStep DEF TypeOK
<1>. QED
  BY InitTypes, <1>1, PTL DEF Spec

-----------------------------------------------------------------------------
(* What the server remembers, and what it promises. *)

Held == {"execute", "send", "confirm"}

\* A cycle knows all that the database knows; what is remembered did land, and
\* so did the swap about to be; and a plan holds no trade that is remembered.
Memory ==
    /\ \A s \in DOMAIN copy : Seen(s) \subseteq copy[s].done
    /\ \A s \in Subs : \A t \in Known(s) : landed[s][t] > 0
    /\ pc \in Held => plan \cap copy[Current].done = {}
    /\ pc = "confirm" => landed[Current][Due] > 0

\* What most steps are, seen from FollowPromise: nothing lands, nothing new is
\* remembered or signed for, and a plan of mirrorInto stays as clean as it was.
Quiet ==
    /\ landed' = landed
    /\ \A s \in Subs : Known(s)' \subseteq Known(s)
    /\ \A s \in DOMAIN copy' : Seen(s)' \subseteq copy'[s].done
    /\ pc' \in {"send", "confirm"} => UNCHANGED <<pc, todo, plan>>
    /\ pc' \in Held => /\ UNCHANGED <<todo, copy>>
                       /\ plan' \cap copy[Current].done = {}

LEMMA QuietStep ==
    ASSUME TypeOK, Control, Memory, [Next]_vars
    PROVE  Quiet \/ Sign \/ Land \/ Confirmed
<1> USE DEF Memory
<1>1. CASE UNCHANGED <<processed, pc, copy, todo, plan, landed>>
  BY <1>1 DEF Quiet, Known, Seen, Held
<1>2. CASE StartCycle
  <2>1. pc' = "group" /\ landed' = landed
    BY <1>2 DEF StartCycle, chainVars
  <2>2. /\ \A s \in Subs : Seen(s)' = Seen(s)
        /\ \A s \in DOMAIN copy' : copy'[s].done = Seen(s)
        /\ DOMAIN copy' \subseteq Subs
        /\ DOMAIN copy = {}
    BY <1>2 DEF StartCycle, Control, dbVars, Seen, Active
  <2>. QED BY <2>1, <2>2 DEF Quiet, Known, Held
<1>3. ASSUME NEW l \in Leaders, StartGroup(l) PROVE Quiet
  BY <1>3 DEF StartGroup, Quiet, Known, Seen, Held, dbVars, chainVars
<1>4. CASE Polled \/ Throws \/ ConfirmThrows
  <2>1. /\ UNCHANGED <<processed, copy, landed>>
        /\ pc' \in {"serve", "persist"}
    BY <1>4 DEF Polled, Throws, ConfirmThrows, NextSub, dbVars, chainVars
  <2>. QED BY <2>1 DEF Quiet, Known, Seen, Held
<1>5. CASE PollFails \/ Crash \/ Shutdown
  <2>1. /\ UNCHANGED <<processed, landed>>
        /\ pc' = "idle" /\ DOMAIN copy' = {}
    BY <1>5, NoCopy DEF PollFails, Crash, Shutdown, CycleOver, dbVars, chainVars
  <2>. QED BY <2>1 DEF Quiet, Known, Seen, Held
<1>6. CASE Serve
  <2>1. /\ UNCHANGED <<processed, copy, todo, landed>>
        /\ pc' = "execute"
        /\ plan' \cap copy[Current].done = {}
    BY <1>6 DEF Serve, Eligible, dbVars, chainVars
  <2>. QED BY <2>1 DEF Quiet, Known, Seen, Held
<1>7. CASE NotOk
  <2>1. /\ UNCHANGED <<processed, copy, todo, landed>>
        /\ pc \in Held /\ pc' = "execute"
        /\ plan' \subseteq plan
    BY <1>7 DEF NotOk, dbVars, chainVars, Held
  <2>. QED BY <2>1 DEF Quiet, Known, Seen, Held
<1>8. CASE Refused \/ FinishSub
  <2>1. Current \in DOMAIN copy
    BY <1>8 DEF Refused, FinishSub, Current, TypeOK, CycleType
  <2>2. \A s \in DOMAIN copy : copy[s] = [leader |-> copy[s].leader,
            status |-> copy[s].status, cursor |-> copy[s].cursor,
            done |-> copy[s].done]
    BY DEF TypeOK, CycleType
  <2>3. /\ UNCHANGED <<processed, landed>>
        /\ pc' \in {"serve", "persist"}
        /\ DOMAIN copy' = DOMAIN copy
    BY <1>8 DEF Refused, FinishSub, NextSub, dbVars, chainVars
  <2>4. \A s \in DOMAIN copy : copy'[s].done = copy[s].done
    <3>1. CASE Refused
      BY <2>1, <2>2, <3>1 DEF Refused
    <3>2. CASE FinishSub
      BY <2>1, <2>2, <3>2 DEF FinishSub
    <3>. QED BY <1>8, <3>1, <3>2
  <2>. QED BY <2>3, <2>4 DEF Quiet, Known, Seen, Held
<1>9. CASE MarkProcessed
  <2>1. PICK s0 \in DOMAIN copy : s0 = Head(unsaved) /\ s0 \in Subs
    BY <1>9 DEF MarkProcessed, TypeOK, CycleType
  <2>2. /\ UNCHANGED <<copy, landed>>
        /\ pc' = "upsert"
        /\ processed' = [processed EXCEPT ![s0] = Remembered(s0)]
        /\ DOMAIN processed = Subs
    BY <1>9, <2>1 DEF MarkProcessed, chainVars, TypeOK, DatabaseType
  <2>3. \A s \in Subs : s # s0 => Seen(s)' = Seen(s)
    BY <2>2 DEF Seen
  <2>4. Seen(s0)' \subseteq copy[s0].done
    <3>1. processed'[s0] = Remembered(s0)
      BY <2>1, <2>2
    <3>2. \A q \in Remembered(s0) : q[1] \in copy[s0].done
      BY <2>1 DEF Remembered, Seen
    <3>. QED BY <3>1, <3>2 DEF Seen
  <2>5. \A s \in DOMAIN copy' : Seen(s)' \subseteq copy'[s].done
    BY <2>1, <2>2, <2>3, <2>4 DEF TypeOK, CycleType
  <2>6. \A s \in Subs : Known(s)' \subseteq Known(s)
    BY <2>1, <2>2, <2>3 DEF Known
  <2>. QED BY <2>2, <2>5, <2>6 DEF Quiet, Held
<1>10. CASE Upsert
  BY <1>10 DEF Upsert, Quiet, Known, Seen, Held, chainVars
<1>11. CASE SaveFees
  <2>1. /\ UNCHANGED <<processed, landed>>
        /\ pc' \in {"group", "idle"}
        /\ copy' = copy \/ DOMAIN copy' = {}
    BY <1>11, NoCopy DEF SaveFees, CycleOver, chainVars
  <2>. QED BY <2>1 DEF Quiet, Known, Seen, Held
<1>12. CASE Prune
  <2>1. UNCHANGED <<copy, landed, pc>> /\ pc = "idle" /\ DOMAIN copy = {}
    BY <1>12 DEF Prune, loopVars, chainVars, Control
  <2>2. \A s \in Subs : Seen(s)' \subseteq Seen(s)
    BY <1>12 DEF Prune, Seen
  <2>. QED BY <2>1, <2>2 DEF Quiet, Known, Held
<1>. QED
  BY <1>1, <1>2, <1>3, <1>4, <1>5, <1>6, <1>7, <1>8, <1>9, <1>10, <1>11, <1>12
     DEF Next, Loop, vars, dbVars, loopVars, turnVars, chainVars, Subscribe,
         Unsubscribe, Activate, Grant, Withdraw, Trade, Tick

LEMMA InitMemory == Init => Memory
<1> SUFFICES ASSUME Init PROVE Memory
  OBVIOUS
<1>1. \A s \in Subs : Known(s) = {}
  BY NoCopy DEF Init, Known, Seen
<1>. QED
  BY <1>1, NoCopy DEF Init, Memory, Held

LEMMA MemoryStep ==
    TypeOK /\ Control /\ Memory /\ [Next]_vars => Memory'
<1> SUFFICES ASSUME TypeOK, Control, Memory, [Next]_vars PROVE Memory'
  OBVIOUS
<1>1. CASE Quiet
  BY <1>1 DEF Quiet, Memory, Current, Due, Held
<1>2. CASE Sign
  BY <1>2 DEF Sign, Memory, Known, Seen, Current, Held, turnVars, dbVars,
              chainVars
<1>3. CASE Land
  <2>1. Current \in Subs /\ Due \in TradeIds
    BY <1>3, DueIsPlanned DEF Land, Current, TypeOK, CycleType, TurnType
  <2>2. /\ UNCHANGED <<processed, copy, todo, plan>>
        /\ pc = "send" /\ pc' = "confirm"
        /\ landed' = [landed EXCEPT ![Current][Due] = @ + 1]
    BY <1>3 DEF Land, dbVars, turnVars
  <2>3. landed \in [Subs -> [TradeIds -> Nat]]
    BY DEF TypeOK, WorldType
  <2>4. /\ \A s \in Subs : \A t \in TradeIds : landed'[s][t] >= landed[s][t]
        /\ landed'[Current][Due] > 0
    BY <2>1, <2>2, <2>3
  <2>5. \A s \in Subs : Known(s) \subseteq TradeIds
    BY DEF TypeOK, CycleType, DatabaseType, Known, Seen
  <2>6. \A s \in Subs : Known(s)' = Known(s) /\ Seen(s)' = Seen(s)
    BY <2>2 DEF Known, Seen
  <2>7. \A s \in Subs : \A t \in Known(s)' : landed'[s][t] > 0
    <3> SUFFICES ASSUME NEW s \in Subs, NEW t \in Known(s)
                 PROVE  landed'[s][t] > 0
      BY <2>6
    <3>1. landed[s][t] > 0 /\ t \in TradeIds
      BY <2>5 DEF Memory
    <3>2. landed'[s][t] >= landed[s][t] /\ landed[s][t] \in Nat
      BY <3>1, <2>3, <2>4
    <3>3. landed'[s][t] \in Nat
      BY <3>1, WorldStep DEF WorldType
    <3>. QED BY <3>1, <3>2, <3>3
  <2>. QED
    BY <2>2, <2>4, <2>6, <2>7 DEF Memory, Current, Due, Held, TypeOK, CycleType
<1>4. CASE Confirmed
  <2>1. PICK c \in DOMAIN copy : c = Current /\ c \in Subs
    BY <1>4 DEF Confirmed, Current, TypeOK, CycleType
  <2>2. PICK t \in TradeIds : t = Due
    BY <1>4, DueIsPlanned DEF Confirmed, TypeOK, TurnType
  <2>3. /\ UNCHANGED <<processed, todo, landed>>
        /\ pc = "confirm" /\ pc' = "execute"
        /\ plan' = plan \ {t}
        /\ copy' = [copy EXCEPT ![c].done = @ \cup {t}]
    BY <1>4, <2>1, <2>2 DEF Confirmed, dbVars, chainVars
  <2>4. /\ DOMAIN copy' = DOMAIN copy
        /\ copy'[c].done = copy[c].done \cup {t}
        /\ \A s \in DOMAIN copy : s # c => copy'[s] = copy[s]
    BY <2>1, <2>3 DEF TypeOK, CycleType
  <2>5. /\ Known(c)' = Known(c) \cup {t}
        /\ \A s \in Subs : s # c => Known(s)' = Known(s)
        /\ \A s \in Subs : Seen(s)' = Seen(s)
    BY <2>1, <2>3, <2>4 DEF Known, Seen
  <2>6. \A s \in Subs : \A u \in Known(s)' : landed'[s][u] > 0
    BY <2>1, <2>2, <2>3, <2>5 DEF Memory
  <2>7. plan' \cap copy'[Current'].done = {}
    BY <2>1, <2>3, <2>4 DEF Memory, Current, Held
  <2>8. \A s \in DOMAIN copy' : Seen(s)' \subseteq copy'[s].done
    BY <2>1, <2>4, <2>5 DEF Memory, TypeOK, CycleType
  <2>. QED
    BY <2>3, <2>6, <2>7, <2>8 DEF Memory
<1>. QED
  BY <1>1, <1>2, <1>3, <1>4, QuietStep

-----------------------------------------------------------------------------
(* The refinement. *)

LEMMA InitPromise == Init => Promise!Init
<1> SUFFICES ASSUME Init PROVE Promise!Init
  OBVIOUS
<1>1. \A s \in Subs : Known(s) = {}
  BY NoCopy DEF Init, Known, Seen
<1>. QED
  BY <1>1 DEF Init, Promise!Init, Signed

\* Each step of the server is a step of its promise, or none.
LEMMA StepPromise ==
    ASSUME TypeOK, Control, Memory, [Next]_vars
    PROVE  [Promise!Next]_(Promise!vars)
<1>1. \A s \in Subs : Known(s) \subseteq TradeIds
  BY DEF TypeOK, CycleType, DatabaseType, Known, Seen
<1>2. CASE Quiet /\ delegated' = delegated
  <2>1. Signed' \subseteq Signed
    BY <1>2 DEF Quiet, Signed, Current, Due
  <2>2. Promise!Forget
    BY <1>1, <1>2, <2>1 DEF Quiet, Promise!Forget
  <2>. QED BY <2>2 DEF Promise!Next
<1>3. ASSUME NEW s \in Subs, Grant(s) \/ Withdraw(s)
      PROVE  Promise!Next
  <2>1. /\ UNCHANGED <<processed, copy, pc, todo, plan, landed>>
        /\ delegated' = delegated \cup {s} \/ delegated' = delegated \ {s}
    BY <1>3 DEF Grant, Withdraw, dbVars, loopVars, turnVars, chainVars
  <2>2. /\ \A u \in Subs : Known(u)' = Known(u)
        /\ Signed' = Signed
    BY <2>1 DEF Known, Seen, Signed, Current, Due
  <2>3. Promise!Grant(s) \/ Promise!Withdraw(s)
    BY <2>1, <2>2 DEF Promise!Grant, Promise!Withdraw
  <2>. QED BY <2>3 DEF Promise!Next
<1>4. CASE Sign \/ Land \/ Confirmed
  <2>1. PICK c \in DOMAIN copy : c = Current /\ c \in Subs
    BY <1>4 DEF Sign, Land, Confirmed, Current, TypeOK, CycleType
  <2>2. PICK t \in TradeIds : t = Due /\ t \in plan
    BY <1>4, DueIsPlanned DEF Sign, Land, Confirmed, TypeOK, TurnType
  <2>3. CASE Sign
    <3>1. /\ UNCHANGED <<processed, copy, todo, plan, landed, delegated>>
          /\ pc = "execute" /\ pc' = "send"
          /\ c \in delegated
      BY <2>1, <2>3 DEF Sign, dbVars, turnVars, chainVars
    <3>2. /\ \A u \in Subs : Known(u)' = Known(u)
          /\ Signed' = {<<c, t>>} /\ Signed = {}
      BY <2>1, <2>2, <3>1 DEF Known, Seen, Signed, Current, Due
    <3>3. t \notin Known(c)
      BY <2>1, <2>2, <3>1 DEF Memory, Known, Held
    <3>4. Promise!Sign(c, t)
      BY <2>1, <3>1, <3>2, <3>3 DEF Promise!Sign
    <3>. QED BY <2>1, <3>4 DEF Promise!Next
  <2>4. CASE Land
    <3>1. /\ UNCHANGED <<processed, copy, todo, plan, delegated>>
          /\ pc = "send" /\ pc' = "confirm"
          /\ landed' = [landed EXCEPT ![c][t] = @ + 1]
      BY <2>1, <2>2, <2>4 DEF Land, dbVars, turnVars
    <3>2. /\ \A u \in Subs : Known(u)' = Known(u)
          /\ Signed = {<<c, t>>} /\ Signed' = {}
      BY <2>1, <2>2, <3>1 DEF Known, Seen, Signed
    <3>3. Promise!Land(c, t)
      BY <3>1, <3>2 DEF Promise!Land
    <3>. QED BY <2>1, <3>3 DEF Promise!Next
  <2>5. CASE Confirmed
    <3>1. /\ UNCHANGED <<processed, landed, delegated>>
          /\ pc = "confirm" /\ pc' = "execute"
          /\ copy' = [copy EXCEPT ![c].done = @ \cup {t}]
      BY <2>1, <2>2, <2>5 DEF Confirmed, dbVars, chainVars
    <3>2. /\ Signed = {} /\ Signed' = {}
          /\ landed[c][t] > 0
      BY <2>1, <2>2, <3>1 DEF Signed, Memory
    <3>3. /\ DOMAIN copy' = DOMAIN copy
          /\ copy'[c].done = copy[c].done \cup {t}
          /\ \A s \in DOMAIN copy : s # c => copy'[s] = copy[s]
      BY <2>1, <3>1 DEF TypeOK, CycleType
    <3>4. /\ Known(c)' = Known(c) \cup {t}
          /\ \A s \in Subs : s # c => Known(s)' = Known(s)
      BY <2>1, <3>1, <3>3 DEF Known, Seen
    <3>5. Promise!Remember(c, t)
      BY <2>1, <3>1, <3>2, <3>4 DEF Promise!Remember
    <3>. QED BY <2>1, <3>5 DEF Promise!Next
  <2>. QED BY <1>4, <2>3, <2>4, <2>5
<1>5. \/ delegated' = delegated
      \/ \E s \in Subs : Grant(s) \/ Withdraw(s)
  BY DEF Next, Loop, vars, StartCycle, StartGroup, Polled, PollFails, Serve,
         Throws, NotOk, Sign, Refused, Land, Confirmed, ConfirmThrows, FinishSub,
         MarkProcessed, Upsert, SaveFees, Prune, Crash, Shutdown, Subscribe,
         Unsubscribe, Activate, Trade, Tick
<1>. QED
  BY <1>2, <1>3, <1>4, <1>5, QuietStep

\* The server implements FollowPromise: whatever the handlers, Privy, a crash or
\* a shutdown do between the awaits of the loop, for any number of wallets,
\* leaders and trades, it signs only under a standing delegation, broadcasts each
\* signature once, never signs again for a trade it remembers, and remembers only
\* what landed.
THEOREM ServerKeepsItsPromise == Spec => KeepsItsPromise
<1>1. Init => TypeOK /\ Control /\ Memory
  BY InitTypes, InitMemory
<1>2. TypeOK /\ Control /\ Memory /\ [Next]_vars => (TypeOK /\ Control /\ Memory)'
  BY DatabaseStep, CycleStep, TurnStep, WorldStep, ControlStep, MemoryStep
     DEF TypeOK
<1>3. TypeOK /\ Control /\ Memory /\ [Next]_vars => [Promise!Next]_(Promise!vars)
  BY StepPromise
<1>. QED
  BY <1>1, <1>2, <1>3, InitPromise, PTL DEF Spec, KeepsItsPromise, Promise!Spec

-----------------------------------------------------------------------------
(* The fees. *)

\* 1 while a swap has landed whose confirmation the loop is waiting for
InFlight(s) == IF pc = "confirm" /\ s = Current THEN 1 ELSE 0

\* The running total never counts the swap in flight; until the process is first
\* stopped it counts every other but those whose confirmation was lost, and what
\* is on disk is the total whenever nothing has been executed since it was saved.
Books ==
    \A s \in Subs :
        /\ ledger[s] + InFlight(s) <= SwapsOf(s)
        /\ fees[s] <= SwapsOf(s)
        /\ stops = 0 => ledger[s] + unconfirmed[s] + InFlight(s) = SwapsOf(s)
        /\ stops = 0 /\ pc \in {"idle", "group", "poll"} => fees[s] = ledger[s]

LEMMA TradesFinite == IsFiniteSet(TradeIds)
<1>1. MaxTrades \in Int
  BY ConstantAssumption
<1>. QED
  BY <1>1, FS_Interval DEF TradeIds

\* Swaps are counted in naturals, and one more of them counts one more.
LEMMA SwapsNat ==
    ASSUME TypeOK
    PROVE  \A s \in Subs : SwapsOf(s) \in Nat
<1> SUFFICES ASSUME NEW s \in Subs PROVE SwapsOf(s) \in Nat
  OBVIOUS
<1>1. landed[s] \in [TradeIds -> Nat]
  BY DEF TypeOK, WorldType
<1>2. IsFiniteSet(TradeIds)
  BY TradesFinite
<1>3. SumFunctionOnSet(landed[s], TradeIds) \in Nat
  BY <1>1, <1>2, SumNat
<1>. QED
  BY <1>1, <1>3 DEF SwapsOf, SumFunction

LEMMA SwapsStep ==
    ASSUME TypeOK, Land
    PROVE  \A s \in Subs :
               SwapsOf(s)' = SwapsOf(s) + (IF s = Current THEN 1 ELSE 0)
<1>1. PICK c \in Subs : c = Current
  BY DEF Land, Current, TypeOK, CycleType
<1>2. PICK t \in TradeIds : t = Due
  BY DueIsPlanned DEF Land, TypeOK, TurnType
<1>3. landed \in [Subs -> [TradeIds -> Nat]]
  BY DEF TypeOK, WorldType
<1>4. landed' = [landed EXCEPT ![c][t] = @ + 1]
  BY <1>1, <1>2 DEF Land
<1> SUFFICES ASSUME NEW s \in Subs
             PROVE  SwapsOf(s)' = SwapsOf(s) + (IF s = c THEN 1 ELSE 0)
  BY <1>1
<1>5. CASE s # c
  <2>1. landed'[s] = landed[s]
    BY <1>3, <1>4, <1>5
  <2>. QED BY <2>1, <1>5, SwapsNat DEF SwapsOf
<1>6. CASE s = c
  <2>1. /\ landed[c] \in [TradeIds -> Nat] /\ landed'[c] \in [TradeIds -> Nat]
        /\ landed'[c][t] = landed[c][t] + 1
        /\ \A u \in TradeIds : u # t => landed'[c][u] = landed[c][u]
    BY <1>3, <1>4
  <2>2. IsFiniteSet(TradeIds)
    BY TradesFinite
  <2>3. \A u \in TradeIds : landed[c][u] \in Int /\ landed'[c][u] \in Int
    BY <2>1
  <2>4. SumFunctionOnSet(landed'[c], TradeIds)
            = SumFunctionOnSet(landed[c], TradeIds)
              + (landed'[c][t] - landed[c][t])
    BY <2>1, <2>2, <2>3, SumUpdate
  <2>5. landed'[c][t] - landed[c][t] = 1
    BY <2>1
  <2>6. SumFunctionOnSet(landed'[c], TradeIds)
            = SumFunctionOnSet(landed[c], TradeIds) + 1
    BY <2>4, <2>5
  <2>7. /\ SwapsOf(c) = SumFunctionOnSet(landed[c], TradeIds)
        /\ SwapsOf(c)' = SumFunctionOnSet(landed'[c], TradeIds)
    BY <2>1 DEF SwapsOf, SumFunction
  <2>. QED BY <2>6, <2>7, <1>6
<1>. QED
  BY <1>5, <1>6

LEMMA InitBooks == Init => Books
<1> SUFFICES ASSUME Init, NEW s \in Subs
             PROVE  /\ SwapsOf(s) = 0 /\ ledger[s] = 0 /\ fees[s] = 0
                    /\ unconfirmed[s] = 0 /\ InFlight(s) = 0
  BY DEF Books
<1>1. landed[s] = [t \in TradeIds |-> 0]
  BY DEF Init
<1>2. IsFiniteSet(TradeIds)
  BY TradesFinite
<1>3. SumFunctionOnSet(landed[s], TradeIds) = 0
  BY <1>1, <1>2, SumZero
<1>4. SwapsOf(s) = 0
  BY <1>1, <1>3 DEF SwapsOf, SumFunction
<1>. QED
  BY <1>4 DEF Init, InFlight

\* Steps that charge nothing and swap nothing.
LEMMA BooksFrame ==
    ASSUME TypeOK, Books,
           UNCHANGED <<fees, ledger, landed, unconfirmed>>,
           \A s \in Subs : InFlight(s)' = InFlight(s),
           stops' = stops \/ stops' # 0,
           pc' \in {"idle", "group", "poll"} => pc \in {"idle", "group", "poll"}
    PROVE  Books'
<1>1. \A s \in Subs : SwapsOf(s)' = SwapsOf(s)
  BY DEF SwapsOf
<1>. QED
  BY <1>1 DEF Books

LEMMA BooksStep ==
    TypeOK /\ Control /\ Books /\ [Next]_vars => Books'
<1> SUFFICES ASSUME TypeOK, Control, Books, [Next]_vars PROVE Books'
  OBVIOUS
<1>0. /\ \A s \in Subs : /\ SwapsOf(s) \in Nat
                         /\ ledger[s] \in Nat /\ fees[s] \in Nat
                         /\ unconfirmed[s] \in Nat
                         /\ InFlight(s) \in Nat
      /\ stops \in Nat
  BY SwapsNat, ConstantAssumption
     DEF TypeOK, DatabaseType, TurnType, WorldType, InFlight
<1>1. CASE UNCHANGED <<fees, ledger, landed, unconfirmed, stops, pc, todo>>
  <2>1. \A s \in Subs : InFlight(s)' = InFlight(s)
    BY <1>1 DEF InFlight, Current
  <2>. QED BY <1>1, <2>1, BooksFrame
<1>2. CASE StartCycle \/ (\E l \in Leaders : StartGroup(l))
  <2>1. /\ UNCHANGED <<fees, ledger, landed, unconfirmed, stops>>
        /\ pc \in {"idle", "group"} /\ pc' # "confirm"
    BY <1>2 DEF StartCycle, StartGroup, dbVars, chainVars, boundVars
  <2>2. \A s \in Subs : InFlight(s)' = InFlight(s)
    BY <2>1 DEF InFlight
  <2>. QED BY <2>1, <2>2, BooksFrame
<1>3. CASE \/ Polled \/ PollFails \/ Serve \/ Throws \/ NotOk \/ Sign
           \/ Refused \/ FinishSub \/ MarkProcessed \/ Upsert
  <2>1. /\ UNCHANGED <<fees, ledger, landed, unconfirmed, stops>>
        /\ pc # "confirm" /\ pc' # "confirm"
    BY <1>3 DEF Polled, PollFails, Serve, Throws, NotOk, Sign, Refused,
                FinishSub, MarkProcessed, Upsert, CycleOver, NextSub, dbVars,
                chainVars, boundVars
  <2>2. pc' \in {"idle", "group", "poll"} => pc \in {"idle", "group", "poll"}
    BY <1>3 DEF Polled, PollFails, Serve, Throws, NotOk, Sign, Refused,
                FinishSub, MarkProcessed, Upsert, CycleOver, NextSub
  <2>3. \A s \in Subs : InFlight(s)' = InFlight(s)
    BY <2>1 DEF InFlight
  <2>. QED BY <2>1, <2>2, <2>3, BooksFrame
<1>4. CASE Land
  <2>1. /\ UNCHANGED <<fees, ledger, unconfirmed, stops, todo>>
        /\ pc = "send" /\ pc' = "confirm"
    BY <1>4 DEF Land, dbVars, turnVars, boundVars
  <2>2. \A s \in Subs : /\ InFlight(s) = 0
                        /\ InFlight(s)' = (IF s = Current THEN 1 ELSE 0)
                        /\ SwapsOf(s)' = SwapsOf(s) + InFlight(s)'
    BY <2>1, <1>4, SwapsStep DEF InFlight, Current
  <2>3. \A s \in Subs : InFlight(s)' \in Nat
    BY <2>2
  <2>. QED BY <1>0, <2>1, <2>2, <2>3 DEF Books
<1>5. CASE Confirmed \/ ConfirmThrows
  <2>1. PICK c \in Subs : c = Current
    BY <1>5 DEF Confirmed, ConfirmThrows, Current, TypeOK, CycleType
  <2>2. /\ UNCHANGED <<fees, landed, stops>>
        /\ pc = "confirm" /\ pc' \in {"execute", "serve", "persist"}
    BY <1>5 DEF Confirmed, ConfirmThrows, NextSub, dbVars, chainVars, boundVars
  <2>3. \A s \in Subs : /\ InFlight(s) = (IF s = c THEN 1 ELSE 0)
                        /\ InFlight(s)' = 0
                        /\ SwapsOf(s)' = SwapsOf(s)
    BY <2>1, <2>2 DEF InFlight, SwapsOf
  <2>4. \A s \in Subs :
            \/ /\ ledger'[s] = ledger[s] + (IF s = c THEN 1 ELSE 0)
               /\ unconfirmed'[s] = unconfirmed[s]
            \/ /\ unconfirmed'[s] = unconfirmed[s] + (IF s = c THEN 1 ELSE 0)
               /\ ledger'[s] = ledger[s]
    BY <1>0, <1>5, <2>1
       DEF Confirmed, ConfirmThrows, boundVars, TypeOK, TurnType, WorldType
  <2>. QED BY <1>0, <2>2, <2>3, <2>4 DEF Books
<1>6. CASE SaveFees
  <2>1. /\ UNCHANGED <<ledger, landed, unconfirmed, stops>>
        /\ fees' = ledger
        /\ pc = "fees" /\ pc' \in {"idle", "group"}
    BY <1>6 DEF SaveFees, SavedFees, CycleOver, chainVars, boundVars
  <2>2. \A s \in Subs : /\ InFlight(s) = 0 /\ InFlight(s)' = 0
                        /\ SwapsOf(s)' = SwapsOf(s)
    BY <2>1 DEF InFlight, SwapsOf
  <2>. QED BY <1>0, <2>1, <2>2 DEF Books
<1>7. CASE Crash \/ Shutdown
  <2>1. /\ UNCHANGED <<landed, unconfirmed>>
        /\ pc' = "idle" /\ stops' = stops + 1
        /\ \/ fees' = fees /\ ledger' = fees
           \/ fees' = ledger /\ ledger' = ledger
    BY <1>7 DEF Crash, Shutdown, SavedFees, CycleOver, dbVars, chainVars
  <2>2. \A s \in Subs : InFlight(s)' = 0 /\ SwapsOf(s)' = SwapsOf(s)
    BY <2>1 DEF InFlight, SwapsOf
  <2>. QED BY <1>0, <2>1, <2>2 DEF Books
<1>. QED
  BY <1>1, <1>2, <1>3, <1>4, <1>5, <1>6, <1>7
     DEF Next, Loop, vars, dbVars, loopVars, turnVars, chainVars, boundVars,
         Prune, Subscribe, Unsubscribe, Activate, Grant, Withdraw, Trade, Tick

\* In memory and on disk a wallet never owes for more swaps than landed in it,
\* and between two cycles of a process that was never stopped it owes for exactly
\* those it saw confirmed: whatever the number of wallets, trades and cycles, no
\* failed poll, lost confirmation or restart charges one twice.
THEOREM FeesMatchFills == Spec => []FeesAreForFills
<1>1. Init => TypeOK /\ Control /\ Books
  BY InitTypes, InitBooks
<1>2. TypeOK /\ Control /\ Books /\ [Next]_vars => (TypeOK /\ Control /\ Books)'
  BY DatabaseStep, CycleStep, TurnStep, WorldStep, ControlStep, BooksStep
     DEF TypeOK
<1>3. TypeOK /\ Books => FeesAreForFills
  <2> SUFFICES ASSUME TypeOK, Books, NEW s \in Subs
               PROVE  /\ ledger[s] <= SwapsOf(s)
                      /\ fees[s] <= SwapsOf(s)
                      /\ pc = "idle" /\ stops = 0 =>
                             /\ fees[s] = ledger[s]
                             /\ ledger[s] = SwapsOf(s) - unconfirmed[s]
    BY DEF FeesAreForFills
  <2>1. /\ SwapsOf(s) \in Nat /\ ledger[s] \in Nat /\ InFlight(s) \in {0, 1}
        /\ unconfirmed[s] \in Nat
        /\ pc = "idle" => InFlight(s) = 0
    BY SwapsNat, ConstantAssumption DEF TypeOK, TurnType, WorldType, InFlight
  <2>. QED BY <2>1 DEF Books
<1>. QED
  BY <1>1, <1>2, <1>3, PTL DEF Spec
=============================================================================
