------------------------------- MODULE MCMirror -------------------------------
(***************************************************************************)
(* One leader, mirrored by the pooled loop or by a follower's loop.  The   *)
(* two share nothing but the leader, whom neither affects, so a behaviour  *)
(* explores one of them and the other stands still.                        *)
(***************************************************************************)
EXTENDS PooledRunner, FollowWallet

VARIABLE host

Terms(scalar, position, count, least, reserve, daily, dust, cooldown, paused) ==
    [exposureScalar |-> scalar, maxPositionPct |-> position, maxPositions |-> count,
     minTradeUsd |-> least, quoteReservePct |-> reserve, dailyDeployPct |-> daily,
     exitDustThreshold |-> dust, denyTokens |-> {}, maxTradeAge |-> 1,
     reentryCooldown |-> cooldown, maxDrawdownPct |-> 35, dailyLossLimitPct |-> 15,
     leaderCollapsePct |-> 50, paused |-> paused]

OnePosition  == Terms(1, 40, 1, 5, 60, 35, 90, 1, FALSE)
Halted       == Terms(1, 40, 1, 5, 60, 35, 90, 1, TRUE)
TwoPositions == Terms(2, 40, 2, 5, 10, 60, 90, 1, FALSE)
MCPolicies   == {OnePosition, Halted, TwoPositions}

MirrorInit ==
    /\ LeaderInit /\ PooledInit /\ FollowInit
    /\ host \in {"pooled", "follow"}
    /\ policy \in {OnePosition, Halted}
    /\ terms = TwoPositions
    /\ host = "follow" => policy = OnePosition

OnlyPooled == host = "pooled" /\ UNCHANGED <<followVars, host>>
OnlyFollow == host = "follow" /\ UNCHANGED <<pooledVars, host>>
OnlyLeader == UNCHANGED <<pooledVars, followVars, host>>

MirrorNext ==
    \/ StartTick /\ OnlyPooled
    \/ ReadTrades /\ OnlyPooled
    \/ ReadLeader /\ OnlyPooled
    \/ Plan /\ OnlyPooled
    \/ \E filled \in Filled : ExecutedOk(filled) /\ OnlyPooled
    \/ ExecutedNot /\ OnlyPooled
    \/ \E landed \in BOOLEAN : ExecutionThrows(landed) /\ OnlyPooled
    \/ EndTick /\ OnlyPooled
    \/ Report /\ OnlyPooled
    \/ \E a \in Assets : OwnerSells(a) /\ OnlyFollow
    \/ \E a \in Assets : Devalued(a) /\ OnlyFollow
    \/ StartCycle /\ OnlyFollow
    \/ WatcherAnswers /\ OnlyFollow
    \/ LeaderBookAnswers /\ OnlyFollow
    \/ PlanRound /\ OnlyFollow
    \/ Fills /\ OnlyFollow
    \/ Refused /\ OnlyFollow
    \/ \E landed \in BOOLEAN : Throws(landed) /\ OnlyFollow
    \/ EndRound /\ OnlyFollow
    \/ Reported /\ OnlyFollow
    \/ \E a \in Assets, usd \in BuyUsd : LeaderBuys(a, usd) /\ OnlyLeader
    \/ \E a \in Assets, n \in 1..MaxTrades : LeaderSells(a, n) /\ OnlyLeader
    \/ LeaderCollapses /\ OnlyLeader
    \/ Clock /\ OnlyLeader

MirrorSpec == MirrorInit /\ [][MirrorNext]_<<leaderVars, pooledVars, followVars, host>>

\* The leader moves where a loop can notice: between cycles, or between its
\* two reads.  A move at any other point commutes with the loop's own steps.
LeaderMovesAreSeen ==
    leaderVars' # leaderVars =>
        \/ cycle = Idle /\ round = Waiting
        \/ cycle.step = "reading" /\ (cycle.trades = NotRead) # (cycle.book = NotRead)
        \/ round.step = "reading" /\ (round.trades = NotRead) # (round.book = NotRead)

\* A follower's plan meets the leader's portfolio only as a weight.
CollapsesArePooled == leader'.total # leader.total => host = "pooled"

OwnerMovesAreSeen ==
    hand' # hand => round = Waiting \/ (round.step = "executing" /\ round.intents # <<>>)

Interchangeable == Permutations(Assets)

==============================================================================
