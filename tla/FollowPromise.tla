--------------------------- MODULE FollowPromise ---------------------------
(***************************************************************************)
(* What the follow server promises a subscriber, with no database, process *)
(* or loop in sight: a swap is broadcast only with a signature that the    *)
(* subscriber's delegation covered when it was given, and the server never *)
(* signs for a leader's trade that it remembers having mirrored already.   *)
(* What it remembers may be forgotten (a crash, an expired record); then,  *)
(* and only then, the same trade can be mirrored again.                    *)
(***************************************************************************)
EXTENDS Naturals

CONSTANTS Subs, Trades

VARIABLES
    delegated,  \* subscribers whose signature the server may ask for
    done,       \* trades remembered as mirrored, for each subscriber
    signed,     \* <<subscriber, trade>> pairs signed for and not yet broadcast
    landed      \* swaps on chain, for each subscriber and trade

vars == <<delegated, done, signed, landed>>

Init ==
    /\ delegated = {}
    /\ done = [s \in Subs |-> {}]
    /\ signed = {}
    /\ landed = [s \in Subs |-> [t \in Trades |-> 0]]

Grant(s) ==
    /\ delegated' = delegated \cup {s}
    /\ UNCHANGED <<done, signed, landed>>

Withdraw(s) ==
    /\ delegated' = delegated \ {s}
    /\ UNCHANGED <<done, signed, landed>>

Sign(s, t) ==
    /\ s \in delegated
    /\ t \notin done[s]
    /\ signed' = signed \cup {<<s, t>>}
    /\ UNCHANGED <<delegated, done, landed>>

\* One signature, one swap.
Land(s, t) ==
    /\ <<s, t>> \in signed
    /\ signed' = signed \ {<<s, t>>}
    /\ landed' = [landed EXCEPT ![s][t] = @ + 1]
    /\ UNCHANGED <<delegated, done>>

\* Only a trade that did land is remembered.
Remember(s, t) ==
    /\ landed[s][t] > 0
    /\ done' = [done EXCEPT ![s] = @ \cup {t}]
    /\ UNCHANGED <<delegated, signed, landed>>

Discard(s, t) ==
    /\ signed' = signed \ {<<s, t>>}
    /\ UNCHANGED <<delegated, done, landed>>

Forget ==
    /\ signed' \subseteq signed
    /\ done' \in [Subs -> SUBSET Trades]
    /\ \A s \in Subs : done'[s] \subseteq done[s]
    /\ UNCHANGED <<delegated, landed>>

Next ==
    \/ \E s \in Subs : Grant(s) \/ Withdraw(s)
    \/ \E s \in Subs, t \in Trades :
           Sign(s, t) \/ Land(s, t) \/ Remember(s, t) \/ Discard(s, t)
    \/ Forget

Spec == Init /\ [][Next]_vars
=============================================================================
