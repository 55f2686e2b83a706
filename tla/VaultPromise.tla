---------------------------- MODULE VaultPromise ----------------------------
(***************************************************************************)
(* What the vault promises a holder who leaves, with no claim accounts,    *)
(* indices, bitmaps or counters in sight.  Burning shares entitles their   *)
(* owner to that fraction of every mint on offer, of what the vault held   *)
(* of it at the burn.  The mints are paid one by one, in any order, and    *)
(* none for less; until the last is paid nothing leaves the book otherwise *)
(* and nobody else leaves, so it is as if all were paid at the burn.       *)
(*                                                                         *)
(* The promise covers the mints that were on offer at the burn.  Paying    *)
(* out another one voids it (kept), and nothing is said of the time after. *)
(***************************************************************************)
EXTENDS Integers

CONSTANTS Holders, Assets, Quote

VARIABLES
    supply,     \* shares outstanding
    book,       \* what the vault has of each mint
    offered,    \* the mints that a withdrawal pays out
    owed,       \* for each holder, the least still to be paid of each unpaid mint
    kept        \* no mint was paid out that the burn did not cover

vars == <<supply, book, offered, owed, kept>>

Init ==
    /\ supply = 0
    /\ book = [a \in Assets |-> 0]
    /\ offered = {}
    /\ owed = [h \in Holders |-> [a \in {} |-> 0]]
    /\ kept = TRUE

Unpaid(h) == DOMAIN owed[h]

NobodyIsOwed == \A h \in Holders : Unpaid(h) = {}

\* Of the book, a step changes the balance of one mint.
Only(a) ==
    /\ book' = [book EXCEPT ![a] = book'[a]]
    /\ book'[a] \in Nat

Offer(a) ==
    /\ offered' = offered \cup {a}
    /\ UNCHANGED <<supply, book, owed, kept>>

\* Also while somebody is owed: money that comes in takes from nobody.
Enter ==
    /\ supply' > supply
    /\ Only(Quote)
    /\ book'[Quote] > book[Quote]
    /\ UNCHANGED <<offered, owed, kept>>

\* A trade may change any balance, and waits until everyone is paid.
Trade ==
    /\ book' # book
    /\ book' \in [Assets -> Nat]
    /\ NobodyIsOwed
    /\ UNCHANGED <<supply, offered, owed, kept>>

\* The part of the supply that is burned is the part that is owed of each mint.
Leave(h) ==
    /\ supply' \in 0..(supply - 1)
    /\ NobodyIsOwed
    /\ owed' = [owed EXCEPT ![h] =
                    [a \in offered |-> (book[a] * (supply - supply')) \div supply]]
    /\ UNCHANGED <<book, offered, kept>>

\* One mint, to one holder, once.
Pay(h, a) ==
    /\ book'[a] + owed[h][a] <= book[a]
    /\ Only(a)
    /\ owed' = [owed EXCEPT ![h] = [b \in Unpaid(h) \ {a} |-> owed[h][b]]]
    /\ UNCHANGED <<supply, offered, kept>>

\* A mint is paid out to somebody who is not owed any.
Overpay(a) ==
    /\ kept' = FALSE
    /\ book'[a] <= book[a]
    /\ Only(a)
    /\ UNCHANGED <<supply, offered, owed>>

Void == ~kept /\ ~kept'

Next ==
    \/ Void
    \/ \E a \in Assets \ offered : Offer(a)
    \/ Enter
    \/ Trade
    \/ \E h \in Holders :
           \/ Leave(h)
           \/ \E a \in Unpaid(h) : Pay(h, a)
           \/ \E a \in offered \ Unpaid(h) : Overpay(a)

Spec == Init /\ [][Next]_vars
=============================================================================
