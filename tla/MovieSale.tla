------------------------------ MODULE MovieSale ------------------------------
(***************************************************************************)
(* What buyers, shop and payment services may rely on when movies are      *)
(* sold: the money of a purchase changes hands at most once, the movie is  *)
(* delivered after it did, and who was refused keeps the money.  That paid *)
(* purchases are delivered is not promised: the money may be lost.         *)
(***************************************************************************)
EXTENDS Integers

CONSTANTS
    Purchases,
    Services,
    Accounts,
    Account,    \* Account[r]: the account purchase r is charged to
    Amount      \* Amount[r]: the money purchase r costs

VARIABLES
    balance,     \* service -> account -> money
    paid,        \* purchases the money was taken for
    delivered,   \* purchases that have their ticket
    refused      \* purchases whose buyer was told why there is no ticket

vars == <<balance, paid, delivered, refused>>

Init ==
    /\ balance \in [Services -> [Accounts -> Nat]]
    /\ paid = {} /\ delivered = {} /\ refused = {}

(* Something must be left in the account.                                  *)
Pay(r, s) ==
    /\ r \notin paid \cup refused
    /\ paid' = paid \cup {r}
    /\ balance[s][Account[r]] > Amount[r]
    /\ balance' = [balance EXCEPT ![s][Account[r]] = @ - Amount[r]]
    /\ UNCHANGED <<delivered, refused>>

Deliver(r) ==
    /\ r \in paid \ (delivered \cup refused)
    /\ delivered' = delivered \cup {r}
    /\ UNCHANGED <<balance, paid, refused>>

Refuse(r) ==
    /\ r \notin paid
    /\ refused' = refused \cup {r}
    /\ UNCHANGED <<balance, paid, delivered>>

Next ==
    \E r \in Purchases :
        \/ \E s \in Services : Pay(r, s)
        \/ Deliver(r)
        \/ Refuse(r)

Spec == Init /\ [][Next]_vars
=============================================================================
