---------------------------- MODULE TicketOffice ----------------------------
(***************************************************************************)
(* What the checkout promises, with nothing of how it is done: a sale is   *)
(* made, and later settled once, each in a single step that moves the      *)
(* event's free places, the sale and its tickets together.                 *)
(***************************************************************************)
EXTENDS Integers

CONSTANTS Sales, Events, MaxQuantity, None,
          InitialSales, InitialFree   \* the office when it opens

VARIABLES sale,     \* [event, quantity, status] of each sale, or None
          free,     \* the places of each event that nobody holds
          issued    \* the numbers of the tickets issued for each sale

vars == <<sale, free, issued>>

Init ==
    /\ sale = InitialSales
    /\ free = InitialFree
    /\ issued = [s \in Sales |-> {}]

Book(s, e, n) ==
    /\ sale[s] = None
    /\ free[e] >= n
    /\ sale' = [sale EXCEPT ![s] = [event |-> e, quantity |-> n, status |-> "PENDING_PAYMENT"]]
    /\ free' = [free EXCEPT ![e] = @ - n]
    /\ UNCHANGED issued

Settle(s, status) ==
    /\ sale[s] # None
    /\ sale[s].status = "PENDING_PAYMENT"
    /\ sale' = [sale EXCEPT ![s].status = status]

(* A paid sale keeps its places and gets one ticket for each.              *)
Sell(s) ==
    /\ Settle(s, "PAID")
    /\ issued' = [issued EXCEPT ![s] = 1..sale[s].quantity]
    /\ UNCHANGED free

(* A sale that comes to nothing gives its places back.                     *)
GiveBack(s) ==
    /\ \E status \in {"DECLINED", "CANCELED", "EXPIRED"} : Settle(s, status)
    /\ free' = [free EXCEPT ![sale[s].event] = @ + sale[s].quantity]
    /\ UNCHANGED issued

Next ==
    \E s \in Sales :
        \/ \E e \in Events, n \in 1..MaxQuantity : Book(s, e, n)
        \/ Sell(s)
        \/ GiveBack(s)

Spec == Init /\ [][Next]_vars
=============================================================================
