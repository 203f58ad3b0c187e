------------------------------ MODULE Turnstile ------------------------------
(***************************************************************************)
(* What the tickets and the gate promise, with nothing of how it is done:  *)
(* a ticket goes through once, and opens by at most one link at a time,    *)
(* each a single step; a link that was taken back never opens again.       *)
(***************************************************************************)
CONSTANTS Tickets, Tokens, Gates, None, InitialLink

VARIABLES through,   \* the gate each ticket went through, or None
          open,      \* the link that opens each ticket, or None
          spent      \* links that have been given out

vars == <<through, open, spent>>

Init ==
    /\ through = [t \in Tickets |-> None]
    /\ open = InitialLink
    /\ spent = {k \in Tokens : \E t \in Tickets : InitialLink[t] = k}

Admit(t, g) ==
    /\ through[t] = None
    /\ through' = [through EXCEPT ![t] = g]
    /\ UNCHANGED <<open, spent>>

(* The new link replaces the one before it, if any, in one step.           *)
Share(t, k) ==
    /\ k \notin spent
    /\ open' = [open EXCEPT ![t] = k]
    /\ spent' = spent \cup {k}
    /\ UNCHANGED through

TakeBack(t) ==
    /\ open' = [open EXCEPT ![t] = None]
    /\ UNCHANGED <<through, spent>>

Next == \E t \in Tickets :
            \/ \E g \in Gates : Admit(t, g)
            \/ \E k \in Tokens : Share(t, k)
            \/ TakeBack(t)

Spec == Init /\ [][Next]_vars
=============================================================================
