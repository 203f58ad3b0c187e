----------------------------- MODULE MCCheckout -----------------------------
(* Small instances of Checkout for TLC. *)
EXTENDS Checkout, TLC

CONSTANTS p1, p2, p3, s1, s2, c1, c2, e1, r1, r2, r3, k1, k2

(* An unused field of a request keeps a value that its operation ignores *)
Req(op) == [op |-> op, customer |-> c1, event |-> e1, quantity |-> 1,
            reservation |-> r1, key |-> k1, result |-> "APPROVED"]

Pay(key, result) == [Req("simulate") EXCEPT !.key = key, !.result = result]
Create(quantity) == [Req("create") EXCEPT !.customer = c2, !.quantity = quantity]

Hold(c, quantity, t) ==
    [status |-> "PENDING_PAYMENT", customer |-> c, event |-> e1,
     quantity |-> quantity, expiresAt |-> t, released |-> FALSE]

MCCapacity == e1 :> 2
TightCapacity == e1 :> 3
MCStartsAt == e1 :> 2
NearStart == e1 :> 1

Three(a, b, c) == (p1 :> a) @@ (p2 :> b) @@ (p3 :> c)
Two(a, b) == (p1 :> a) @@ (p2 :> b)

(* One reservation about to expire while its customer pays it, twice, with *)
(* one key or two, or cancels it, and another customer wants its places;   *)
(* or else another customer pays another reservation under the same key    *)
TightHolds == (r1 :> Hold(c1, 2, 1)) @@ (r2 :> Hold(c2, 1, 3)) @@ (r3 :> None)

OtherPays(result) ==
    [Pay(k1, result) EXCEPT !.customer = c2, !.reservation = r2]

Contended ==
    {Three(Pay(k1, "APPROVED"), b, c) :
        b \in {Pay(k1, "APPROVED"), Pay(k2, "APPROVED"), Req("cancel")},
        c \in {Create(1), Req("get")}}
    \cup {Three(Pay(k1, "DECLINED"), Pay(k, "APPROVED"), Create(1)) : k \in {k1, k2}}
    \cup {Three(Pay(k1, "APPROVED"), OtherPays(b), Pay(k1, c)) :
              b, c \in {"APPROVED", "DECLINED"}}

(* Two reservations lapse under two timers, while the customer of one pays *)
(* and cancels it, or others are refused, one because the event begins     *)
TwoLapsing == (r1 :> Hold(c1, 1, 1)) @@ (r2 :> Hold(c2, 1, 1)) @@ (r3 :> None)

Lapsing ==
    {Two(Req("cancel"), Pay(k1, "APPROVED"))}
    \cup {Two(c, Pay(None, "APPROVED")) : c \in {Create(3), Create(1)}}

(* The same payment twice, the same cancellation twice                     *)
OneHold       == (r1 :> Hold(c1, 2, 1)) @@ (r2 :> None)
PaidTwice     == {Two(Pay(k1, "APPROVED"), Pay(k1, "APPROVED"))}
CanceledTwice == {Two(Req("cancel"), Req("cancel"))}

(* A reservation paid under two keys, and another one under one of them    *)
TwoHolds == (r1 :> Hold(c1, 1, 1)) @@ (r2 :> Hold(c1, 1, 1))

KeyAgain ==
    {Three(Pay(k1, "APPROVED"), Pay(k2, "APPROVED"),
           [Pay(k2, "APPROVED") EXCEPT !.reservation = r2])}
=============================================================================
